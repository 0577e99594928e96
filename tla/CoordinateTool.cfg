SPECIFICATION ToolSpec
CONSTANTS
  NumTasks = 2
  Priorities <- OnePriority
  DepChoices <- Shapes
  MaxLimit = 2
  ReadyCap = 2
  DoneCap = 1
  loop = loop
  tool = tool
  Callers <- OnlyTool
  Loop <- loop
  Tool <- tool
INVARIANTS
  CompleteMeansQuiet
  StragglersBounded
CHECK_DEADLOCK FALSE
