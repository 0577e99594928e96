SPECIFICATION SmallGraphFairSpec
CONSTANTS
  NumTasks = 2
  Priorities <- OnePriority
  DepChoices <- SmallShapes
  MaxLimit = 1
  ReadyCap = 1
  DoneCap = 1
  c1 = c1
  loop = loop
  Callers <- OneCaller
  Loop <- loop
PROPERTIES
  RunCompletes
CHECK_DEADLOCK FALSE
