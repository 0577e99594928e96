SPECIFICATION UseSpec
CONSTANTS
  NumTasks = 3
  Priorities <- OnePriority
  DepChoices <- Shapes
  MaxLimit = 2
  ReadyCap = 1
  DoneCap = 1
  c1 = c1
  loop = loop
  Callers <- OneCaller
  Loop <- loop
INVARIANTS
  TypeOK
  BooksAgree
  OutcomeFaithful
  CompletionIsLast
  GraphSound
PROPERTIES
  TerminalIsFinal
  ImplementsTaskGraph
CHECK_DEADLOCK FALSE
