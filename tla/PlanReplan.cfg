SPECIFICATION Spec
CONSTANTS
  NumSteps = 3
  MaxNew = 1
  MaxReplans = 1
  MaxUpsets = 0
  MaxCommands = 0
  MaxFailedSaves = 0
  Risky = {}
  Delegated = FALSE
  ManualActions = {}
  maxRetries = 1
  maxAutoResumeRounds = 2
  roundsPerStep = 12
  minRounds = 40
  maxRounds = 600
PROPERTY
  CompletedStaysDone
CHECK_DEADLOCK FALSE
