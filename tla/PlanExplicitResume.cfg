SPECIFICATION Spec
CONSTANTS
  NumSteps = 1
  MaxNew = 1
  MaxReplans = 0
  MaxUpsets = 0
  MaxCommands = 0
  MaxFailedSaves = 0
  Risky = {}
  Delegated = FALSE
  ManualActions = {}
  maxRetries = 3
  maxAutoResumeRounds = 2
  roundsPerStep = 12
  minRounds = 40
  maxRounds = 600
PROPERTY
  ExplicitResume
CHECK_DEADLOCK FALSE
