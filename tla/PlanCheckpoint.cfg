SPECIFICATION Spec
CONSTANTS
  NumSteps = 1
  MaxNew = 1
  MaxReplans = 0
  MaxUpsets = 0
  MaxCommands = 1
  MaxFailedSaves = 0
  Risky = {1}
  Delegated = FALSE
  ManualActions = {}
  maxRetries = 3
  maxAutoResumeRounds = 2
  roundsPerStep = 12
  minRounds = 40
  maxRounds = 600
PROPERTY
  HumanCheckpoint
CHECK_DEADLOCK FALSE
