SPECIFICATION UseSpec
CONSTANTS
  NumSteps = 2
  MaxNew = 1
  MaxReplans = 1
  MaxUpsets = 1
  MaxCommands = 1
  MaxFailedSaves = 1
  Risky <- Last
  Delegated = TRUE
  ManualActions <- AllActions
  maxRetries = 2
  maxAutoResumeRounds = 1
  roundsPerStep = 2
  minRounds = 4
  maxRounds = 4
INVARIANTS
  PlanRunTypeOK
  EffectsOnFile
  CompletedIsVerified
  CanResume
PROPERTIES
  NoBlindRetry
  DoneOnce
  RunEnds
CHECK_DEADLOCK FALSE
