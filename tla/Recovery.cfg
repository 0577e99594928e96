SPECIFICATION Spec
CONSTANTS
  m1 = m1
  m2 = m2
  Prompts <- TwoPrompts
  MaxIds = 4
  MaxUpsets = 3
  MaxTyped = 2
  maxPendingQueue = 1
  maxPendingRecoveries = 2
  maxAttempts <- OneEach
  SaveOutcomes <- AnySave
  PersistOutcomes <- AnySave
SYMMETRY Symmetric
INVARIANTS
  ClaimCoversRun
  OneClaim
  NoneStranded
  IdleMeansDrained
  WithinBudget
PROPERTIES
  StartsOnce
CHECK_DEADLOCK FALSE
