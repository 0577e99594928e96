SPECIFICATION Spec
CONSTANTS
  c1 = c1
  c2 = c2
  Clients <- TwoClients
  MaxMessages = 3
  MaxControls = 2
SYMMETRY Symmetric
INVARIANTS
  JobTypeOK
  FinishedMeansDrained
  InputOnceInOrder
  NoSpuriousExit
  SweepSparesWorker
PROPERTY
  TerminalStays
CHECK_DEADLOCK FALSE
