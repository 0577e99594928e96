SPECIFICATION QuietStopSpec
CONSTANTS
  c1 = c1
  c2 = c2
  Clients <- TwoClients
  MaxMessages = 1
  MaxControls = 1
PROPERTIES
  JobSettles
CHECK_DEADLOCK FALSE
