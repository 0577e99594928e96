SPECIFICATION Spec
CONSTANTS
  t1 = t1
  Tasks <- OneTask
  Users <- OneUser
  Observed <- OneTask
  Chatty <- OneTask
  MemCap = 2
  DiskCap = 4
  MaxTotal = 6
INVARIANTS
  DoneMeansOver
  NoticeHonest
PROPERTIES
  VerdictStays
  CancelTakes
CHECK_DEADLOCK FALSE
