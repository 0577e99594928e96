SPECIFICATION UseSpec
CONSTANTS
  IntMax = 67108863
  Second = 10
  Counts <- SmallCounts
  Floors <- SmallFloors
  Streaks <- SmallStreaks
  p1 = p1
  p2 = p2
  Procs <- TwoProcs
  WorkDir <- WorkDirs
  NumLoops = 3
  Legacy <- First
  SelfPaced <- All
  Monitors <- None
  MaxIterations <- FirstThree
  MaxTotalTokens <- FirstCapped
  ConsecutiveFailureLimit = 2
  TransientFailureLimit = 2
  NoProgressLimit = 2
  SaveOutcomes <- AnySave
INVARIANTS
  TimingSound
  BreakersHonest
PROPERTIES
  EndStays
  OwnerRespected
  NoStarvation
CHECK_DEADLOCK FALSE
