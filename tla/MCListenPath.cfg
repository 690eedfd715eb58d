SPECIFICATION UplinkFairSpec
CONSTANTS
  FrameBudget = 2
  FeederCap = 1
  QueueCap = 1
  FinalsCap = 1
INVARIANTS
  UplinkTypeOK
  UplinkAccounted
PROPERTIES
  CallerIsHeard
  StopReleasesAll
CHECK_DEADLOCK FALSE
