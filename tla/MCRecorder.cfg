SPECIFICATION FairSpec
CONSTANTS
  MaxBacklog = 1
  DrainCap = 1
  CatchUp = 2
  FrameBudget = 2
  TickBudget = 1
  CrashBudget = 1
INVARIANTS
  FramesConserved
  FinishedIsComplete
  FileTruthful
PROPERTIES
  OrphansStamped
CHECK_DEADLOCK FALSE
