SPECIFICATION FairSpec
CONSTANTS
  s1 = s1
  f1 = f1
  w1 = w1
  c1 = c1
  c2 = c2
  Speakers = {s1}
  Flushers = {f1}
  Waiters = {w1}
  Callers = {c1, c2}
  MaxQueuedFrames = 1
  MaxWriteFailures = 2
  MaxChunks = 2
  FrameBudget = 2
  FlushBudget = 1
INVARIANTS
  StaleBounded
  MarkNeverEarly
PROPERTIES
  LegAnswersAll
  ImplementsCallLeg
CHECK_DEADLOCK FALSE
