SPECIFICATION Spec
CONSTANTS
  c1 = c1
  s1 = s1
  t1 = t1
  creator = creator
  none = none
  Conns = {c1}
  Stops = {s1}
  Talks = {t1}
  Creator = creator
  NoConn = none
INVARIANTS
  TeardownStopsRecording
CHECK_DEADLOCK FALSE
