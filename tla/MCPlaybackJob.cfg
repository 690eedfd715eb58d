SPECIFICATION FairSpec
CONSTANTS
  Jobs = {j1, j2}
  Enders = {stop, pb}
  Workers = {w1, w2}
  Writers = {"ops_patch"}
  Skills = {"push_disposition", "create_ticket"}
  FaultBudget = 1
  FileFrames = {0, 2}
  TapCap = 1
  Playback = pb
INVARIANTS
  RunOnce
  LastFinalWins
  NoFrameUnheard
PROPERTIES
  JobsSettle
CHECK_DEADLOCK FALSE
