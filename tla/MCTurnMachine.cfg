SPECIFICATION FairSpec
CONSTANTS
  a = a
  c = c
  i = i
  vad = vad
  partials = partials
  failer = failer
  Answer = a
  Consumer = c
  Injectors = {i}
  Bargers = {vad, partials}
  Vad = vad
  Fail = failer
  MaxTurns = 3
INVARIANTS
  StateTruthful
  TransferredIsTrue
PROPERTIES
  CallsEnd
  KeepsToNeighbours
CHECK_DEADLOCK FALSE
