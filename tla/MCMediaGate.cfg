SPECIFICATION FairSpec
CONSTANTS
  a1 = a1
  a2 = a2
  Answerers = {a1, a2}
  FinalsCap = 1
  MaxFinals = 3
  MaxTries = 2
INVARIANTS
  WelcomeExclusive
  FinalsConserved
PROPERTIES
  WelcomeEnds
  ImplementsFinalsFloor
CHECK_DEADLOCK FALSE
