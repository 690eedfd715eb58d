SPECIFICATION FairSpec
CONSTANTS
  n1 = n1
  n2 = n2
  n3 = n3
  n4 = n4
  sales = sales
  ghost = ghost
  NoIntent = NoIntent
  Nodes = {n1, n2, n3, n4}
  Intents = {sales, ghost}
  Docs <- MCDocs
  MaxUnclear = 3
INVARIANTS
  AskedWithinPolicy
  LanguageTurnNeverArms
  NamedTransferArms
PROPERTIES
  TurnReturnsIfAcyclic
  ImplementsGraphWalk
CHECK_DEADLOCK FALSE
