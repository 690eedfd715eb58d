SPECIFICATION FairSpec
CONSTANTS
  Flows = {f}
  Profiles = {q}
  Tenant = tenant
  FlowDocs = {d1, d2, bad}
  ValidFlows = {d1, d2}
  sound = sound
  batch = batch
  off = off
  mute = mute
  slow = slow
  ungrounded = ungrounded
  untranslated = untranslated
  unskilled = unskilled
  untiered = untiered
  unclipped = unclipped
  misrouted = misrouted
  unknown = unknown
  Body <- MCBody
  Reg <- MCReg
  NoGateway = none
  NoDoc = NoDoc
  Publishers = {p1, p2}
  Creators = {c1}
  Operators = {o1}
  MaxPuts = 2
  NoOne = NoOne
INVARIANTS
  TypeOK
PROPERTIES
  ImplementsVersionLog
  PublishReturns
CHECK_DEADLOCK FALSE
