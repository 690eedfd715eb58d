SPECIFICATION PromptSpec
CONSTANTS
  Dirs = {"t1", "_default"}
  Default = "_default"
  Codes = {"auth"}
  Slots <- MCSlots
  Puts = {u1, u2}
  Deletes = {d1}
  Callers = {c1}
  None = None
SYMMETRY AnyUpload
INVARIANTS
  PromptTypeOK
  ServedIsCurrent
  WidensOnlyPastGaps
CHECK_DEADLOCK FALSE
