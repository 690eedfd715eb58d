SPECIFICATION LangSpec
CONSTANTS
  Languages = {hi, en}
  Unknown = unknown
  Turns = {consumer, inject}
  Operators = {op1}
  MaxTurns = 2
SYMMETRY Symmetry
INVARIANTS LangTypeOK LanguageAgrees
CHECK_DEADLOCK FALSE
