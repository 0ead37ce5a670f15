SPECIFICATION Spec
CONSTANTS
  Thread = {t1}
  LogLevel = {1, 4}
  Unit = {u1, u2}
  OneLevelMap = FALSE
  MaxCalls = 3
  MaxSettings = 2
INVARIANTS
  TextIsWhole
  ColourDoesNotLeak
SYMMETRY Symmetry
CHECK_DEADLOCK FALSE
