SPECIFICATION Spec
CONSTANTS
  Stems <- MCStems
  Extensions <- MCExtensions
  Keys = {k1, k2}
  U16Max = 3
SYMMETRY Symmetry
INVARIANTS
  TypeOK
  SessionsIncrease
PROPERTIES
  KeysSurvive
CHECK_DEADLOCK FALSE
