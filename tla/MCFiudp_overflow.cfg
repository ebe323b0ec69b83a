SPECIFICATION Spec
CONSTANTS
  Runs = {r1, r2}
  Keys = {k1, k2}
  Indices = {0, 1}
  U16Max = 3
  SerialRuns = TRUE
  ResetsCounter = FALSE
INVARIANTS
  RotationClearsOverflow
CHECK_DEADLOCK FALSE
