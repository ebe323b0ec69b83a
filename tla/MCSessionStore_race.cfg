SPECIFICATION Spec
CONSTANTS
  Runs = {r1, r2}
  U16Max = 3
  SerialRuns = FALSE
  PowerLossPossible = FALSE
INVARIANTS
  UniqueIds
CHECK_DEADLOCK FALSE
