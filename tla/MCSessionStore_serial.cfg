SPECIFICATION Spec
CONSTANTS
  Runs = {r1, r2, r3, r4}
  U16Max = 3
  SerialRuns = TRUE
  PowerLossPossible = FALSE
INVARIANTS
  TypeOK
  UniqueIds
PROPERTIES
  ImplementsCounter
CHECK_DEADLOCK FALSE
