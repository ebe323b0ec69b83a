SPECIFICATION FairSpec
CONSTANTS
  Runs = {r1, r2, r3}
  U16Max = 2
  SerialRuns = FALSE
  PowerLossPossible = TRUE
INVARIANTS
  NoSkippedId
PROPERTIES
  TornStaysTorn
  CallReturns
CHECK_DEADLOCK FALSE
