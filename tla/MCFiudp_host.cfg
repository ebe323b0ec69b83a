SPECIFICATION HostSpec
CONSTANTS
  Runs = {r1, r2}
  Keys = {k1, k2}
  Indices = {0, 1}
  U16Max = 2
  SerialRuns = TRUE
  ResetsCounter = TRUE
INVARIANTS
  TypeOK
  NonceOnce
  SessionIsOneFrame
PROPERTIES
  WireOrder
  ImplementsTransmission
  RunEnds
CHECK_DEADLOCK FALSE
