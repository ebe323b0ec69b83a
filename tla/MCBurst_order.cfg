SPECIFICATION Spec
CONSTANTS
  ShardSize = 2
  U16Max = 5
  FieldOrder = 4
  Inputs <- MCInputs
INVARIANTS
  SentAsSealed
CHECK_DEADLOCK FALSE
