SPECIFICATION FairSpec
CONSTANTS
  ShardSize = 2
  U16Max = 5
  FieldOrder = 4
  Inputs <- MCInputs
INVARIANTS
  TypeOK
  PacketsOpen
  NoncesDiffer
  PartialOnlyBySocket
  CleanBurstIsWhole
  BurstLossIsOneBlock
  BurstLossIsRecoverable
PROPERTIES
  WireIsAppendOnly
  ImplementsTransmission
  SendReturns
CHECK_DEADLOCK FALSE
