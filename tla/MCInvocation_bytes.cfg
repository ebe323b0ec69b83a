SPECIFICATION Spec
CONSTANTS
  Byte = 4
  ShardSize = 3
  Values <- MCValues
  Sessions <- MCSessions
INVARIANTS
  ConfigInRange
  WaysAgree
  PacketReadsBack
  NonceReadsBack
CHECK_DEADLOCK FALSE
