SPECIFICATION FairSpec
CONSTANTS
  Frames <- MCFrames
  Shards <- MCShards
  DataCount <- MCDataCount
  Keys = {k1, k2}
  U16Max = 2
INVARIANTS
  TypeOK
  ShownWhole
  ShownOnce
PROPERTIES
  EnoughShardsSuffice
CHECK_DEADLOCK FALSE
