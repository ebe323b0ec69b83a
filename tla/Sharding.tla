------------------------------ MODULE Sharding ------------------------------
(***************************************************************************)
(* The arithmetic of a frame's layout: pad_to_shard_size (protocol.rs),    *)
(* ParityRatio::parity_shards (config.rs) and the two limits the shard     *)
(* counts meet, the u16 of the wire format and the size of GF(2^8).        *)
(***************************************************************************)
EXTENDS Integers

CONSTANTS
  ShardSize,    \* SHARD_SIZE, 1400 bytes
  U16Max,       \* u16::MAX
  FieldOrder    \* number of elements of GF(2^8): 256

ASSUME ShardingAssumption ==
  /\ ShardSize \in Nat \ {0}
  /\ U16Max \in Nat \ {0}
  /\ FieldOrder \in Nat \ {0}

(* Faults the runs are tried on: a shard of zeroes after a frame that      *)
(* needs none, no limit on the number of shards, and parity rounded down.  *)
PaddedAlways(len) == (len - (len % ShardSize)) + ShardSize
AnyTotal(total) == TRUE
DivFloor(a, b) == a \div b

(* pad_to_shard_size: the length after zeroes are appended.                *)
PaddedLen(len) ==
  LET rem == len % ShardSize
  IN  IF rem = 0 THEN len ELSE len + (ShardSize - rem)

DataShards(len) == PaddedLen(len) \div ShardSize

DivCeil(a, b) == (a + b - 1) \div b

(* ParityRatio::parity_shards.  saturating_mul does not saturate: a frame  *)
(* in memory has far fewer than 2^64 / 100 shards.                         *)
ParityShards(ratio, data) ==
  IF ratio = 0 THEN 0 ELSE DivCeil(data * ratio, 100)

TotalShards(len, ratio) == DataShards(len) + ParityShards(ratio, DataShards(len))

(* The check for TooManyShards.                                            *)
FitsWire(total) == total <= U16Max

(* x as u16                                                                *)
AsU16(x) == x % (U16Max + 1)

(* ReedSolomon::new of the reed-solomon-erasure crate: both counts at      *)
(* least one, and one field element per shard.                             *)
CodeExists(data, parity) == data > 0 /\ parity > 0 /\ data + parity <= FieldOrder
=============================================================================
