--------------------------- MODULE ShardingProofs ---------------------------
(***************************************************************************)
(* The arithmetic of a frame's layout, for every shard size, frame length  *)
(* and parity ratio.                                                       *)
(***************************************************************************)
EXTENDS Sharding, TLAPS

(* Quotient and remainder of a length by a positive divisor.               *)
LEMMA DivMod ==
  ASSUME NEW n \in Nat, NEW d \in Nat \ {0}
  PROVE  /\ n \div d \in Nat
         /\ n % d \in 0..(d - 1)
         /\ n = d * (n \div d) + (n % d)
<1>1. n = d * (n \div d) + (n % d)
  OBVIOUS
<1>2. n % d \in 0..(d - 1)
  OBVIOUS
<1>3. n \div d \in Int
  OBVIOUS
<1>4. n \div d >= 0
  <2>1. d * (n \div d) > -d
    BY <1>1, <1>2, <1>3
  <2>2. SUFFICES ASSUME n \div d <= -1 PROVE FALSE
    BY <1>3
  <2>3. d * (n \div d) <= d * (-1)
    BY <1>3, <2>2
  <2>4. QED
    BY <1>3, <2>1, <2>3
<1>5. QED
  BY <1>1, <1>2, <1>3, <1>4

(* A multiple is divided without remainder.                                *)
LEMMA DivExact ==
  ASSUME NEW q \in Nat, NEW d \in Nat \ {0}
  PROVE  (d * q) \div d = q /\ (d * q) % d = 0
OBVIOUS

(* pad_to_shard_size (protocol.rs): the padded frame is a whole number of  *)
(* shards, holds the frame and less than one shard of zeroes, so that      *)
(* chunks_exact_mut leaves no byte out and no shard is padding only.       *)
THEOREM PaddingIsLeast ==
  ASSUME NEW len \in Nat
  PROVE  /\ DataShards(len) \in Nat
         /\ PaddedLen(len) = ShardSize * DataShards(len)
         /\ len <= PaddedLen(len)
         /\ PaddedLen(len) < len + ShardSize
<1> DEFINE q == len \div ShardSize
<1>1. /\ q \in Nat
      /\ len % ShardSize \in 0..(ShardSize - 1)
      /\ len = ShardSize * q + (len % ShardSize)
  BY DivMod, ShardingAssumption
<1>2. CASE len % ShardSize = 0
  <2>1. PaddedLen(len) = ShardSize * q
    BY <1>1, <1>2, ShardingAssumption DEF PaddedLen
  <2>2. QED
    BY <1>1, <1>2, <2>1, DivExact, ShardingAssumption DEF DataShards
<1>3. CASE len % ShardSize # 0
  <2>1. PaddedLen(len) = ShardSize * (q + 1)
    BY <1>1, <1>3, ShardingAssumption DEF PaddedLen
  <2>2. q + 1 \in Nat
    BY <1>1
  <2>3. DataShards(len) = q + 1
    BY <2>1, <2>2, DivExact, ShardingAssumption DEF DataShards
  <2>4. QED
    BY <1>1, <1>3, <2>1, <2>2, <2>3, ShardingAssumption DEF PaddedLen
<1>4. QED
  BY <1>2, <1>3

(* ParityRatio::parity_shards (config.rs): the least number of shards that *)
(* is at least the ratio asked for, zero only for a ratio of zero, and     *)
(* never more than the data shards.                                        *)
THEOREM ParityIsCeiling ==
  ASSUME NEW data \in Nat \ {0}, NEW ratio \in 0..100
  PROVE  /\ ParityShards(ratio, data) \in 0..data
         /\ 100 * ParityShards(ratio, data) >= data * ratio
         /\ 100 * ParityShards(ratio, data) < data * ratio + 100
         /\ ParityShards(ratio, data) = 0 <=> ratio = 0
<1> DEFINE n == data * ratio
           p == (n + 99) \div 100
<1>1. n \in Nat /\ n <= data * 100 /\ (ratio # 0 => n >= 1)
  OBVIOUS
<1>2. CASE ratio = 0
  BY <1>2 DEF ParityShards
<1>3. CASE ratio # 0
  <2>1. ParityShards(ratio, data) = p
    BY <1>1, <1>3 DEF ParityShards, DivCeil
  <2>2. p \in Nat /\ 100 * p <= n + 99 /\ n + 99 < 100 * p + 100
    BY <1>1
  <2>3. QED
    BY <1>1, <1>3, <2>1, <2>2
<1>4. QED
  BY <1>2, <1>3

(* sender.rs: the casts to u16 behind the TooManyShards check keep their   *)
(* value, and so does the cast of every shard index.                       *)
THEOREM CastsAreExact ==
  ASSUME NEW data \in Nat, NEW parity \in Nat, FitsWire(data + parity)
  PROVE  /\ AsU16(data) = data
         /\ AsU16(parity) = parity
         /\ \A index \in 0..(data + parity - 1) : AsU16(index) = index
<1>1. ASSUME NEW x \in 0..U16Max PROVE x % (U16Max + 1) = x
  BY <1>1, ShardingAssumption
<1>2. QED
  BY <1>1, ShardingAssumption DEF AsU16, FitsWire
=============================================================================
