----------------------------- MODULE BurstProofs -----------------------------
(***************************************************************************)
(* Proofs about Burst, for every shard size, width of the wire format,     *)
(* field and set of inputs.  The buffers are followed through the stages   *)
(* up to the last ciphertext; from there on the packets are those of the   *)
(* plan, each at most once, whatever the chaos options do to them.         *)
(***************************************************************************)
EXTENDS Burst, ShardingProofs, SequenceTheorems, FiniteSetTheorems

(* The packet a receiver can use for an index, and all packets of the run. *)
Packet(index) ==
  [header |-> Header(index),
   body   |-> Sealed(Nonce(index), Header(index), Expected(index))]

Planned == {Packet(index) : index \in 0..(Total - 1)}

(* The frame passed the checks on its size.                                *)
Admitted == input.len > 0 /\ FitsWire(Total)

(* Nothing is prepared for a frame that is not admitted.                   *)
AdmittedInv ==
  /\ stage \in {"read", "EmptyInput", "TooManyShards"} => shards = <<>> /\ ready = <<>>
  /\ stage \notin {"read", "EmptyInput", "TooManyShards", "Io", "crashed"} => Admitted
  /\ ~Admitted => shards = <<>> /\ ready = <<>>

(* A buffer that is not sealed yet holds its chunk or its parity row.      *)
ShardsInv ==
  /\ shards \in Seq(Plain \cup Bodies)
  /\ stage = "encode" =>
       shards = [i \in 1..Total |-> IF i <= Data THEN Slice(i - 1) ELSE Zeroes]
  /\ stage = "seal" =>
       /\ Len(shards) = Total
       /\ \A i \in (Len(ready) + 1)..Total : shards[i] = Expected(i - 1)

InOrder == \A n \in 1..Len(ready) : ready[n] = Packet(n - 1)

(* The packets are the plan's, none of them twice; they are in index order *)
(* until a chaos option touches them, and complete when the last is sealed.*)
ReadyInv ==
  /\ ready \in Seq(Planned)
  /\ \A m, n \in 1..Len(ready) : ready[m] = ready[n] => m = n
  /\ stage = "encode" => ready = <<>>
  /\ stage = "seal" => Len(ready) < Total /\ InOrder
  /\ stage = "drop_burst" => Len(ready) = Total /\ InOrder

(* What is on the wire is the beginning of what is ready.                  *)
SentInv ==
  /\ sent \in Seq(Planned)
  /\ Len(sent) <= Len(ready)
  /\ \A n \in 1..Len(sent) : sent[n] = ready[n]
  /\ sent # <<>> => stage \in {"transmit", "ok", "Io", "ShortSend", "crashed"}
  /\ stage = "ok" => Len(sent) = Len(ready)

(* The shards a burst loss takes are consecutive and none of them is past  *)
(* the last one; a length of zero takes none.                              *)
OneBlockLost ==
  \E first \in 0..Total :
    LET lost == first..(first + Lesser(input.burst, Total) - 1)
    IN  /\ lost \subseteq 0..(Total - 1)
        /\ Indices(ready) = (0..(Total - 1)) \ lost

(* What the chaos options leave of the plan.                               *)
ChaosInv ==
  stage \in {"drop_random", "shuffle", "transmit", "ok"} /\ input.drop = 0 =>
    /\ OneBlockLost
    /\ input.burst = 0 /\ ~input.shuffle => Len(ready) = Total /\ InOrder

BurstInv ==
  /\ input \in Inputs
  /\ stage \in Stages \cup Final
  /\ AdmittedInv
  /\ ShardsInv
  /\ ReadyInv
  /\ SentInv
  /\ ChaosInv
-----------------------------------------------------------------------------
(* A function on 1..n is a sequence of length n.                           *)
LEMMA FunctionIsSeq ==
  ASSUME NEW S, NEW n \in Nat, NEW f \in [1..n -> S]
  PROVE  f \in Seq(S) /\ Len(f) = n
<1>1. f \in Seq(S)
  BY SeqDef
<1>2. QED
  BY <1>1, LenProperties

(* The layout of a frame that is admitted.                                 *)
LEMMA Layout ==
  ASSUME input \in Inputs, Admitted
  PROVE  /\ Data \in Nat \ {0}
         /\ Parity \in 0..Data
         /\ Total \in 1..U16Max
         /\ AsU16(Data) = Data
         /\ AsU16(Parity) = Parity
         /\ \A index \in 0..(Total - 1) : AsU16(index) = index
<1>1. input.len \in Nat \ {0} /\ input.ratio \in 0..100
  BY InputsAssumption DEF Admitted
<1>2. Data \in Nat \ {0}
  BY <1>1, PaddingIsLeast, ShardingAssumption DEF Data
<1>3. Parity \in 0..Data
  BY <1>1, <1>2, ParityIsCeiling DEF Parity
<1>4. FitsWire(Data + Parity)
  BY DEF Admitted, Total
<1>5. Total \in 1..U16Max
  BY <1>2, <1>3, <1>4, ShardingAssumption DEF Total, FitsWire
<1>6. Data \in Nat /\ Parity \in Nat
  BY <1>2, <1>3
<1>7. /\ AsU16(Data) = Data /\ AsU16(Parity) = Parity
      /\ \A index \in 0..(Data + Parity - 1) : AsU16(index) = index
  BY ONLY <1>4, <1>6, CastsAreExact
<1>8. QED
  BY <1>2, <1>3, <1>5, <1>7 DEF Total

(* The packets of the plan open, and tell their indices apart.             *)
LEMMA PlanOpens ==
  ASSUME input \in Inputs, Admitted, NEW i \in 0..(Total - 1)
  PROVE  /\ Packet(i).header.index = i
         /\ Packet(i).body.nonce = i
         /\ Packet(i).body.plain = Expected(i)
         /\ Packet(i).header \in Headers
         /\ Packet(i).body \in Bodies
         /\ Expected(i) \in Plain
         /\ Opens(Packet(i))
<1>1. /\ Data \in Nat \ {0} /\ Parity \in 0..Data /\ Total \in 1..U16Max
      /\ AsU16(Data) = Data /\ AsU16(Parity) = Parity /\ AsU16(i) = i
  BY Layout
<1>2. Header(i) = [index |-> i, data |-> Data, parity |-> Parity] /\ Nonce(i) = i
  BY <1>1 DEF Header, Nonce
<1>3. Header(i) \in Headers
  BY <1>1, <1>2, ShardingAssumption DEF Headers, Total
<1>4. Expected(i) \in Plain
  <2>1. CASE i < Data
    BY <1>1, <2>1 DEF Expected, Plain
  <2>2. CASE i >= Data
    <3>1. i - Data + 1 \in 1..Parity
      BY <1>1, <2>2 DEF Total
    <3>2. Expected(i) = Row(i - Data + 1, [k \in 1..Data |-> Slice(k - 1)])
      BY <1>1, <2>2 DEF Expected
    <3>3. QED
      BY <3>1, <3>2 DEF Plain
  <2>3. QED
    BY <1>1, <2>1, <2>2
<1>5. Packet(i).body \in Bodies
  BY <1>1, <1>2, <1>3, <1>4, ShardingAssumption DEF Packet, Sealed, Bodies
<1>6. QED
  BY <1>1, <1>2, <1>3, <1>4, <1>5 DEF Packet, Sealed, Opens

(* Every definition of the plan is fixed with the input.                   *)
LEMMA SamePlan ==
  ASSUME input' = input
  PROVE  /\ Data' = Data /\ Parity' = Parity /\ Total' = Total
         /\ Admitted' = Admitted
         /\ Plain' = Plain /\ Bodies' = Bodies
         /\ Planned' = Planned
         /\ \A i : Packet(i)' = Packet(i) /\ Expected(i)' = Expected(i)
BY DEF Data, Parity, Total, Admitted, Plain, Bodies, Headers, Zeroes, Slice, Row, Planned, Packet,
       Header, Sealed, Nonce, Expected

(* Nothing is prepared in the beginning.                                   *)
LEMMA BurstInvInit ==
  Init => BurstInv
BY EmptySeq
DEF Init, BurstInv, AdmittedInv, ShardsInv, ReadyInv, SentInv, ChaosInv, Stages

(* A step that ends the run with anything but success, or none.            *)
LEMMA EndStep ==
  ASSUME BurstInv, UNCHANGED <<input, shards, ready, sent>>,
         \/ ReadFails \/ RejectEmpty \/ RejectTooMany \/ EncodeFails
         \/ SealFails \/ SendFails \/ Crash \/ stage' = stage
  PROVE  BurstInv'
<1> USE SamePlan
<1>1. CASE stage' = stage
  <2>1. InOrder' = InOrder
    BY DEF InOrder
  <2>2. OneBlockLost' = OneBlockLost
    BY DEF OneBlockLost, Indices
  <2>3. QED
    BY <1>1, <2>1, <2>2
    DEF BurstInv, AdmittedInv, ShardsInv, ReadyInv, SentInv, ChaosInv, Slice, Zeroes
<1>2. CASE stage' # stage
  <2>1. /\ stage' \in Final \ {"ok"}
        /\ sent # <<>> => stage' \in {"Io", "ShortSend", "crashed"}
        /\ stage' \in {"EmptyInput", "TooManyShards"} => stage = "read"
        /\ stage' \in {"Fec", "Encryption", "ShortSend"} => stage \in {"encode", "seal", "transmit"}
        /\ stage = "read" => stage' \in {"Io", "EmptyInput", "TooManyShards", "crashed"}
    BY <1>2
    DEF ReadFails, RejectEmpty, RejectTooMany, EncodeFails, SealFails, SendFails, Crash, Goto,
        Final, Errors, BurstInv, SentInv
  <2>2. /\ input' \in Inputs
        /\ stage' \in Stages \cup Final
    BY <2>1 DEF BurstInv
  <2>3. AdmittedInv'
    BY <2>1, <1>2 DEF BurstInv, AdmittedInv, Final, Errors
  <2>4. ShardsInv' /\ ReadyInv' /\ SentInv' /\ ChaosInv'
    BY <2>1 DEF BurstInv, ShardsInv, ReadyInv, SentInv, ChaosInv, Final, Errors
  <2>5. QED
    BY <2>2, <2>3, <2>4 DEF BurstInv
<1>3. QED
  BY <1>1, <1>2

(* sender.rs: the buffers are laid out.                                    *)
LEMMA SplitStep ==
  ASSUME BurstInv, Split
  PROVE  BurstInv'
<1>1. /\ input \in Inputs /\ Admitted /\ UNCHANGED <<input, ready, sent>>
      /\ ready = <<>> /\ sent = <<>> /\ stage' = "encode"
  BY DEF BurstInv, Split, Goto, Admitted, AdmittedInv, SentInv
<1>2. /\ Data \in Nat /\ Total \in Nat /\ Plain' = Plain /\ Bodies' = Bodies
      /\ Total' = Total /\ Data' = Data /\ Planned' = Planned /\ Admitted' = Admitted
  BY <1>1, Layout, SamePlan
<1>3. shards' = [i \in 1..Total |-> IF i <= Data THEN Slice(i - 1) ELSE Zeroes]
  BY DEF Split
<1>4. shards' \in Seq(Plain \cup Bodies)
  <2>1. ASSUME NEW i \in 1..Total PROVE shards'[i] \in Plain
    BY <1>2, <1>3, <2>1 DEF Plain
  <2>2. shards' \in [1..Total -> Plain \cup Bodies]
    BY <1>3, <2>1
  <2>3. QED
    BY <1>2, <2>2, FunctionIsSeq
<1>5. ShardsInv'
  BY <1>1, <1>2, <1>3, <1>4 DEF ShardsInv, Slice, Zeroes
<1>6. QED
  BY <1>1, <1>2, <1>5, EmptySeq
  DEF BurstInv, AdmittedInv, ReadyInv, SentInv, ChaosInv, Stages

(* fec.rs: the parity rows are computed over the chunks, before any data   *)
(* buffer holds a ciphertext.                                              *)
LEMMA EncodeStep ==
  ASSUME BurstInv, Encode \/ SkipEncode
  PROVE  BurstInv'
<1> DEFINE chunks == [k \in 1..Data |-> Slice(k - 1)]
           laid   == [i \in 1..Total |-> IF i <= Data THEN Slice(i - 1) ELSE Zeroes]
           coded  == [i \in 1..Total |-> Expected(i - 1)]
<1>1. /\ input \in Inputs /\ Admitted /\ UNCHANGED <<input, ready, sent>>
      /\ ready = <<>> /\ sent = <<>> /\ stage' = "seal" /\ shards = laid
  BY DEF BurstInv, Encode, SkipEncode, Goto, AdmittedInv, ShardsInv, ReadyInv, SentInv
<1>2. /\ Data \in Nat \ {0} /\ Parity \in 0..Data /\ Total \in 1..U16Max /\ Total = Data + Parity
      /\ Plain' = Plain /\ Bodies' = Bodies /\ Total' = Total /\ Data' = Data
      /\ Planned' = Planned /\ Admitted' = Admitted
      /\ \A i : Expected(i)' = Expected(i)
  BY <1>1, Layout, SamePlan DEF Total
<1>3. SubSeq(laid, 1, Data) = chunks
  <2>1. ASSUME NEW k \in 1..Data PROVE laid[k] \in Plain /\ laid[k] = chunks[k]
    <3>1. k \in 1..Total /\ k - 1 \in 0..(Data - 1)
      BY <1>2
    <3>2. laid[k] = Slice(k - 1)
      BY <3>1
    <3>3. QED
      BY <3>1, <3>2 DEF Plain
  <2>2. /\ SubSeq(laid, 1, Data) \in Seq(Plain) /\ Len(SubSeq(laid, 1, Data)) = Data
        /\ \A k \in 1..Data : SubSeq(laid, 1, Data)[k] = laid[k]
    <3> HIDE DEF laid
    <3>1. 1 \in Int /\ Data \in Int /\ 1 <= Data
      BY <1>2
    <3>2. \A k \in 1..(Data - 1 + 1) : 1 + k - 1 = k
      BY <3>1
    <3>3. QED
      BY <2>1, <3>1, <3>2, SubSeqProperties
  <2>3. chunks \in [1..Data -> Plain]
    BY <2>1
  <2>4. chunks \in Seq(Plain) /\ Len(chunks) = Data
    BY <1>2, <2>3, FunctionIsSeq
  <2>5. QED
    BY <2>1, <2>2, <2>4, SeqEqual
<1>4. shards' = coded
  <2>1. CASE Encode
    <3>1. ASSUME NEW i \in 1..Total
          PROVE  (IF i <= Data THEN shards[i] ELSE Row(i - Data, SubSeq(shards, 1, Data)))
                   = Expected(i - 1)
      <4>1. CASE i <= Data
        BY <1>1, <1>2, <4>1 DEF Expected
      <4>2. CASE i > Data
        <5>1. ~(i <= Data) /\ ~(i - 1 < Data) /\ i - 1 - Data + 1 = i - Data
          BY <1>2, <4>2
        <5>2. Expected(i - 1) = Row(i - Data, chunks)
          BY <5>1 DEF Expected
        <5>3. QED
          BY <1>1, <1>3, <5>1, <5>2
      <4>3. QED
        BY <1>2, <4>1, <4>2
    <3>2. QED
      BY <2>1, <3>1 DEF Encode
  <2>2. CASE SkipEncode
    <3>1. Parity = 0 /\ shards' = laid
      BY <1>1, <2>2 DEF SkipEncode
    <3>2. ASSUME NEW i \in 1..Total PROVE laid[i] = Expected(i - 1)
      BY <1>2, <3>1 DEF Expected
    <3>3. QED
      BY <3>1, <3>2
  <2>3. QED
    BY <2>1, <2>2
<1>5. shards' \in Seq(Plain \cup Bodies) /\ Len(shards') = Total
  <2>1. ASSUME NEW i \in 0..(Total - 1) PROVE Expected(i) \in Plain
    BY <1>1, PlanOpens
  <2>2. \A i \in 1..Total : i - 1 \in 0..(Total - 1)
    BY <1>2
  <2>3. coded \in [1..Total -> Plain \cup Bodies]
    BY <2>1, <2>2
  <2>4. QED
    BY <1>2, <1>4, <2>3, FunctionIsSeq
<1>6. Len(ready) = 0
  BY <1>1
<1>7. ShardsInv'
  BY <1>1, <1>2, <1>4, <1>5, <1>6 DEF ShardsInv
<1>8. InOrder'
  BY <1>1, <1>6 DEF InOrder
<1>9. QED
  BY <1>1, <1>2, <1>6, <1>7, <1>8, EmptySeq
  DEF BurstInv, AdmittedInv, ReadyInv, SentInv, ChaosInv, Stages

(* cipher.rs: one turn of the encryption loop adds the plan's next packet. *)
LEMMA SealStep ==
  ASSUME BurstInv, Seal
  PROVE  BurstInv'
<1> DEFINE i    == Len(ready) + 1
           body == Sealed(Nonce(i - 1), Header(i - 1), shards[i])
<1>1. /\ input \in Inputs /\ Admitted /\ UNCHANGED <<input, sent>> /\ sent = <<>>
      /\ ready \in Seq(Planned) /\ shards \in Seq(Plain \cup Bodies) /\ Len(shards) = Total
      /\ InOrder /\ Len(ready) < Total /\ shards[i] = Expected(i - 1)
      /\ \A n \in (i + 1)..Total : shards[n] = Expected(n - 1)
  <2>1. Len(ready) \in Nat /\ Total \in Int
    BY Layout, LenProperties DEF BurstInv, AdmittedInv, ReadyInv, Seal
  <2>2. /\ stage = "seal" /\ input \in Inputs /\ Admitted /\ UNCHANGED <<input, sent>>
        /\ sent = <<>>
    BY DEF BurstInv, Seal, AdmittedInv, SentInv
  <2>3. /\ ready \in Seq(Planned) /\ shards \in Seq(Plain \cup Bodies) /\ Len(shards) = Total
        /\ InOrder /\ Len(ready) < Total
        /\ \A n \in i..Total : shards[n] = Expected(n - 1)
    BY <2>2 DEF BurstInv, ShardsInv, ReadyInv
  <2>4. i \in i..Total /\ (i + 1)..Total \subseteq i..Total
    BY <2>1, <2>3
  <2>5. QED
    BY <2>2, <2>3, <2>4
<1>2. /\ Total \in 1..U16Max /\ Len(ready) \in Nat /\ i \in 1..Total
      /\ Plain' = Plain /\ Bodies' = Bodies /\ Total' = Total
      /\ Planned' = Planned /\ Admitted' = Admitted
      /\ \A k : Expected(k)' = Expected(k) /\ Packet(k)' = Packet(k)
  BY <1>1, Layout, SamePlan, LenProperties
<1>3. Packet(i - 1) \in Planned /\ body = Packet(i - 1).body /\ body \in Bodies
  BY <1>1, <1>2, PlanOpens DEF Planned, Packet
<1>4. ready' = Append(ready, Packet(i - 1)) /\ shards' = [shards EXCEPT ![i] = body]
  BY <1>1 DEF Seal, Packet
<1>5. /\ ready' \in Seq(Planned) /\ Len(ready') = i /\ ready'[i] = Packet(i - 1)
      /\ \A n \in 1..Len(ready) : ready'[n] = ready[n]
  BY <1>1, <1>3, <1>4, AppendProperties
<1>6. /\ shards' \in Seq(Plain \cup Bodies) /\ Len(shards') = Total
      /\ \A n \in (i + 1)..Total : shards'[n] = shards[n]
  BY <1>1, <1>2, <1>3, <1>4, ExceptSeq
<1>7. ASSUME NEW n \in 1..i PROVE ready'[n] = Packet(n - 1)
  BY <1>1, <1>2, <1>5 DEF InOrder
<1>8. InOrder'
  BY <1>2, <1>5, <1>7 DEF InOrder
<1>9. ASSUME NEW m \in 1..i, NEW n \in 1..i, ready'[m] = ready'[n] PROVE m = n
  <2>1. m - 1 \in 0..(Total - 1) /\ n - 1 \in 0..(Total - 1)
    BY <1>2
  <2>2. Packet(m - 1).header.index = m - 1 /\ Packet(n - 1).header.index = n - 1
    BY <1>1, <2>1, PlanOpens
  <2>3. QED
    BY <1>2, <1>7, <1>9, <2>2
<1>10. stage' = IF i = Total THEN "drop_burst" ELSE "seal"
  BY <1>1 DEF Seal
<1>11. ShardsInv'
  BY <1>1, <1>2, <1>5, <1>6, <1>10 DEF ShardsInv
<1>12. ReadyInv'
  BY <1>2, <1>5, <1>8, <1>9, <1>10 DEF ReadyInv
<1>13. SentInv'
  BY <1>1, <1>2, <1>5, <1>10, EmptySeq DEF SentInv
<1>14. QED
  BY <1>1, <1>2, <1>10, <1>11, <1>12, <1>13 DEF BurstInv, AdmittedInv, ChaosInv, Stages

(* The indices a packet sequence carries, position by position.            *)
LEMMA IndicesOf ==
  ASSUME NEW packets, NEW S, packets \in Seq(S), NEW index
  PROVE  index \in Indices(packets) <=>
           \E n \in 1..Len(packets) : packets[n].header.index = index
BY DEF Indices

(* The members of a set of positions are numbered by how many of them do   *)
(* not come after each: every number up to the set's size is given out.    *)
LEMMA Ranks ==
  ASSUME NEW N \in Nat, NEW kept \in SUBSET (1..N)
  PROVE  /\ IsFiniteSet(kept)
         /\ Cardinality(kept) \in Nat
         /\ \A n \in 1..Cardinality(kept) :
              \E k \in kept : Cardinality({j \in kept : j <= k}) = n
<1> DEFINE upTo(k) == {j \in kept : j <= k}
           rank    == [k \in kept |-> Cardinality(upTo(k))]
           size    == Cardinality(kept)
<1>1. IsFiniteSet(kept) /\ size \in Nat
  <2>1. IsFiniteSet(1..N)
    BY FS_Interval
  <2>2. IsFiniteSet(kept)
    BY <2>1, FS_Subset
  <2>3. QED
    BY <2>2, FS_CardinalityType
<1>2. ASSUME NEW k \in kept PROVE rank[k] \in 1..size /\ IsFiniteSet(upTo(k))
  <2>1. upTo(k) \in SUBSET kept /\ k \in upTo(k)
    OBVIOUS
  <2>2. IsFiniteSet(upTo(k)) /\ Cardinality(upTo(k)) <= size
    BY <1>1, <2>1, FS_Subset
  <2>3. Cardinality(upTo(k)) \in Nat /\ Cardinality(upTo(k)) # 0
    BY <2>1, <2>2, FS_CardinalityType, FS_EmptySet
  <2>4. QED
    BY <1>1, <2>2, <2>3
<1>3. ASSUME NEW j \in kept, NEW k \in kept, j < k PROVE rank[j] < rank[k]
  <2>1. upTo(j) \in SUBSET upTo(k) /\ k \in upTo(k) /\ k \notin upTo(j)
    <3>1. j \in Int /\ k \in Int /\ \A i \in kept : i \in Int
      OBVIOUS
    <3>2. \A i \in kept : i <= j => i <= k
      BY <1>3, <3>1
    <3>3. k <= k /\ ~(k <= j)
      BY <1>3, <3>1
    <3>4. QED
      BY <3>2, <3>3
  <2>2. /\ Cardinality(upTo(j)) <= Cardinality(upTo(k))
        /\ Cardinality(upTo(k)) = Cardinality(upTo(j)) => upTo(k) = upTo(j)
    BY <1>2, <2>1, FS_Subset
  <2>3. rank[j] \in Nat /\ rank[k] \in Nat
    BY <1>1, <1>2
  <2>4. QED
    BY <2>1, <2>2, <2>3
<1>4. rank \in Injection(kept, 1..size)
  <2>1. rank \in [kept -> 1..size]
    BY <1>2
  <2>2. ASSUME NEW j \in kept, NEW k \in kept, rank[j] = rank[k] PROVE j = k
    BY <1>3, <2>2, <2>1, <1>1
  <2>3. QED
    BY <2>1, <2>2 DEF Injection, IsInjective
<1>5. rank \in Surjection(kept, 1..size)
  <2>1. IsFiniteSet(1..size) /\ Cardinality(1..size) = size
    BY <1>1, FS_Interval
  <2>2. QED
    BY <1>4, <2>1, FS_Injection
<1>6. QED
  BY <1>1, <1>5 DEF Surjection

(* What every chaos step leaves alone, and what it has to establish.       *)
LEMMA ChaosStep ==
  ASSUME BurstInv, UNCHANGED <<input, shards, sent>>,
         \/ stage = "drop_burst" /\ stage' = "drop_random"
         \/ stage = "drop_random" /\ stage' = "shuffle"
         \/ stage = "shuffle" /\ stage' = "transmit",
         ready' \in Seq(Planned),
         \A m, n \in 1..Len(ready') : ready'[m] = ready'[n] => m = n,
         ChaosInv'
  PROVE  BurstInv'
<1>1. Admitted /\ sent = <<>> /\ Len(sent) = 0
  BY DEF BurstInv, AdmittedInv, SentInv
<1>2. Planned' = Planned /\ Admitted' = Admitted /\ Plain' = Plain /\ Bodies' = Bodies
  BY SamePlan
<1>3. Len(ready') \in Nat
  BY LenProperties
<1>4. ReadyInv' /\ SentInv' /\ ShardsInv' /\ AdmittedInv'
  BY <1>1, <1>2, <1>3, EmptySeq DEF BurstInv, ReadyInv, SentInv, ShardsInv, AdmittedInv
<1>5. QED
  BY <1>4 DEF BurstInv, Stages

(* chaos_burst: one block is cut out of the packets in index order.        *)
LEMMA DropBurstStep ==
  ASSUME BurstInv, DropBurst
  PROVE  BurstInv'
<1>1. /\ input \in Inputs /\ Admitted /\ UNCHANGED <<input, shards, sent>>
      /\ ready \in Seq(Planned) /\ Len(ready) = Total
      /\ \A n \in 1..Total : ready[n] = Packet(n - 1)
      /\ \A m, n \in 1..Total : ready[m] = ready[n] => m = n
      /\ stage = "drop_burst" /\ stage' = "drop_random"
  BY DEF BurstInv, DropBurst, Goto, AdmittedInv, ReadyInv, InOrder
<1>2. /\ Total \in 1..U16Max /\ Total' = Total /\ input.burst \in Nat
      /\ \A i : Packet(i)' = Packet(i)
  BY <1>1, Layout, SamePlan, InputsAssumption
<1>3. ASSUME NEW n \in 1..Total PROVE ready[n].header.index = n - 1
  <2>1. n - 1 \in 0..(Total - 1)
    BY <1>2
  <2>2. QED
    BY <1>1, <2>1, PlanOpens
<1>4. CASE input.burst = 0
  <2>1. ready' = ready
    BY <1>2, <1>4 DEF DropBurst
  <2>2. InOrder' /\ Len(ready') = Total
    BY <1>1, <1>2, <2>1 DEF InOrder
  <2>3. Indices(ready') = 0..(Total - 1)
    <3>1. ASSUME NEW i \in 0..(Total - 1)
          PROVE  i + 1 \in 1..Len(ready') /\ ready'[i + 1].header.index = i
      <4>1. i + 1 \in 1..Total
        BY <1>2
      <4>2. i = (i + 1) - 1
        BY <1>2
      <4>3. QED
        BY <1>1, <1>3, <2>1, <4>1, <4>2
    <3>2. ASSUME NEW n \in 1..Len(ready')
          PROVE  ready'[n].header.index \in 0..(Total - 1)
      BY <1>1, <1>2, <1>3, <2>1
    <3>3. QED
      BY <3>1, <3>2 DEF Indices
  <2>4. OneBlockLost'
    <3>1. Lesser(input.burst, Total) = 0
      BY <1>2, <1>4 DEF Lesser
    <3>2. 0..(0 + 0 - 1) = {}
      OBVIOUS
    <3>3. 0 \in 0..Total
      BY <1>2
    <3>4. QED
      BY <1>1, <1>2, <2>3, <3>1, <3>2, <3>3 DEF OneBlockLost
  <2>5. ChaosInv'
    BY <1>2, <2>2, <2>4 DEF ChaosInv
  <2>6. QED
    BY <1>1, <2>1, <2>5, ChaosStep
<1>5. CASE input.burst > 0
  <2> DEFINE size == Lesser(input.burst, Total)
  <2>1. size \in 1..Total
    BY <1>2, <1>5 DEF Lesser
  <2>2. PICK start \in 0..LastStart :
          ready' = SubSeq(ready, 1, start) \o SubSeq(ready, BlockEnd(start) + 1, Len(ready))
    <3>1. input.burst # 0
      BY <1>5
    <3>2. QED
      BY <3>1, Zenon DEF DropBurst
  <2>3. start \in 0..(Total - size)
    BY <1>1, <2>2 DEF LastStart
  <2>4. BlockEnd(start) = start + size
    BY <1>1, <1>2, <2>1, <2>3 DEF BlockEnd, Lesser
  <2> DEFINE head == SubSeq(ready, 1, start)
             tail == SubSeq(ready, start + size + 1, Total)
  <2> HIDE DEF size
  <2>5. /\ head \in Seq(Planned) /\ Len(head) = start
        /\ \A n \in 1..start : head[n] = ready[n]
    <3>1. \A n \in 1..start : ready[n] \in Planned
      BY <1>1, <1>2, <2>1, <2>3, ElementOfSeq
    <3>2. 1 \in Int /\ start \in Int
      BY <2>3
    <3>3. /\ head \in Seq(Planned) /\ Len(head) = IF 1 <= start THEN start - 1 + 1 ELSE 0
          /\ \A n \in 1..(start - 1 + 1) : head[n] = ready[1 + n - 1]
      BY <3>1, <3>2, SubSeqProperties
    <3>4. QED
      BY <2>3, <3>3
  <2>6. /\ tail \in Seq(Planned) /\ Len(tail) = Total - size - start
        /\ \A n \in 1..(Total - size - start) : tail[n] = ready[start + size + n]
    <3> DEFINE a == start + size + 1
    <3>1. \A n \in a..Total : ready[n] \in Planned
      BY <1>1, <1>2, <2>1, <2>3, ElementOfSeq
    <3>2. a \in Int /\ Total \in Int
      BY <1>2, <2>1, <2>3
    <3>3. /\ tail \in Seq(Planned) /\ Len(tail) = IF a <= Total THEN Total - a + 1 ELSE 0
          /\ \A n \in 1..(Total - a + 1) : tail[n] = ready[a + n - 1]
      <4> HIDE DEF a
      <4>1. /\ SubSeq(ready, a, Total) \in Seq(Planned)
            /\ Len(SubSeq(ready, a, Total)) = IF a <= Total THEN Total - a + 1 ELSE 0
            /\ \A n \in 1..(Total - a + 1) : SubSeq(ready, a, Total)[n] = ready[a + n - 1]
        BY <3>1, <3>2, SubSeqProperties
      <4>2. QED
        BY <4>1 DEF a
    <3>4. Total - a + 1 = Total - size - start /\ (a > Total => Total - size - start = 0)
      BY <1>2, <2>1, <2>3
    <3>5. \A n \in 1..(Total - size - start) : a + n - 1 = start + size + n
      BY <1>2, <2>1, <2>3
    <3>6. QED
      BY <3>2, <3>3, <3>4, <3>5
  <2> HIDE DEF head, tail
  <2>7. ready' = head \o tail
    BY <1>1, <2>2, <2>4 DEF head, tail
  <2> DEFINE from == [n \in 1..(Total - size) |-> IF n <= start THEN n ELSE n + size]
  <2>8. /\ ready' \in Seq(Planned) /\ Len(ready') = Total - size
        /\ \A n \in 1..(Total - size) : ready'[n] = ready[from[n]]
    <3>1. /\ ready' \in Seq(Planned) /\ Len(ready') = start + (Total - size - start)
          /\ \A n \in 1..(start + (Total - size - start)) :
               ready'[n] = IF n <= start THEN head[n] ELSE tail[n - start]
      BY <2>5, <2>6, <2>7, ConcatProperties
    <3>2. start + (Total - size - start) = Total - size
      BY <1>2, <2>1, <2>3
    <3>3. ASSUME NEW n \in 1..(Total - size) PROVE ready'[n] = ready[from[n]]
      <4>1. CASE n <= start
        BY <2>3, <2>5, <3>1, <3>2, <4>1
      <4>2. CASE n > start
        <5>1. /\ n - start \in 1..(Total - size - start) /\ ~(n <= start)
              /\ start + size + (n - start) = n + size
          BY <1>2, <2>1, <2>3, <4>2
        <5>2. QED
          BY <2>6, <3>1, <3>2, <5>1
      <4>3. QED
        BY <1>2, <2>1, <2>3, <4>1, <4>2
    <3>4. QED
      BY <3>1, <3>2, <3>3
  <2>9. \A n \in 1..(Total - size) : from[n] \in 1..Total
    BY <1>2, <2>1, <2>3
  <2>10. \A m, n \in 1..Len(ready') : ready'[m] = ready'[n] => m = n
    <3>1. \A m, n \in 1..(Total - size) : from[m] = from[n] => m = n
      BY <1>2, <2>1, <2>3
    <3>2. QED
      BY <1>1, <2>8, <2>9, <3>1
  <2> DEFINE lost == start..(start + size - 1)
  <2>11. Indices(ready') = (0..(Total - 1)) \ lost
    <3>1. ASSUME NEW n \in 1..Len(ready')
          PROVE  ready'[n].header.index \in (0..(Total - 1)) \ lost
      <4>1. n \in 1..(Total - size) /\ ready'[n].header.index = from[n] - 1
        BY <1>3, <2>8, <2>9
      <4>2. QED
        BY <1>2, <2>1, <2>3, <4>1
    <3>2. ASSUME NEW i \in (0..(Total - 1)) \ lost
          PROVE  \E n \in 1..Len(ready') : ready'[n].header.index = i
      <4> DEFINE n == IF i < start THEN i + 1 ELSE i + 1 - size
      <4>1. n \in 1..(Total - size) /\ from[n] = i + 1
        BY <1>2, <2>1, <2>3
      <4>2. ready'[n].header.index = (i + 1) - 1
        BY <1>3, <2>8, <2>9, <4>1
      <4>3. (i + 1) - 1 = i
        BY <1>2
      <4>4. QED
        BY <2>8, <4>1, <4>2, <4>3
    <3>3. QED
      BY <3>1, <3>2, <2>8, IndicesOf
  <2>12. OneBlockLost'
    <3>1. start \in 0..Total /\ lost \subseteq 0..(Total - 1)
      BY <1>2, <2>1, <2>3
    <3>2. QED
      BY <1>1, <1>2, <2>11, <3>1 DEF OneBlockLost, size
  <2>13. ChaosInv'
    BY <1>1, <1>2, <1>5, <2>12 DEF ChaosInv
  <2>14. QED
    BY <1>1, <2>8, <2>10, <2>13, ChaosStep
<1>6. QED
  BY <1>2, <1>4, <1>5

(* chaos_drop: a sub-sequence of the packets in the order they had.        *)
LEMMA DropRandomStep ==
  ASSUME BurstInv, DropRandom
  PROVE  BurstInv'
<1>1. /\ input \in Inputs /\ Admitted /\ UNCHANGED <<input, shards, sent>>
      /\ ready \in Seq(Planned) /\ Len(ready) \in Nat
      /\ \A m, n \in 1..Len(ready) : ready[m] = ready[n] => m = n
      /\ stage = "drop_random" /\ stage' = "shuffle"
  BY LenProperties DEF BurstInv, DropRandom, Goto, AdmittedInv, ReadyInv
<1>2. Total' = Total /\ \A i : Packet(i)' = Packet(i)
  BY <1>1, SamePlan
<1>3. CASE input.drop = 0 /\ ready' = ready
  <2>1. ChaosInv'
    BY <1>1, <1>2, <1>3 DEF BurstInv, ChaosInv, OneBlockLost, InOrder, Indices
  <2>2. QED
    BY <1>1, <1>3, <2>1, ChaosStep
<1>4. CASE input.drop > 0
  <2>1. PICK kept \in SUBSET (1..Len(ready)) :
          ready' = [n \in 1..Cardinality(kept) |->
                      ready[CHOOSE k \in kept : Cardinality({j \in kept : j <= k}) = n]]
    <3>1. input.drop # 0
      BY <1>4
    <3>2. QED
      BY <3>1, Zenon DEF DropRandom
  <2> DEFINE rank(k) == Cardinality({j \in kept : j <= k})
             pick == [n \in 1..Cardinality(kept) |-> CHOOSE k \in kept : rank(k) = n]
  <2>2. /\ Cardinality(kept) \in Nat
        /\ \A n \in 1..Cardinality(kept) : \E k \in kept : rank(k) = n
    BY <1>1, Ranks
  <2>3. ASSUME NEW n \in 1..Cardinality(kept)
        PROVE  pick[n] \in kept /\ rank(pick[n]) = n
    <3> HIDE DEF rank
    <3>1. \E k \in kept : rank(k) = n
      BY <2>2
    <3>2. QED
      BY <3>1
  <2>4. pick \in [1..Cardinality(kept) -> 1..Len(ready)]
    BY <2>3
  <2>5. \A m, n \in 1..Cardinality(kept) : pick[m] = pick[n] => m = n
    <3> HIDE DEF rank, pick
    <3>1. QED
      BY <2>3
  <2>6. ready' = [n \in 1..Cardinality(kept) |-> ready[pick[n]]]
    BY <2>1
  <2> HIDE DEF pick, rank
  <2>7. /\ ready' \in Seq(Planned)
        /\ \A m, n \in 1..Len(ready') : ready'[m] = ready'[n] => m = n
    <3>1. ASSUME NEW n \in 1..Cardinality(kept)
          PROVE  ready'[n] = ready[pick[n]] /\ pick[n] \in 1..Len(ready) /\ ready'[n] \in Planned
      BY <1>1, <2>4, <2>6, ElementOfSeq
    <3>2. ready' \in [1..Cardinality(kept) -> Planned]
      BY <2>6, <3>1
    <3>3. ready' \in Seq(Planned) /\ Len(ready') = Cardinality(kept)
      BY <2>2, <3>2, FunctionIsSeq
    <3>4. QED
      BY <1>1, <2>5, <3>1, <3>3
  <2>8. ChaosInv'
    BY <1>1, <1>4 DEF ChaosInv
  <2>9. QED
    BY <1>1, <2>7, <2>8, ChaosStep
<1>5. QED
  BY <1>3, <1>4 DEF DropRandom

(* chaos_shuffle: the same packets in another order.                       *)
LEMMA ShuffleStep ==
  ASSUME BurstInv, Shuffle
  PROVE  BurstInv'
<1>1. /\ input \in Inputs /\ Admitted /\ UNCHANGED <<input, shards, sent>>
      /\ ready \in Seq(Planned) /\ Len(ready) \in Nat
      /\ \A m, n \in 1..Len(ready) : ready[m] = ready[n] => m = n
      /\ stage = "shuffle" /\ stage' = "transmit"
  BY LenProperties DEF BurstInv, Shuffle, Goto, AdmittedInv, ReadyInv
<1>2. Total' = Total /\ \A i : Packet(i)' = Packet(i)
  BY <1>1, SamePlan
<1>3. CASE ready' = ready
  <2>1. ChaosInv'
    BY <1>1, <1>2, <1>3 DEF BurstInv, ChaosInv, OneBlockLost, InOrder, Indices
  <2>2. QED
    BY <1>1, <1>3, <2>1, ChaosStep
<1>4. CASE input.shuffle /\ ready' # ready
  <2>1. PICK order \in Bijection(1..Len(ready), 1..Len(ready)) :
          ready' = [n \in 1..Len(ready) |-> ready[order[n]]]
    BY <1>4, Zenon DEF Shuffle
  <2>2. /\ order \in [1..Len(ready) -> 1..Len(ready)]
        /\ \A m, n \in 1..Len(ready) : order[m] = order[n] => m = n
        /\ \A k \in 1..Len(ready) : \E n \in 1..Len(ready) : order[n] = k
    BY DEF Bijection, Injection, Surjection, IsInjective
  <2>3. /\ ready' \in Seq(Planned) /\ Len(ready') = Len(ready)
        /\ \A m, n \in 1..Len(ready') : ready'[m] = ready'[n] => m = n
    <3>1. ASSUME NEW n \in 1..Len(ready)
          PROVE  ready'[n] = ready[order[n]] /\ order[n] \in 1..Len(ready) /\ ready'[n] \in Planned
      BY <1>1, <2>1, <2>2, ElementOfSeq
    <3>2. ready' \in [1..Len(ready) -> Planned]
      BY <2>1, <3>1
    <3>3. ready' \in Seq(Planned) /\ Len(ready') = Len(ready)
      BY <1>1, <3>2, FunctionIsSeq
    <3>4. ASSUME NEW m \in 1..Len(ready), NEW n \in 1..Len(ready), ready'[m] = ready'[n]
          PROVE  m = n
      <4>1. ready[order[m]] = ready[order[n]]
        BY <3>1, <3>4
      <4>2. order[m] = order[n]
        BY <1>1, <3>1, <4>1
      <4>3. QED
        BY <2>2, <4>2
    <3>5. QED
      BY <3>3, <3>4
  <2>4. ASSUME NEW i PROVE i \in Indices(ready') <=> i \in Indices(ready)
    <3>1. ASSUME NEW n \in 1..Len(ready)
          PROVE  ready'[n] = ready[order[n]] /\ order[n] \in 1..Len(ready)
      BY <2>1, <2>2
    <3>2. ASSUME i \in Indices(ready') PROVE i \in Indices(ready)
      BY <1>1, <2>3, <3>1, <3>2, IndicesOf
    <3>3. ASSUME i \in Indices(ready) PROVE i \in Indices(ready')
      <4>1. PICK k \in 1..Len(ready) : ready[k].header.index = i
        BY <1>1, <3>3, IndicesOf
      <4>2. PICK n \in 1..Len(ready) : order[n] = k
        BY <2>2
      <4>3. n \in 1..Len(ready') /\ ready'[n].header.index = i
        BY <2>3, <3>1, <4>1, <4>2
      <4>4. QED
        BY <2>3, <4>3, IndicesOf
    <3>4. QED
      BY <3>2, <3>3
  <2>5. ChaosInv'
    <3>1. Indices(ready') = Indices(ready)
      BY <2>4 DEF Indices
    <3>2. QED
      BY <1>1, <1>2, <1>4, <3>1 DEF BurstInv, ChaosInv, OneBlockLost
  <2>6. QED
    BY <1>1, <2>3, <2>5, ChaosStep
<1>5. QED
  BY <1>3, <1>4 DEF Shuffle

(* sender.rs: the transmit loop takes the packets one after the other.     *)
LEMMA SendStep ==
  ASSUME BurstInv, Send \/ Return
  PROVE  BurstInv'
<1>1. /\ input \in Inputs /\ Admitted /\ UNCHANGED <<input, shards, ready>>
      /\ ready \in Seq(Planned) /\ sent \in Seq(Planned)
      /\ Len(ready) \in Nat /\ Len(sent) \in Nat
      /\ stage = "transmit" /\ stage' \in {"transmit", "ok"}
  BY LenProperties
  DEF BurstInv, Send, Return, Transmitting, Goto, AdmittedInv, ReadyInv, SentInv
<1>2. /\ Planned' = Planned /\ Admitted' = Admitted /\ Plain' = Plain /\ Bodies' = Bodies
      /\ Total' = Total /\ \A i : Packet(i)' = Packet(i)
  BY <1>1, SamePlan
<1>3. SentInv'
  <2>1. CASE Send
    <3>1. /\ Len(sent) + 1 \in 1..Len(ready) /\ sent' = Append(sent, ready[Len(sent) + 1])
          /\ stage' = "transmit"
      BY <1>1, <2>1 DEF Send
    <3>2. /\ sent' \in Seq(Planned) /\ Len(sent') = Len(sent) + 1
          /\ \A n \in 1..Len(sent) : sent'[n] = sent[n]
          /\ sent'[Len(sent) + 1] = ready[Len(sent) + 1]
      BY <1>1, <3>1, ElementOfSeq, AppendProperties
    <3>3. ASSUME NEW n \in 1..(Len(sent) + 1) PROVE sent'[n] = ready[n]
      BY <1>1, <3>2 DEF BurstInv, SentInv
    <3>4. QED
      BY <1>1, <1>2, <3>1, <3>2, <3>3 DEF SentInv
  <2>2. CASE Return
    BY <1>1, <1>2, <2>2 DEF BurstInv, SentInv, Return, AllSent, Goto
  <2>3. QED
    BY <2>1, <2>2
<1>4. ChaosInv'
  BY <1>1, <1>2 DEF BurstInv, ChaosInv, OneBlockLost, InOrder, Indices
<1>5. QED
  BY <1>1, <1>2, <1>3, <1>4
  DEF BurstInv, AdmittedInv, ShardsInv, ReadyInv, Stages, Final
-----------------------------------------------------------------------------
(* Every step of send keeps the invariant.                                 *)
LEMMA BurstInvStep ==
  BurstInv /\ [Next]_vars => BurstInv'
<1> SUFFICES ASSUME BurstInv, [Next]_vars PROVE BurstInv'
  OBVIOUS
<1>1. CASE ReadFails \/ RejectEmpty \/ RejectTooMany \/ EncodeFails \/ SealFails \/ SendFails
             \/ Crash \/ UNCHANGED vars
  <2>1. UNCHANGED <<input, shards, ready, sent>>
    BY <1>1
    DEF ReadFails, RejectEmpty, RejectTooMany, EncodeFails, SealFails, SendFails, Crash, vars
  <2>2. QED
    BY <1>1, <2>1, EndStep DEF vars
<1>2. CASE Split
  BY <1>2, SplitStep
<1>3. CASE Encode \/ SkipEncode
  BY <1>3, EncodeStep
<1>4. CASE Seal
  BY <1>4, SealStep
<1>5. CASE DropBurst
  BY <1>5, DropBurstStep
<1>6. CASE DropRandom
  BY <1>6, DropRandomStep
<1>7. CASE Shuffle
  BY <1>7, ShuffleStep
<1>8. CASE Send \/ Return
  BY <1>8, SendStep
<1>9. QED
  BY <1>1, <1>2, <1>3, <1>4, <1>5, <1>6, <1>7, <1>8 DEF Next, Read, Progress

(* The plan of the packets is kept to on every path through send.          *)
THEOREM BurstInvariant == Spec => []BurstInv
<1>1. QED
  BY BurstInvInit, BurstInvStep, PTL DEF Spec

(* What is ready or sent are packets of the plan, which open.              *)
LEMMA ReadyOpens ==
  ASSUME BurstInv, NEW n \in 1..Len(ready)
  PROVE  /\ Admitted
         /\ ready[n] = Packet(ready[n].header.index)
         /\ ready[n].header.index \in 0..(Total - 1)
         /\ ready[n].body.nonce = ready[n].header.index
         /\ ready[n].header \in Headers
         /\ ready[n].body \in Bodies
         /\ Opens(ready[n])
<1>1. Admitted
  <2>1. ready # <<>>
    BY EmptySeq
  <2>2. QED
    BY <2>1 DEF BurstInv, AdmittedInv
<1>2. ready[n] \in Planned
  BY ElementOfSeq DEF BurstInv, ReadyInv
<1>3. PICK i \in 0..(Total - 1) : ready[n] = Packet(i)
  BY <1>2 DEF Planned
<1>4. QED
  BY <1>1, <1>3, PlanOpens DEF BurstInv

(* The buffers and the packets of send hold what their types say.          *)
THEOREM TypeCorrect == Spec => []TypeOK
<1>1. BurstInv => TypeOK
  <2> SUFFICES ASSUME BurstInv PROVE TypeOK
    OBVIOUS
  <2>1. \A i \in 1..Len(shards) : shards[i] \in Plain \cup Bodies
    BY ElementOfSeq DEF BurstInv, ShardsInv
  <2>2. QED
    BY <2>1, ReadyOpens DEF BurstInv, SentInv, TypeOK
<1>2. QED
  BY <1>1, BurstInvariant, PTL

(* Every packet of send can be used by a receiver that has the key.        *)
THEOREM EveryPacketOpens == Spec => []PacketsOpen
<1>1. BurstInv => PacketsOpen
  BY ReadyOpens DEF PacketsOpen
<1>2. QED
  BY <1>1, BurstInvariant, PTL

(* No nonce is used for two packets of a run, and none is sent twice.      *)
THEOREM NoncesOnce == Spec => []NoncesDiffer
<1>1. BurstInv => NoncesDiffer
  <2> SUFFICES ASSUME BurstInv PROVE NoncesDiffer
    OBVIOUS
  <2>1. ASSUME NEW m \in 1..Len(ready), NEW n \in 1..Len(ready),
               ready[m].body.nonce = ready[n].body.nonce
        PROVE  m = n
    <3>1. ready[m].header.index = ready[n].header.index
      BY <2>1, ReadyOpens
    <3>2. ready[m] = ready[n]
      <4>1. /\ ready[m] = Packet(ready[m].header.index)
            /\ ready[n] = Packet(ready[n].header.index)
        BY ReadyOpens
      <4>2. QED
        BY <3>1, <4>1
    <3>3. QED
      BY <3>2 DEF BurstInv, ReadyInv
  <2>2. ASSUME NEW m \in 1..Len(sent), NEW n \in 1..Len(sent), sent[m] = sent[n]
        PROVE  m = n
    <3>1. Len(sent) \in Nat /\ Len(ready) \in Nat /\ Len(sent) <= Len(ready)
      BY LenProperties DEF BurstInv, SentInv, ReadyInv
    <3>2. /\ m \in 1..Len(ready) /\ n \in 1..Len(ready)
          /\ ready[m] = sent[m] /\ ready[n] = sent[n]
      BY <3>1 DEF BurstInv, SentInv
    <3>3. QED
      BY <2>2, <3>2 DEF BurstInv, ReadyInv
  <2>3. QED
    BY <2>1, <2>2 DEF NoncesDiffer
<1>2. QED
  BY <1>1, BurstInvariant, PTL

(* Only a socket error or a kill leaves a part of a burst on the wire.     *)
THEOREM AllOrNothing == Spec => []PartialOnlyBySocket
<1>1. BurstInv => PartialOnlyBySocket
  <2> SUFFICES ASSUME BurstInv PROVE PartialOnlyBySocket
    OBVIOUS
  <2>1. stage = "ok" => sent = ready
    BY SeqEqual DEF BurstInv, SentInv, ReadyInv
  <2>2. QED
    BY <2>1 DEF BurstInv, SentInv, PartialOnlyBySocket, Errors
<1>2. QED
  BY <1>1, BurstInvariant, PTL

(* What a run that succeeds has sent is all that was ready.                *)
LEMMA SentAll ==
  ASSUME BurstInv, stage = "ok"
  PROVE  sent = ready /\ Admitted
BY SeqEqual DEF BurstInv, SentInv, ReadyInv, AdmittedInv

(* The size of a block of consecutive indices.                             *)
LEMMA BlockSize ==
  ASSUME NEW first \in Int, NEW n \in Nat
  PROVE  /\ IsFiniteSet(first..(first + n - 1))
         /\ Cardinality(first..(first + n - 1)) = n
<1> DEFINE end == first + n - 1
<1>1. end \in Int /\ (first > end => n = 0) /\ (first <= end => end - first + 1 = n)
  OBVIOUS
<1> HIDE DEF end
<1>2. IsFiniteSet(first..end) /\ Cardinality(first..end) = n
  BY <1>1, FS_Interval
<1>3. QED
  BY <1>2 DEF end

(* chaos_burst takes one block of consecutive shards, within the burst.    *)
THEOREM OneBlock == Spec => []BurstLossIsOneBlock
<1>1. BurstInv => BurstLossIsOneBlock
  BY SentAll DEF BurstInv, ChaosInv, OneBlockLost, BurstLossIsOneBlock
<1>2. QED
  BY <1>1, BurstInvariant, PTL

(* A block no longer than the ratio's share of the data shards leaves a    *)
(* receiver enough of them.                                                *)
THEOREM LossIsRecoverable == Spec => []BurstLossIsRecoverable
<1>1. BurstInv => BurstLossIsRecoverable
  <2> SUFFICES ASSUME BurstInv, stage = "ok", input.drop = 0,
                      (input.burst - 1) * 100 < Data * input.ratio
               PROVE  Cardinality(Indices(sent)) >= Data
    BY DEF BurstLossIsRecoverable
  <2> DEFINE size == Lesser(input.burst, Total)
  <2>1. /\ Data \in Nat \ {0} /\ Parity \in 0..Data /\ Total \in 1..U16Max /\ Total = Data + Parity
        /\ input.burst \in Nat /\ input.ratio \in 0..100 /\ sent = ready
    BY SentAll, Layout, InputsAssumption DEF BurstInv, Total
  <2>2. 100 * Parity >= Data * input.ratio
    BY <2>1, ParityIsCeiling DEF Parity
  <2>3. input.burst <= Parity
    BY <2>1, <2>2
  <2>4. size \in Nat /\ size <= Parity
    BY <2>1, <2>3 DEF Lesser
  <2>5. PICK first \in 0..Total :
          /\ first..(first + size - 1) \subseteq 0..(Total - 1)
          /\ Indices(sent) = (0..(Total - 1)) \ (first..(first + size - 1))
    BY <2>1 DEF BurstInv, ChaosInv, OneBlockLost
  <2> HIDE DEF size
  <2> DEFINE all  == 0..(Total - 1)
             lost == first..(first + size - 1)
  <2>6. IsFiniteSet(all) /\ Cardinality(all) = Total
    <3> DEFINE end == Total - 1
    <3>1. end \in Int /\ ~(0 > end)
      BY <2>1
    <3>2. end - 0 + 1 = Total
      BY <2>1
    <3> HIDE DEF end
    <3>3. 0 \in Int
      OBVIOUS
    <3>4. IsFiniteSet(0..end) /\ Cardinality(0..end) = end - 0 + 1
      BY ONLY <3>1, <3>3, FS_Interval
    <3>5. QED
      BY <3>2, <3>4 DEF end
  <2>7. Cardinality(lost) = size
    BY <2>4, BlockSize
  <2> HIDE DEF all, lost
  <2>8. all \cap lost = lost
    BY <2>5 DEF all, lost
  <2>9. Cardinality(all \ lost) = Cardinality(all) - Cardinality(all \cap lost)
    BY <2>6, FS_Difference
  <2>10. Cardinality(Indices(sent)) = Total - size
    BY <2>5, <2>6, <2>7, <2>8, <2>9 DEF all, lost
  <2>11. QED
    BY <2>1, <2>4, <2>10
<1>2. QED
  BY <1>1, BurstInvariant, PTL

(* The chunks of a frame: none is empty, and every byte is in one.         *)
LEMMA ChunksCover ==
  ASSUME input \in Inputs, Admitted
  PROVE  /\ \A k \in 0..(Data - 1) : Slice(k).lo < Slice(k).hi /\ Slice(k).hi <= input.len
         /\ \A k \in 0..(Data - 1) : Slice(k).lo \in Nat /\ Slice(k).hi \in Nat
         /\ \A b \in 0..(input.len - 1) :
              \E k \in 0..(Data - 1) : b \in Slice(k).lo..(Slice(k).hi - 1)
<1>1. /\ input.len \in Nat \ {0} /\ Data \in Nat \ {0} /\ ShardSize \in Nat \ {0}
  BY Layout, InputsAssumption, ShardingAssumption DEF Admitted
<1>2. input.len <= ShardSize * Data /\ ShardSize * Data < input.len + ShardSize
  BY <1>1, PaddingIsLeast DEF Data
<1>3. ASSUME NEW k \in 0..(Data - 1)
      PROVE  /\ k * ShardSize \in Nat /\ (k + 1) * ShardSize = k * ShardSize + ShardSize
             /\ k * ShardSize < input.len
  <2>1. k * ShardSize \in Nat /\ (k + 1) * ShardSize = k * ShardSize + ShardSize
    BY <1>1
  <2>2. (k + 1) * ShardSize <= ShardSize * Data
    <3>1. k + 1 \in Nat /\ k + 1 <= Data
      BY <1>1
    <3>2. QED
      BY <1>1, <3>1
  <2>3. QED
    BY <1>1, <1>2, <2>1, <2>2
<1>4. ASSUME NEW b \in 0..(input.len - 1)
      PROVE  \E k \in 0..(Data - 1) : b \in Slice(k).lo..(Slice(k).hi - 1)
  <2> DEFINE k == b \div ShardSize
  <2>1. /\ b \in Nat /\ k \in Nat /\ b % ShardSize \in 0..(ShardSize - 1)
        /\ b = ShardSize * k + (b % ShardSize)
    <3>1. b \in Nat
      BY <1>1
    <3>2. QED
      BY <1>1, <3>1, DivMod
  <2> HIDE DEF k
  <2>2. k * ShardSize <= b /\ b < (k + 1) * ShardSize /\ (k + 1) * ShardSize \in Nat
    BY <1>1, <2>1
  <2>3. k < Data
    <3>1. SUFFICES ASSUME k >= Data PROVE FALSE
      BY <1>1, <2>1
    <3>2. ShardSize * Data <= k * ShardSize
      BY <1>1, <2>1, <3>1
    <3>3. QED
      BY <1>1, <1>2, <2>1, <2>2, <3>2
  <2>4. k \in 0..(Data - 1)
    BY <1>1, <2>1, <2>3
  <2>5. Slice(k).lo = k * ShardSize /\ Slice(k).hi = Lesser(input.len, (k + 1) * ShardSize)
    BY DEF Slice
  <2>6. b < Lesser(input.len, (k + 1) * ShardSize) /\ Lesser(input.len, (k + 1) * ShardSize) \in Nat
    BY <1>1, <2>2 DEF Lesser
  <2>7. b \in Slice(k).lo..(Slice(k).hi - 1)
    BY <1>1, <1>3, <2>1, <2>2, <2>4, <2>5, <2>6
  <2>8. QED
    BY <2>4, <2>7
<1>5. ASSUME NEW k \in 0..(Data - 1)
      PROVE  /\ Slice(k).lo < Slice(k).hi /\ Slice(k).hi <= input.len
             /\ Slice(k).lo \in Nat /\ Slice(k).hi \in Nat
  <2>1. Slice(k).lo = k * ShardSize /\ Slice(k).hi = Lesser(input.len, k * ShardSize + ShardSize)
    BY <1>3 DEF Slice
  <2>2. QED
    BY <1>1, <1>3, <2>1 DEF Lesser
<1>6. QED
  BY <1>4, <1>5

(* Without chaos the burst is every shard in order, and every byte.        *)
THEOREM CleanBurst == Spec => []CleanBurstIsWhole
<1>1. BurstInv => CleanBurstIsWhole
  <2> SUFFICES ASSUME BurstInv, stage = "ok", input.burst = 0, input.drop = 0, ~input.shuffle
               PROVE  /\ Len(sent) = Total
                      /\ \A n \in 1..Total : sent[n].header.index = n - 1
                      /\ Bytes(sent) = 0..(input.len - 1)
                      /\ \A n \in 1..Data : sent[n].body.plain.lo < sent[n].body.plain.hi
    BY DEF CleanBurstIsWhole
  <2>1. /\ input \in Inputs /\ Admitted /\ sent = ready /\ Len(sent) = Total
        /\ \A n \in 1..Total : sent[n] = Packet(n - 1)
    BY SentAll DEF BurstInv, ChaosInv, InOrder
  <2>2. /\ Data \in Nat \ {0} /\ Parity \in 0..Data /\ Total \in 1..U16Max /\ Total = Data + Parity
        /\ input.len \in Nat
    BY <2>1, Layout, InputsAssumption DEF Total
  <2>3. ASSUME NEW n \in 1..Total
        PROVE  sent[n].header.index = n - 1 /\ sent[n].body.plain = Expected(n - 1)
    <3>1. n - 1 \in 0..(Total - 1)
      BY <2>2
    <3>2. QED
      BY <2>1, <3>1, PlanOpens
  <2>4. ASSUME NEW n \in 1..Data
        PROVE  n \in 1..Total /\ n - 1 \in 0..(Data - 1) /\ sent[n].body.plain = Slice(n - 1)
    <3>1. n \in 1..Total /\ n - 1 \in 0..(Data - 1)
      BY <2>2
    <3>2. Expected(n - 1) = Slice(n - 1)
      BY <2>2, <3>1 DEF Expected
    <3>3. QED
      BY <2>3, <3>1, <3>2
  <2>5. ASSUME NEW m PROVE m \in {k \in 1..Len(sent) : sent[k].header.index < Data} <=> m \in 1..Data
    BY <2>1, <2>2, <2>3
  <2>6. ASSUME NEW b PROVE b \in Bytes(sent) <=> b \in 0..(input.len - 1)
    <3>1. b \in Bytes(sent) <=>
            \E n \in 1..Data : b \in sent[n].body.plain.lo..(sent[n].body.plain.hi - 1)
      BY <2>5 DEF Bytes
    <3>2. ASSUME NEW n \in 1..Data, b \in sent[n].body.plain.lo..(sent[n].body.plain.hi - 1)
          PROVE  b \in 0..(input.len - 1)
      <4>1. b \in Slice(n - 1).lo..(Slice(n - 1).hi - 1) /\ n - 1 \in 0..(Data - 1)
        BY <2>4, <3>2
      <4>2. QED
        BY <2>1, <2>2, <4>1, ChunksCover
    <3>3. ASSUME b \in 0..(input.len - 1)
          PROVE  \E n \in 1..Data : b \in sent[n].body.plain.lo..(sent[n].body.plain.hi - 1)
      <4>1. PICK k \in 0..(Data - 1) : b \in Slice(k).lo..(Slice(k).hi - 1)
        BY <2>1, <3>3, ChunksCover
      <4>2. k + 1 \in 1..Data /\ (k + 1) - 1 = k
        BY <2>2
      <4>3. sent[k + 1].body.plain = Slice(k)
        BY <2>4, <4>2
      <4>4. QED
        BY <4>1, <4>2, <4>3
    <3>4. QED
      BY <3>1, <3>2, <3>3
  <2>7. Bytes(sent) = 0..(input.len - 1)
    BY <2>6
  <2>8. ASSUME NEW n \in 1..Data PROVE sent[n].body.plain.lo < sent[n].body.plain.hi
    BY <2>1, <2>4, ChunksCover
  <2>9. QED
    BY <2>1, <2>3, <2>7, <2>8
<1>2. QED
  BY <1>1, BurstInvariant, PTL
-----------------------------------------------------------------------------
(* Only Send changes what is on the wire, and by one packet that was ready.*)
LEMMA SentChange ==
  ASSUME BurstInv, [Next]_vars
  PROVE  /\ input' = input
         /\ \/ sent' = sent
            \/ /\ Send /\ Len(sent) + 1 \in 1..Len(ready)
               /\ sent' = Append(sent, ready[Len(sent) + 1])
         /\ sent # <<>> => ready' = ready
<1>1. CASE Send
  <2>1. Len(sent) \in Nat /\ Len(ready) \in Nat
    BY LenProperties DEF BurstInv, SentInv, ReadyInv
  <2>2. QED
    BY <1>1, <2>1 DEF Send
<1>2. CASE ~Send
  <2>1. input' = input /\ sent' = sent
    BY <1>2
    DEF Next, Read, Progress, ReadFails, RejectEmpty, RejectTooMany, Split, Encode, SkipEncode,
        EncodeFails, Seal, SealFails, DropBurst, DropRandom, Shuffle, SendFails, Return, Crash, vars
  <2>2. ASSUME stage \notin {"seal", "drop_burst", "drop_random", "shuffle"} PROVE ready' = ready
    BY <1>2, <2>2
    DEF Next, Read, Progress, ReadFails, RejectEmpty, RejectTooMany, Split, Encode, SkipEncode,
        EncodeFails, Seal, SealFails, DropBurst, DropRandom, Shuffle, SendFails, Return, Crash,
        vars, Goto
  <2>3. QED
    BY <2>1, <2>2 DEF BurstInv, SentInv
<1>3. QED
  BY <1>1, <1>2

(* Once transmission has begun, no packet is recalled, reordered or added. *)
THEOREM AppendOnly == Spec => WireIsAppendOnly
<1> DEFINE Step == /\ \/ sent' = sent
                      \/ \E p \in {ready[n] : n \in 1..Len(ready)} : sent' = Append(sent, p)
                   /\ sent # <<>> => ready' = ready
<1>1. BurstInv /\ [Next]_vars => Step
  BY SentChange
<1>2. QED
  BY <1>1, BurstInvariant, PTL DEF Spec, WireIsAppendOnly

(* send keeps the sender's promise to the network for the frame of its     *)
(* run: whatever it sends is an intact shard of that frame, sent once.     *)
THEOREM BurstImplementsTransmission == Spec => ImplementsTransmission
<1> DEFINE Wire == {Shard(sent[n]) : n \in 1..Len(sent)}
<1>1. Init => Contract!Init
  <2> SUFFICES ASSUME sent = <<>> PROVE Wire = {}
    BY DEF Init, Contract!Init
  <2>1. Len(sent) = 0
    OBVIOUS
  <2>2. QED
    BY <2>1
<1>2. ASSUME BurstInv, [Next]_vars PROVE Contract!Next \/ Wire' = Wire
  <2>1. ASSUME NEW packet PROVE Shard(packet)' = Shard(packet)
    BY <1>2, SentChange, SamePlan DEF Shard, Opens, Sealed, Expected, Row, Slice, Data, Parity, Total
  <2>2. CASE sent' = sent
    BY <2>1, <2>2
  <2>3. CASE Send /\ Len(sent) + 1 \in 1..Len(ready) /\ sent' = Append(sent, ready[Len(sent) + 1])
    <3> DEFINE next == ready[Len(sent) + 1]
    <3>1. /\ sent \in Seq(Planned) /\ next \in Planned /\ Len(sent) \in Nat
          /\ Len(sent) < Len(ready) /\ Len(ready) \in Nat
          /\ \A n \in 1..Len(sent) : n \in 1..Len(ready) /\ sent[n] = ready[n]
      BY <1>2, <2>3, ElementOfSeq, LenProperties DEF BurstInv, SentInv, ReadyInv
    <3>2. /\ Len(sent') = Len(sent) + 1 /\ sent'[Len(sent) + 1] = next
          /\ \A n \in 1..Len(sent) : sent'[n] = sent[n]
      BY <2>3, <3>1, AppendProperties
    <3>3. Wire' = Wire \cup {Shard(next)}
      <4> HIDE DEF next
      <4>1. 1..Len(sent') = (1..Len(sent)) \cup {Len(sent) + 1}
        BY <3>1, <3>2
      <4>2. Wire' = {Shard(sent'[n]) : n \in 1..Len(sent')}
        BY <2>1
      <4>3. QED
        BY <3>2, <4>1, <4>2
    <3>4. ASSUME NEW n \in 1..Len(ready)
          PROVE  /\ Shard(ready[n]) = [key |-> "psk", session |-> 1, frame |-> Total,
                                       index |-> ready[n].header.index]
                 /\ Shard(ready[n]).index = ready[n].header.index
      <4>1. Opens(ready[n])
        BY <1>2, ReadyOpens
      <4>2. QED
        BY <4>1 DEF Shard
    <3>5. Shard(next) \notin Wire
      <4>1. SUFFICES ASSUME NEW n \in 1..Len(sent), Shard(sent[n]) = Shard(next) PROVE FALSE
        OBVIOUS
      <4>2. n \in 1..Len(ready) /\ sent[n] = ready[n]
        BY <3>1
      <4>3. ready[n].header.index = next.header.index
        <5>1. Shard(ready[n]) = Shard(next)
          BY <4>1, <4>2
        <5>2. Shard(ready[n]).index = ready[n].header.index
          BY <3>4, <4>2
        <5>3. Shard(next).index = next.header.index
          BY <2>3, <3>4
        <5>4. QED
          BY <5>1, <5>2, <5>3
      <4>4. ready[n] = Packet(ready[n].header.index) /\ next = Packet(next.header.index)
        BY <1>2, <2>3, <4>2, ReadyOpens
      <4>5. n = Len(sent) + 1
        BY <1>2, <2>3, <4>2, <4>3, <4>4 DEF BurstInv, ReadyInv
      <4>6. QED
        BY <3>1, <4>5
    <3>6. Total \in 1..U16Max /\ next.header.index \in 0..(Total - 1)
      BY <1>2, <2>3, ReadyOpens, Layout DEF BurstInv
    <3>7. ASSUME NEW q \in Wire PROVE Contract!MayFollow(Shard(next), q)
      BY <3>7 DEF Contract!MayFollow, Shard
    <3>8. Contract!Transmit(Total)
      <4>1. Shard(next) = [key |-> "psk", session |-> 1, index |-> next.header.index, frame |-> Total]
        BY <2>3, <3>4
      <4>2. 1 \in Contract!Sessions
        BY ShardingAssumption DEF Contract!Sessions, Contract!FirstSession
      <4>3. next.header.index \in [total \in 1..U16Max |-> 0..(total - 1)][Total]
        BY <3>6
      <4>4. QED
        BY <3>3, <3>5, <3>7, <4>1, <4>2, <4>3 DEF Contract!Transmit
    <3>9. QED
      BY <3>6, <3>8 DEF Contract!Next
  <2>4. QED
    BY <1>2, <2>2, <2>3, SentChange
<1>3. BurstInv /\ [Next]_vars => [Contract!Next]_Wire
  BY <1>2
<1>4. QED
  BY <1>1, <1>3, BurstInvariant, PTL DEF Spec, ImplementsTransmission, Contract!Spec
=============================================================================
