----------------------------- MODULE WireProofs -----------------------------
(***************************************************************************)
(* Proofs about Wire, for every size of a byte and of a shard.             *)
(***************************************************************************)
EXTENDS Wire, TLAPS

(* Division with remainder, for the code's 16-bit numbers.                 *)
LEMMA Division ==
  ASSUME NEW x \in Nat, NEW b \in Nat \ {0}
  PROVE  /\ x \div b \in Nat
         /\ x % b \in 0..(b - 1)
         /\ x = (x \div b) * b + (x % b)
  OBVIOUS

(* A number below b * c has a quotient by b below c.                       *)
LEMMA Quotient ==
  ASSUME NEW b \in Nat \ {0}, NEW c \in Nat \ {0}, NEW x \in 0..((b * c) - 1)
  PROVE  x \div b \in 0..(c - 1)
<1> DEFINE q == x \div b
<1>1. q \in Nat /\ x = q * b + (x % b) /\ x % b >= 0 /\ x \in Nat
  <2>1. b * c \in Nat
    OBVIOUS
  <2>2. x \in Nat
    BY <2>1
  <2>3. QED
    BY <2>2, Division
<1>2. q * b < c * b
  BY <1>1
<1>3. ASSUME q >= c PROVE FALSE
  BY <1>1, <1>2, <1>3
<1>4. QED
  BY <1>1, <1>3

(* to_be_bytes of a 16-bit number gives two bytes, and the number is read  *)
(* back from them.                                                         *)
LEMMA U16RoundTrip ==
  ASSUME NEW x \in U16
  PROVE  /\ U16Bytes(x) \in Buffers(2)
         /\ U16Bytes(x)[0] * Byte + U16Bytes(x)[1] = x
<1>1. Byte \in Nat \ {0} /\ x \in Nat
  BY WireAssumption DEF U16
<1>2. x \div Byte \in 0..(Byte - 1)
  BY <1>1, Quotient DEF U16
<1>3. x % Byte \in 0..(Byte - 1) /\ x = (x \div Byte) * Byte + (x % Byte)
  BY <1>1, Division
<1>4. QED
  BY <1>2, <1>3 DEF U16Bytes, Buffers

(* So does to_be_bytes of a 32-bit number with four.                       *)
LEMMA U32RoundTrip ==
  ASSUME NEW x \in U32
  PROVE  LET b == U32Bytes(x)
         IN  /\ b \in Buffers(4)
             /\ (b[0] * Byte + b[1]) * (Byte * Byte) + (b[2] * Byte + b[3]) = x
<1> DEFINE base == Byte * Byte
           high == U16Bytes(x \div base)
           low  == U16Bytes(x % base)
<1>1. base \in Nat \ {0} /\ Byte * Byte * Byte * Byte = base * base
  BY WireAssumption
<1>2. x \in 0..((base * base) - 1) /\ x \in Nat
  BY <1>1 DEF U32
<1>3. x \div base \in 0..(base - 1)
  BY <1>1, <1>2, Quotient
<1>4. x % base \in 0..(base - 1) /\ x = (x \div base) * base + (x % base)
  BY <1>1, <1>2, Division
<1>5. high \in Buffers(2) /\ high[0] * Byte + high[1] = x \div base
  BY <1>3, U16RoundTrip DEF U16
<1>6. low \in Buffers(2) /\ low[0] * Byte + low[1] = x % base
  BY <1>4, U16RoundTrip DEF U16
<1> HIDE DEF base, high, low
<1>7. U32Bytes(x) = [i \in 0..3 |-> IF i < 2 THEN high[i] ELSE low[i - 2]]
  BY DEF U32Bytes, high, low, base
<1>8. U32Bytes(x) \in Buffers(4)
  BY <1>5, <1>6, <1>7 DEF Buffers
<1>9. /\ U32Bytes(x)[0] = high[0] /\ U32Bytes(x)[1] = high[1]
      /\ U32Bytes(x)[2] = low[0] /\ U32Bytes(x)[3] = low[1]
  BY <1>7
<1>10. QED
  BY <1>4, <1>5, <1>6, <1>8, <1>9 DEF base
-----------------------------------------------------------------------------
(* build_aad: each of its five copies lands on bytes no other one touches. *)
LEMMA AadLayout ==
  ASSUME NEW h \in Headers
  PROVE  LET aad == BuildAad(h)
         IN  /\ aad \in Buffers(12)
             /\ \A i \in 0..1 : /\ aad[i] = U16Bytes(h.session)[i]
                                /\ aad[2 + i] = U16Bytes(h.index)[i]
                                /\ aad[4 + i] = U16Bytes(h.data)[i]
                                /\ aad[6 + i] = U16Bytes(h.parity)[i]
             /\ \A i \in 0..3 : aad[8 + i] = U32Bytes(h.rendezvous)[i]
<1> DEFINE s == U16Bytes(h.session)
           n == U16Bytes(h.index)
           d == U16Bytes(h.data)
           q == U16Bytes(h.parity)
           r == U32Bytes(h.rendezvous)
<1>1. s \in Buffers(2) /\ n \in Buffers(2) /\ d \in Buffers(2) /\ q \in Buffers(2)
  BY U16RoundTrip DEF Headers, SessionId, ShardIndex, DataShardCount, ParityShardCount
<1>2. r \in Buffers(4)
  BY U32RoundTrip DEF Headers, RendezvousSecs
<1>3. BuildAad(h) =
        Copied(Copied(Copied(Copied(Copied(Zeroed(12), 0, 2, s), 2, 2, n), 4, 2, d), 6, 2, q),
               8, 4, r)
  BY DEF BuildAad, AAD_SIZE, SESSION_ID_SIZE, SHARD_INDEX_SIZE, DATA_SHARDS_SIZE,
         PARITY_SHARDS_SIZE, RENDEZVOUS_SIZE, SESSION_ID_OFFSET, SHARD_INDEX_OFFSET,
         DATA_SHARDS_OFFSET, PARITY_SHARDS_OFFSET, RENDEZVOUS_OFFSET
<1> HIDE DEF s, n, d, q, r
<1>4. BuildAad(h) =
        [i \in 0..11 |-> IF 8 <= i THEN r[i - 8] ELSE IF 6 <= i THEN q[i - 6]
                         ELSE IF 4 <= i THEN d[i - 4] ELSE IF 2 <= i THEN n[i - 2] ELSE s[i]]
  BY <1>3 DEF Copied, Zeroed
<1>5. BuildAad(h) \in Buffers(12)
  BY <1>1, <1>2, <1>4 DEF Buffers
<1>6. QED
  BY <1>4, <1>5 DEF s, n, d, q, r

(* write_packet: the AAD, the tag and the ciphertext fill the packet, one  *)
(* after the other.                                                        *)
LEMMA PacketLayout ==
  ASSUME NEW aad \in Buffers(12), NEW tag \in Buffers(16), NEW payload \in Buffers(ShardSize)
  PROVE  LET p == WritePacket(aad, tag, payload)
         IN  /\ p \in Buffers(28 + ShardSize)
             /\ \A i \in 0..11 : p[i] = aad[i]
             /\ \A i \in 0..15 : p[12 + i] = tag[i]
             /\ \A i \in 0..(ShardSize - 1) : p[28 + i] = payload[i]
<1>1. WritePacket(aad, tag, payload) =
        Copied(Copied(Copied(Zeroed(28 + ShardSize), 0, 12, aad), 12, 16, tag),
               28, ShardSize, payload)
  BY WireAssumption
  DEF WritePacket, PACKET_SIZE, HEADER_SIZE, TAG_SIZE, AAD_SIZE, SESSION_ID_SIZE,
      SHARD_INDEX_SIZE, DATA_SHARDS_SIZE, PARITY_SHARDS_SIZE, RENDEZVOUS_SIZE,
      SESSION_ID_OFFSET, SHARD_INDEX_OFFSET, DATA_SHARDS_OFFSET, PARITY_SHARDS_OFFSET,
      RENDEZVOUS_OFFSET, TAG_OFFSET, PAYLOAD_OFFSET
<1>2. WritePacket(aad, tag, payload) =
        [i \in 0..(27 + ShardSize) |->
           IF 28 <= i THEN payload[i - 28] ELSE IF 12 <= i THEN tag[i - 12] ELSE aad[i]]
  BY <1>1, WireAssumption DEF Copied, Zeroed
<1> DEFINE p == WritePacket(aad, tag, payload)
<1> HIDE DEF p
<1>3. p = [i \in 0..(27 + ShardSize) |->
             IF 28 <= i THEN payload[i - 28] ELSE IF 12 <= i THEN tag[i - 12] ELSE aad[i]]
  BY <1>2 DEF p
<1>4. \A i \in 0..11 : p[i] = aad[i]
  BY <1>3, WireAssumption
<1>5. \A i \in 0..15 : p[12 + i] = tag[i]
  <2> TAKE i \in 0..15
  <2>1. 12 + i \in 0..(27 + ShardSize) /\ 12 <= 12 + i /\ ~(28 <= 12 + i) /\ (12 + i) - 12 = i
    BY WireAssumption
  <2>2. p[12 + i] = tag[(12 + i) - 12]
    BY <1>3, <2>1
  <2>3. QED
    BY <2>1, <2>2
<1>6. \A i \in 0..(ShardSize - 1) : p[28 + i] = payload[i]
  <2> TAKE i \in 0..(ShardSize - 1)
  <2>1. 28 + i \in 0..(27 + ShardSize) /\ 28 <= 28 + i /\ (28 + i) - 28 = i
    BY WireAssumption
  <2>2. p[28 + i] = payload[(28 + i) - 28]
    BY <1>3, <2>1
  <2>3. QED
    BY <2>1, <2>2
<1>7. \A i \in 0..(27 + ShardSize) : p[i] \in 0..(Byte - 1)
  <2> SUFFICES ASSUME NEW i \in 0..(27 + ShardSize) PROVE p[i] \in 0..(Byte - 1)
    OBVIOUS
  <2>1. CASE 28 <= i
    <3>1. i - 28 \in 0..(ShardSize - 1)
      BY <2>1, WireAssumption
    <3>2. p[i] = payload[i - 28]
      BY <1>3, <2>1
    <3>3. QED
      BY <3>1, <3>2 DEF Buffers
  <2>2. CASE 12 <= i /\ ~(28 <= i)
    <3>1. i - 12 \in 0..(16 - 1)
      BY <2>2
    <3>2. p[i] = tag[i - 12]
      BY <1>3, <2>2
    <3>3. QED
      BY <3>1, <3>2 DEF Buffers
  <2>3. CASE ~(12 <= i)
    <3>1. i \in 0..(12 - 1)
      BY <2>3
    <3>2. p[i] = aad[i]
      BY <1>4, <3>1
    <3>3. QED
      BY <3>1, <3>2 DEF Buffers
  <2>4. QED
    BY <2>1, <2>2, <2>3
<1>8. p \in Buffers(28 + ShardSize)
  <2>1. p \in [0..(27 + ShardSize) -> 0..(Byte - 1)]
    BY <1>3, <1>7
  <2>2. 27 + ShardSize = (28 + ShardSize) - 1
    BY WireAssumption
  <2>3. QED
    BY <2>1, <2>2 DEF Buffers
<1>9. QED
  BY <1>4, <1>5, <1>6, <1>8 DEF p

(* protocol.rs against the table of SPEC.md 3.4: whatever header, tag and  *)
(* ciphertext a packet is written from, a receiver reads back, and so two  *)
(* different headers never look alike on the wire.                         *)
THEOREM PacketsReadBack ==
  ASSUME NEW h \in Headers, NEW tag \in Buffers(16), NEW payload \in Buffers(ShardSize)
  PROVE  LET p == WritePacket(BuildAad(h), tag, payload)
         IN  /\ p \in Buffers(28 + ShardSize)
             /\ ReadHeader(p) = h
             /\ ReadTag(p) = tag
             /\ ReadPayload(p) = payload
<1> DEFINE aad == BuildAad(h)
           p   == WritePacket(aad, tag, payload)
<1>1. /\ aad \in Buffers(12)
      /\ \A i \in 0..1 : /\ aad[i] = U16Bytes(h.session)[i]
                         /\ aad[2 + i] = U16Bytes(h.index)[i]
                         /\ aad[4 + i] = U16Bytes(h.data)[i]
                         /\ aad[6 + i] = U16Bytes(h.parity)[i]
      /\ \A i \in 0..3 : aad[8 + i] = U32Bytes(h.rendezvous)[i]
  BY AadLayout
<1> HIDE DEF aad
<1>2. /\ p \in Buffers(28 + ShardSize)
      /\ \A i \in 0..11 : p[i] = aad[i]
      /\ \A i \in 0..15 : p[12 + i] = tag[i]
      /\ \A i \in 0..(ShardSize - 1) : p[28 + i] = payload[i]
  BY <1>1, PacketLayout
<1> HIDE DEF p
<1>3. /\ U16At(p, 0) = h.session /\ U16At(p, 2) = h.index
      /\ U16At(p, 4) = h.data    /\ U16At(p, 6) = h.parity
  <2>1. /\ p[0] = U16Bytes(h.session)[0] /\ p[1] = U16Bytes(h.session)[1]
        /\ p[2] = U16Bytes(h.index)[0]   /\ p[3] = U16Bytes(h.index)[1]
        /\ p[4] = U16Bytes(h.data)[0]    /\ p[5] = U16Bytes(h.data)[1]
        /\ p[6] = U16Bytes(h.parity)[0]  /\ p[7] = U16Bytes(h.parity)[1]
    BY <1>1, <1>2
  <2>2. h.session \in U16 /\ h.index \in U16 /\ h.data \in U16 /\ h.parity \in U16
    BY DEF Headers, SessionId, ShardIndex, DataShardCount, ParityShardCount
  <2>3. QED
    BY <2>1, <2>2, U16RoundTrip DEF U16At
<1>4. U32At(p, 8) = h.rendezvous
  <2>1. /\ p[8] = U32Bytes(h.rendezvous)[0]  /\ p[9] = U32Bytes(h.rendezvous)[1]
        /\ p[10] = U32Bytes(h.rendezvous)[2] /\ p[11] = U32Bytes(h.rendezvous)[3]
    BY <1>1, <1>2
  <2>2. h.rendezvous \in U32
    BY DEF Headers, RendezvousSecs
  <2>3. QED
    BY <2>1, <2>2, U32RoundTrip DEF U32At, U16At
<1>5. ReadHeader(p) = h
  BY <1>3, <1>4 DEF ReadHeader, Headers
<1>6. ReadTag(p) = tag
  <2>1. ReadTag(p) = [i \in 0..(16 - 1) |-> p[12 + i]]
    BY DEF ReadTag, Slice
  <2>2. tag = [i \in 0..(16 - 1) |-> tag[i]]
    BY DEF Buffers
  <2>3. \A i \in 0..(16 - 1) : p[12 + i] = tag[i]
    BY <1>2
  <2>4. QED
    BY <2>1, <2>2, <2>3
<1>7. ReadPayload(p) = payload
  BY <1>2, WireAssumption DEF ReadPayload, Slice, Buffers
<1>8. QED
  BY <1>2, <1>5, <1>6, <1>7 DEF p, aad

(* crypto.rs against protocol.rs: the nonce a shard was sealed under is    *)
(* the one a receiver derives from the first four bytes of its packet.     *)
THEOREM NonceIsDerivable ==
  ASSUME NEW h \in Headers, NEW tag \in Buffers(16), NEW payload \in Buffers(ShardSize)
  PROVE  DeriveNonce(h.session, h.index) = ReadNonce(WritePacket(BuildAad(h), tag, payload))
<1> DEFINE p == WritePacket(BuildAad(h), tag, payload)
           s == U16Bytes(h.session)
           n == U16Bytes(h.index)
<1>1. \A i \in 0..1 : p[i] = s[i] /\ p[2 + i] = n[i]
  BY AadLayout, PacketLayout
<1>2. p[0] = s[0] /\ p[1] = s[1] /\ p[2] = n[0] /\ p[3] = n[1]
  BY <1>1
<1> HIDE DEF p, s, n
<1>3. DeriveNonce(h.session, h.index) =
        [i \in 0..11 |-> IF 4 <= i THEN 0 ELSE IF 2 <= i THEN n[i - 2] ELSE s[i]]
  BY DEF DeriveNonce, Copied, Zeroed, NONCE_SIZE, s, n
<1>4. \A i \in 0..11 : (IF 4 <= i THEN 0 ELSE IF 2 <= i THEN n[i - 2] ELSE s[i])
                       = (IF i < 4 THEN p[i] ELSE 0)
  BY <1>2
<1>5. ReadNonce(p) = [i \in 0..11 |-> IF i < 4 THEN p[i] ELSE 0]
  BY DEF ReadNonce
<1>6. QED
  BY <1>3, <1>4, <1>5 DEF p

(* derive_nonce is injective: as bytes, too, a nonce repeats only when     *)
(* session id and index both do.                                           *)
THEOREM NonceIsInjective ==
  ASSUME NEW s1 \in SessionId, NEW i1 \in ShardIndex, NEW s2 \in SessionId, NEW i2 \in ShardIndex,
         DeriveNonce(s1, i1) = DeriveNonce(s2, i2)
  PROVE  s1 = s2 /\ i1 = i2
<1>1. ASSUME NEW s \in U16, NEW i \in U16
      PROVE  /\ DeriveNonce(s, i)[0] = U16Bytes(s)[0] /\ DeriveNonce(s, i)[1] = U16Bytes(s)[1]
             /\ DeriveNonce(s, i)[2] = U16Bytes(i)[0] /\ DeriveNonce(s, i)[3] = U16Bytes(i)[1]
  BY DEF DeriveNonce, Copied, Zeroed, NONCE_SIZE
<1>2. /\ U16Bytes(s1)[0] = U16Bytes(s2)[0] /\ U16Bytes(s1)[1] = U16Bytes(s2)[1]
      /\ U16Bytes(i1)[0] = U16Bytes(i2)[0] /\ U16Bytes(i1)[1] = U16Bytes(i2)[1]
  BY <1>1 DEF SessionId, ShardIndex
<1>3. QED
  BY <1>2, U16RoundTrip DEF SessionId, ShardIndex
=============================================================================
