-------------------------------- MODULE Wire --------------------------------
(***************************************************************************)
(* The bytes of a packet (protocol.rs, types.rs) and of the nonce that     *)
(* goes with it (crypto.rs).  A buffer is a function from offsets to       *)
(* bytes.  The numbers a byte and a shard can hold are parameters; every   *)
(* other size is the code's.                                               *)
(***************************************************************************)
EXTENDS Integers

CONSTANTS
  Byte,        \* values a byte has: 256
  ShardSize    \* SHARD_SIZE: 1400

ASSUME WireAssumption ==
  /\ Byte \in Nat \ {0, 1}
  /\ ShardSize \in Nat \ {0}

U16 == 0..(Byte * Byte - 1)
U32 == 0..(Byte * Byte * Byte * Byte - 1)

(* The newtypes, by the numbers they wrap.                                 *)
SessionId        == U16
ShardIndex       == U16
DataShardCount   == U16
ParityShardCount == U16
RendezvousSecs   == U32

(* PacketBuilder's fields and the shard's index.                           *)
Headers ==
  [session: SessionId, index: ShardIndex, data: DataShardCount, parity: ParityShardCount,
   rendezvous: RendezvousSecs]
-----------------------------------------------------------------------------
NONCE_SIZE == 12
TAG_SIZE == 16
RENDEZVOUS_SIZE == 4
SESSION_ID_SIZE == 2
SHARD_INDEX_SIZE == 2
DATA_SHARDS_SIZE == 2
PARITY_SHARDS_SIZE == 2

AAD_SIZE ==
  SESSION_ID_SIZE + SHARD_INDEX_SIZE + DATA_SHARDS_SIZE + PARITY_SHARDS_SIZE + RENDEZVOUS_SIZE
HEADER_SIZE == AAD_SIZE + TAG_SIZE
PACKET_SIZE == HEADER_SIZE + ShardSize

(* Fault the run is tried on: a field that starts in the one before it.    *)
Overlapping == SESSION_ID_SIZE + SHARD_INDEX_SIZE + DATA_SHARDS_SIZE - 1

SESSION_ID_OFFSET == 0
SHARD_INDEX_OFFSET == SESSION_ID_OFFSET + SESSION_ID_SIZE
DATA_SHARDS_OFFSET == SHARD_INDEX_OFFSET + SHARD_INDEX_SIZE
PARITY_SHARDS_OFFSET == DATA_SHARDS_OFFSET + DATA_SHARDS_SIZE
RENDEZVOUS_OFFSET == PARITY_SHARDS_OFFSET + PARITY_SHARDS_SIZE
TAG_OFFSET == RENDEZVOUS_OFFSET + RENDEZVOUS_SIZE
PAYLOAD_OFFSET == TAG_OFFSET + TAG_SIZE
-----------------------------------------------------------------------------
Buffers(n) == [0..(n - 1) -> 0..(Byte - 1)]

Zeroed(n) == [i \in 0..(n - 1) |-> 0]

(* buf[at..at + n].copy_from_slice(src), n the length of src.              *)
Copied(buf, at, n, src) ==
  [i \in DOMAIN buf |-> IF at <= i /\ i < at + n THEN src[i - at] ELSE buf[i]]

(* to_be_bytes of the 16-bit newtypes, and of RendezvousSecs.              *)
U16Bytes(x) == [i \in 0..1 |-> IF i = 0 THEN x \div Byte ELSE x % Byte]

U32Bytes(x) ==
  LET high == U16Bytes(x \div (Byte * Byte))
      low  == U16Bytes(x % (Byte * Byte))
  IN  [i \in 0..3 |-> IF i < 2 THEN high[i] ELSE low[i - 2]]

BuildAad(header) ==
  LET session == Copied(Zeroed(AAD_SIZE), SESSION_ID_OFFSET, SESSION_ID_SIZE,
                        U16Bytes(header.session))
      index   == Copied(session, SHARD_INDEX_OFFSET, SHARD_INDEX_SIZE, U16Bytes(header.index))
      data    == Copied(index, DATA_SHARDS_OFFSET, DATA_SHARDS_SIZE, U16Bytes(header.data))
      parity  == Copied(data, PARITY_SHARDS_OFFSET, PARITY_SHARDS_SIZE, U16Bytes(header.parity))
  IN  Copied(parity, RENDEZVOUS_OFFSET, RENDEZVOUS_SIZE, U32Bytes(header.rendezvous))

(* write_packet.  Its error, for a payload of another length than          *)
(* SHARD_SIZE, cannot occur: every shard is a chunk of that length.        *)
WritePacket(aad, tag, payload) ==
  LET header == Copied(Zeroed(PACKET_SIZE), 0, AAD_SIZE, aad)
      tagged == Copied(header, TAG_OFFSET, TAG_SIZE, tag)
  IN  Copied(tagged, PAYLOAD_OFFSET, ShardSize, payload)

(* Fault: the halves of the nonce swapped.                                 *)
SwappedNonce(session, index) ==
  Copied(Copied(Zeroed(NONCE_SIZE), 0, 2, U16Bytes(index)), 2, 2, U16Bytes(session))

(* derive_nonce, which has its own offsets.                                *)
DeriveNonce(session, index) ==
  Copied(Copied(Zeroed(NONCE_SIZE), 0, 2, U16Bytes(session)), 2, 2, U16Bytes(index))
-----------------------------------------------------------------------------
(* What a receiver reads, at the offsets of the table in SPEC.md 3.4 and   *)
(* not at the code's constants.                                            *)
Slice(packet, at, n) == [i \in 0..(n - 1) |-> packet[at + i]]

U16At(packet, at) == packet[at] * Byte + packet[at + 1]

U32At(packet, at) == U16At(packet, at) * (Byte * Byte) + U16At(packet, at + 2)

ReadHeader(packet) ==
  [session |-> U16At(packet, 0), index |-> U16At(packet, 2), data |-> U16At(packet, 4),
   parity |-> U16At(packet, 6), rendezvous |-> U32At(packet, 8)]

ReadTag(packet)     == Slice(packet, 12, 16)
ReadPayload(packet) == Slice(packet, 28, ShardSize)

(* SPEC.md 3.3: session_id, shard_index, then eight zeroes.                *)
ReadNonce(packet) == [i \in 0..11 |-> IF i < 4 THEN packet[i] ELSE 0]
=============================================================================
