-------------------------------- MODULE Burst --------------------------------
(***************************************************************************)
(* FiudpSender::send (sender.rs), the pipeline of one run: read, pad, FEC, *)
(* encrypt in place, chaos, transmit.  The shard buffers are the ones the  *)
(* code shares between the FEC encoder and the cipher, so the order of the *)
(* stages shows in what a packet carries.                                  *)
(*                                                                         *)
(* Bytes are abstracted to where they come from.  A buffer is a slice of   *)
(* the frame, zeroes, a parity row over given data buffers, or a sealed    *)
(* buffer.  session_id and rendezvous_secs are the same in every packet of *)
(* a run and are left out of the header here.                              *)
(***************************************************************************)
EXTENDS Sharding, Sequences, FiniteSets, Functions

CONSTANT Inputs   \* frames and options a run may be given

ASSUME InputsAssumption ==
  Inputs \subseteq [len: Nat, ratio: 0..100, burst: Nat, drop: 0..100, shuffle: BOOLEAN]

VARIABLES
  input,    \* the frame's length and the options; never changes
  stage,    \* the next statement of send, or how it returned
  shards,   \* the data and parity buffers
  ready,    \* ready_packets
  sent      \* the packets the socket took, in order

vars == <<input, stage, shards, ready, sent>>
-----------------------------------------------------------------------------
Data   == DataShards(input.len)
Parity == ParityShards(input.ratio, Data)
Total  == Data + Parity

Lesser(a, b) == IF a < b THEN a ELSE b

(* The k-th chunk of the padded frame: bytes lo..hi-1 of the frame, then   *)
(* zeroes up to ShardSize.                                                 *)
Slice(k)  == [kind |-> "slice", lo |-> k * ShardSize,
              hi |-> Lesser(input.len, (k + 1) * ShardSize)]
Zeroes    == [kind |-> "zeroes"]
Row(j, d) == [kind |-> "row", row |-> j, over |-> d]

(* Faults the runs are tried on: nothing is encrypted, and parity shards   *)
(* numbered from zero again for their nonces.                              *)
NotSealed(nonce, aad, plain) == plain
NonceInGroup(index) == IF index < Data THEN index ELSE index - Data

(* derive_nonce, whose other half is the run's session id.                 *)
Nonce(index) == AsU16(index)

(* encrypt_in_place: nonce and AAD are bound to the ciphertext by the tag. *)
Sealed(nonce, aad, plain) ==
  [kind |-> "sealed", nonce |-> nonce, aad |-> aad, plain |-> plain]

(* build_aad, with the counts cast to u16 as send does.                    *)
Header(index) ==
  [index |-> AsU16(index), data |-> AsU16(Data), parity |-> AsU16(Parity)]

Errors == {"Io", "EmptyInput", "TooManyShards", "Fec", "Encryption", "ShortSend"}
Final  == {"ok", "crashed"} \cup Errors
Stages == {"read", "encode", "seal", "drop_burst", "drop_random", "shuffle", "transmit"}

Init ==
  /\ input \in Inputs
  /\ stage = "read"
  /\ shards = <<>>
  /\ ready = <<>>
  /\ sent = <<>>
-----------------------------------------------------------------------------
Goto(from, to) == stage = from /\ stage' = to

ReadFails ==
  /\ Goto("read", "Io")
  /\ UNCHANGED <<input, shards, ready, sent>>

RejectEmpty ==
  /\ input.len = 0
  /\ Goto("read", "EmptyInput")
  /\ UNCHANGED <<input, shards, ready, sent>>

RejectTooMany ==
  /\ input.len > 0
  /\ ~FitsWire(Total)
  /\ Goto("read", "TooManyShards")
  /\ UNCHANGED <<input, shards, ready, sent>>

(* read_all, pad_to_shard_size, chunks_exact_mut and the parity buffers.   *)
Split ==
  /\ input.len > 0
  /\ FitsWire(Total)
  /\ Goto("read", "encode")
  /\ shards' = [i \in 1..Total |-> IF i <= Data THEN Slice(i - 1) ELSE Zeroes]
  /\ UNCHANGED <<input, ready, sent>>

(* ReedSolomonEngine::encode fills the parity buffers from the data ones.  *)
Encode ==
  /\ Parity > 0
  /\ CodeExists(Data, Parity)
  /\ Goto("encode", "seal")
  /\ shards' = [i \in 1..Total |->
                  IF i <= Data THEN shards[i]
                               ELSE Row(i - Data, SubSeq(shards, 1, Data))]
  /\ UNCHANGED <<input, ready, sent>>

SkipEncode ==
  /\ Parity = 0
  /\ Goto("encode", "seal")
  /\ UNCHANGED <<input, shards, ready, sent>>

EncodeFails ==
  /\ Parity > 0
  /\ ~CodeExists(Data, Parity)
  /\ Goto("encode", "Fec")
  /\ UNCHANGED <<input, shards, ready, sent>>

(* One turn of the encryption loop: nonce, AAD, encrypt in place, assemble *)
(* the packet from the buffer just encrypted.                              *)
Seal ==
  LET i    == Len(ready) + 1
      body == Sealed(Nonce(i - 1), Header(i - 1), shards[i])
  IN  /\ stage = "seal"
      /\ i <= Len(shards)
      /\ shards' = [shards EXCEPT ![i] = body]
      /\ ready' = Append(ready, [header |-> Header(i - 1), body |-> body])
      /\ stage' = IF i = Len(shards) THEN "drop_burst" ELSE "seal"
      /\ UNCHANGED <<input, sent>>

SealFails ==
  /\ Goto("seal", "Encryption")
  /\ UNCHANGED <<input, shards, ready, sent>>

(* Fault: the block may start too near the end.                            *)
AnyStart == Len(ready)

(* --chaos-burst: drain a random block start..end.                         *)
LastStart == Len(ready) - Lesser(input.burst, Len(ready))
BlockEnd(start) == Lesser(Len(ready), start + input.burst)

DropBurst ==
  /\ Goto("drop_burst", "drop_random")
  /\ \/ input.burst = 0 /\ UNCHANGED ready
     \/ /\ input.burst > 0
        /\ \E start \in 0..LastStart :
             ready' = SubSeq(ready, 1, start)
                        \o SubSeq(ready, BlockEnd(start) + 1, Len(ready))
  /\ UNCHANGED <<input, shards, sent>>

(* --chaos-drop: a packet stays when a draw from 0..99 is at least the     *)
(* percentage, so at 100 none does.                                        *)
DropRandom ==
  /\ Goto("drop_random", "shuffle")
  /\ \/ input.drop = 0 /\ UNCHANGED ready
     \/ /\ input.drop > 0
        /\ \E kept \in SUBSET (1..Len(ready)) :
             /\ input.drop = 100 => kept = {}
             /\ ready' = [n \in 1..Cardinality(kept) |->
                            ready[CHOOSE k \in kept : Cardinality({j \in kept : j <= k}) = n]]
  /\ UNCHANGED <<input, shards, sent>>

(* --chaos-shuffle: any order.                                             *)
Shuffle ==
  /\ Goto("shuffle", "transmit")
  /\ \/ ~input.shuffle /\ UNCHANGED ready
     \/ /\ input.shuffle
        /\ \E order \in Bijection(1..Len(ready), 1..Len(ready)) :
             ready' = [n \in 1..Len(ready) |-> ready[order[n]]]
  /\ UNCHANGED <<input, shards, sent>>

(* Fault: each packet is sent as soon as it is sealed.                     *)
SealingOrTransmitting == stage \in {"seal", "transmit"}

(* The transmit loop starts when every packet is ready, where the doc of   *)
(* send has each packet sent as it is sealed (see SentAsSealed).           *)
Transmitting == stage = "transmit"

Send ==
  /\ Transmitting
  /\ Len(sent) < Len(ready)
  /\ sent' = Append(sent, ready[Len(sent) + 1])
  /\ UNCHANGED <<input, stage, shards, ready>>

(* The socket refuses the packet or takes a part of it: the rest of the    *)
(* burst is given up.                                                      *)
SendFails ==
  /\ Len(sent) < Len(ready)
  /\ \E error \in {"Io", "ShortSend"} : Goto("transmit", error)
  /\ UNCHANGED <<input, shards, ready, sent>>

(* Fault: done after the last packet, which an empty burst does not have.  *)
AfterLast == Len(sent) > 0 /\ Len(sent) = Len(ready)

AllSent == Len(sent) = Len(ready)

Return ==
  /\ AllSent
  /\ Goto("transmit", "ok")
  /\ UNCHANGED <<input, shards, ready, sent>>

(* The process is killed.                                                  *)
Crash ==
  /\ stage \notin Final
  /\ stage' = "crashed"
  /\ UNCHANGED <<input, shards, ready, sent>>

(* read_all returns, and with it every check of the frame's length.        *)
Read == RejectEmpty \/ RejectTooMany \/ Split

Progress ==
  \/ Encode \/ SkipEncode \/ EncodeFails
  \/ Seal
  \/ DropBurst \/ DropRandom \/ Shuffle
  \/ Send \/ Return

Next == Read \/ Progress \/ ReadFails \/ SealFails \/ SendFails \/ Crash

Spec == Init /\ [][Next]_vars

(* A process that is not killed runs on; no call of it need fail.  Reading *)
(* the input is not part of this: read_to_end on stdin returns when the    *)
(* program upstream closes the pipe, which it may never do.                *)
FairSpec == Spec /\ WF_vars(Progress)
-----------------------------------------------------------------------------
Headers == [index: 0..U16Max, data: 0..U16Max, parity: 0..U16Max]

Plain ==
  {Zeroes} \cup {Slice(k) : k \in 0..(Data - 1)}
           \cup {Row(j, [k \in 1..Data |-> Slice(k - 1)]) : j \in 1..Parity}

Bodies == [kind: {"sealed"}, nonce: 0..U16Max, aad: Headers, plain: Plain]

(* A buffer holds plaintext, parity over plaintext, or a ciphertext of one *)
(* of these, and only ciphertexts with headers that fit u16 are packets.   *)
TypeOK ==
  /\ input \in Inputs
  /\ stage \in Stages \cup Final
  /\ \A i \in 1..Len(shards) : shards[i] \in Plain \cup Bodies
  /\ \A n \in 1..Len(ready) : ready[n].header \in Headers /\ ready[n].body \in Bodies
  /\ Len(sent) <= Len(ready)

Indices(packets) == {packets[n].header.index : n \in 1..Len(packets)}

(* What the shard at an index must hold for a receiver to rebuild the      *)
(* frame: its chunk of the frame, or its parity row over all the chunks.   *)
Expected(index) ==
  IF index < Data THEN Slice(index)
  ELSE Row(index - Data + 1, [k \in 1..Data |-> Slice(k - 1)])

Opens(packet) ==
  /\ packet.header = [index |-> packet.header.index, data |-> Data, parity |-> Parity]
  /\ packet.header.index < Total
  /\ packet.body = Sealed(packet.header.index, packet.header, Expected(packet.header.index))

(* Every packet can be used by a receiver that has nothing but the packet  *)
(* and the key: the counts it carries are the true ones although they were *)
(* cast to u16, its ciphertext opens under the nonce and AAD its header    *)
(* gives, and what it opens to is plaintext, encoded before any data       *)
(* buffer was overwritten by its ciphertext.                               *)
PacketsOpen == \A n \in 1..Len(ready) : Opens(ready[n])

(* No two packets of a run are sealed under one nonce, whatever the chaos  *)
(* options remove or reorder, and no packet is put on the wire twice.      *)
NoncesDiffer ==
  /\ \A m, n \in 1..Len(ready) : m # n => ready[m].body.nonce # ready[n].body.nonce
  /\ \A m, n \in 1..Len(sent) : m # n => sent[m] # sent[n]

(* A frame is all or nothing up to the socket: an error found while        *)
(* preparing any shard leaves the wire untouched, and only a socket error  *)
(* or a kill can leave a part of the burst on it.  The code's two loops    *)
(* give this; the one loop of send's doc would not (SentAsSealed).         *)
PartialOnlyBySocket ==
  /\ stage \in Errors \ {"Io", "ShortSend"} => sent = <<>>
  /\ stage = "ok" => sent = ready
  /\ sent # <<>> => stage \in {"transmit", "ok", "Io", "ShortSend", "crashed"}

Bytes(packets) ==
  UNION {packets[n].body.plain.lo .. (packets[n].body.plain.hi - 1) :
           n \in {m \in 1..Len(packets) : packets[m].header.index < Data}}

(* Without chaos a run that succeeds has sent every shard once, in index   *)
(* order, and the data shards carry every byte of the input: padding loses *)
(* none to the chunking and adds no empty shard.                           *)
CleanBurstIsWhole ==
  stage = "ok" /\ input.burst = 0 /\ input.drop = 0 /\ ~input.shuffle =>
    /\ Len(sent) = Total
    /\ \A n \in 1..Total : sent[n].header.index = n - 1
    /\ Bytes(sent) = 0..(input.len - 1)
    /\ \A n \in 1..Data : sent[n].body.plain.lo < sent[n].body.plain.hi

(* chaos_burst removes one block of consecutive shards, of the length      *)
(* asked for or the whole burst, never running past its end.               *)
BurstLossIsOneBlock ==
  stage = "ok" /\ input.burst > 0 /\ input.drop = 0 =>
    \E first \in 0..Total :
      LET lost == first..(first + Lesser(input.burst, Total) - 1)
      IN  /\ lost \subseteq 0..(Total - 1)
          /\ Indices(sent) = (0..(Total - 1)) \ lost

(* A block no longer than the ratio's share of the data shards, rounded    *)
(* up as config.rs:351-360 promises, leaves as many shards as the frame    *)
(* has data shards, which is what Reed-Solomon needs (SPEC.md 3.5): a      *)
(* frame of one shard survives the loss of one at every ratio but zero.    *)
BurstLossIsRecoverable ==
  stage = "ok" /\ input.drop = 0 /\ (input.burst - 1) * 100 < Data * input.ratio =>
    Cardinality(Indices(sent)) >= Data

(* What goes on the wire was fixed before the first packet went out: no    *)
(* packet is recalled, reordered or added once transmission has begun.     *)
(* The chaos options need this, and the code's order of loops gives it,    *)
(* against the doc of send (SentAsSealed).                                 *)
WireIsAppendOnly ==
  [][/\ sent' = sent \/ \E p \in {ready[n] : n \in 1..Len(ready)} : sent' = Append(sent, p)
     /\ sent # <<>> => ready' = ready]_vars

(* A packet as the network's contract sees it: the shard it carries, or, if *)
(* no receiver can use it, an index that no shard has.  The one frame there *)
(* is goes by its number of shards.                                        *)
Shard(packet) ==
  [key |-> "psk", session |-> 1, frame |-> Total,
   index |-> IF Opens(packet) THEN packet.header.index ELSE Total]

Contract == INSTANCE Transmission WITH
              Frames <- 1..U16Max,
              Shards <- [total \in 1..U16Max |-> 0..(total - 1)],
              Keys   <- {"psk"},
              wire   <- {Shard(sent[n]) : n \in 1..Len(sent)}

(* The pipeline keeps the sender's promise to the network for the frame of *)
(* its run, one packet at a time: each is an intact shard of the frame it  *)
(* read that was not sent before, on every path through send.              *)
ImplementsTransmission == Contract!Spec

(* Once send has its frame it returns, with success or an error, unless    *)
(* the process is killed; also when the chaos options left nothing to      *)
(* transmit.  Only the input can keep it waiting.                          *)
SendReturns == stage # "read" ~> stage \in Final

(* error.rs:112-113 says of FiudpError::Fec that invalid shard counts are  *)
(* guarded against upstream, so that send never meets them.                *)
FecCountsGuarded == stage # "Fec"

(* sender.rs:186-191 lists the steps of send for each shard: encrypt it,   *)
(* send its packet, sleep, go on to the next.  No shard would then be      *)
(* encrypted while the packet of an earlier one was not sent.              *)
SentAsSealed == stage = "seal" => Len(ready) <= Len(sent) + 1
=============================================================================
