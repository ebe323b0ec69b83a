-------------------------- MODULE InvocationProofs --------------------------
(***************************************************************************)
(* Proofs about Invocation, for every size of byte and shard, all          *)
(* arguments a caller may give and every order of the builder's calls: the *)
(* two ways to a Config agree, and a packet carries what was configured.   *)
(***************************************************************************)
EXTENDS Invocation, WireProofs

(* A field of the builder holds what the last call for it stored.          *)
BuilderTracks ==
  /\ DOMAIN builder = Fields /\ DOMAIN asked = Fields
  /\ \A f \in Fields :
       \/ asked[f] = None /\ builder[f] = BuilderDefault[f]
       \/ \E v \in Values[f] : asked[f] = Some(v) /\ builder[f] = Stored(f, v)

(* What build() takes from the fields.                                     *)
Built ==
  [f \in Fields |-> IF f \in Required THEN builder[f][1] ELSE builder[f]]

(* The builder is used up by build(), so its fields still tell the result. *)
ResultTracks ==
  \/ result = Unbuilt
  \/ result = Panic
  \/ result = Err /\ ~ValidRatio(builder.parity_ratio)
  \/ /\ result = Ok(Config(Built))
     /\ ValidRatio(builder.parity_ratio)
     /\ \A f \in Required : builder[f] # None

(* Packets are written for a Config, from values of the header's types.    *)
PacketsTrack ==
  \A p \in written :
    /\ result.kind = "ok"
    /\ p.header \in Headers /\ p.header.rendezvous = result.config.rendezvous_secs
    /\ p.tag \in Buffers(16) /\ p.payload \in Buffers(ShardSize)
    /\ p.nonce = DeriveNonce(p.header.session, p.header.index)
    /\ p.bytes = WritePacket(BuildAad(p.header), p.tag, p.payload)

InvocationInv == BuilderTracks /\ ResultTracks /\ PacketsTrack
-----------------------------------------------------------------------------
(* The results tell themselves apart by their kinds.                       *)
LEMMA Kinds ==
  /\ Unbuilt.kind = "unbuilt" /\ Err.kind = "InvalidParityRatio" /\ Panic.kind = "panic"
  /\ \A c : Ok(c).kind = "ok" /\ Ok(c).config = c
BY DEF Unbuilt, Err, Panic, Ok

(* A field of a builder that was called for is an Option with the last     *)
(* argument, a clamped percentage or the argument itself.                  *)
LEMMA StoredValue ==
  ASSUME BuilderTracks
  PROVE  /\ \A f \in Required : \/ asked[f] = None /\ builder[f] = None
                                \/ \E v \in Values[f] : asked[f] = Some(v) /\ builder[f] = Some(v)
         /\ \A f \in Required : builder[f] # None => /\ asked[f] # None
                                                    /\ builder[f][1] = asked[f][1]
                                                    /\ asked[f][1] \in Values[f]
         /\ builder.image = asked.image
         /\ builder.parity_ratio \in Nat /\ builder.chaos_drop \in 0..100
<1>1. \A v : Some(v) # None /\ Some(v)[1] = v
  BY DEF Some, None
<1>2. \A f \in Required : \/ asked[f] = None /\ builder[f] = None
                          \/ \E v \in Values[f] : asked[f] = Some(v) /\ builder[f] = Some(v)
  BY DEF BuilderTracks, Fields, Required, BuilderDefault, Stored
<1>3. builder.image = asked.image
  BY DEF BuilderTracks, Fields, Required, BuilderDefault, Stored
<1>4. builder.parity_ratio \in Nat
  BY InvocationAssumption DEF BuilderTracks, Fields, Required, BuilderDefault, Stored
<1>5. builder.chaos_drop \in 0..100
  BY InvocationAssumption DEF BuilderTracks, Fields, Required, BuilderDefault, Stored, Lesser
<1>6. QED
  BY <1>1, <1>2, <1>3, <1>4, <1>5

(* A new builder.                                                          *)
LEMMA InvocationInit ==
  Init => InvocationInv
BY DEF Init, InvocationInv, BuilderTracks, ResultTracks, PacketsTrack, Fields, Required,
       BuilderDefault

(* config.rs: a call of a setter.                                          *)
LEMMA SetStep ==
  ASSUME InvocationInv, Set
  PROVE  InvocationInv'
<1>1. PICK f \in Fields : \E v \in Values[f] :
        /\ builder' = [builder EXCEPT ![f] = Stored(f, v)]
        /\ asked' = [asked EXCEPT ![f] = Some(v)]
  BY DEF Set
<1>2. PICK v \in Values[f] :
        /\ builder' = [builder EXCEPT ![f] = Stored(f, v)]
        /\ asked' = [asked EXCEPT ![f] = Some(v)]
  BY <1>1
<1>3. result = Unbuilt /\ UNCHANGED <<result, written>>
  BY DEF Set
<1>4. DOMAIN builder = Fields /\ DOMAIN asked = Fields
  BY DEF InvocationInv, BuilderTracks
<1>5. /\ DOMAIN builder' = Fields /\ DOMAIN asked' = Fields
      /\ builder'[f] = Stored(f, v) /\ asked'[f] = Some(v)
      /\ \A g \in Fields : g # f => builder'[g] = builder[g] /\ asked'[g] = asked[g]
  BY <1>2, <1>4
<1>6. BuilderTracks'
  BY <1>5 DEF InvocationInv, BuilderTracks
<1>7. ResultTracks'
  BY <1>3 DEF ResultTracks
<1>8. PacketsTrack'
  BY <1>3, Kinds DEF InvocationInv, PacketsTrack
<1>9. QED
  BY <1>6, <1>7, <1>8 DEF InvocationInv

(* config.rs: build(), however it ends.                                    *)
LEMMA BuildStep ==
  ASSUME InvocationInv, BuildFails \/ BuildPanics \/ Build
  PROVE  InvocationInv'
<1>1. result = Unbuilt /\ UNCHANGED <<builder, asked, written>>
  BY DEF BuildFails, BuildPanics, Build
<1>2. BuilderTracks'
  BY <1>1 DEF InvocationInv, BuilderTracks
<1>3. ResultTracks'
  BY <1>1 DEF ResultTracks, BuildFails, BuildPanics, Build, Built
<1>4. written = {}
  BY <1>1, Kinds DEF InvocationInv, PacketsTrack
<1>5. PacketsTrack'
  BY <1>1, <1>4 DEF PacketsTrack
<1>6. QED
  BY <1>2, <1>3, <1>5 DEF InvocationInv

(* A Config is built from what was asked for, within its types.            *)
LEMMA ConfigTypes ==
  ASSUME InvocationInv, result.kind = "ok"
  PROVE  /\ result = Ok(Config(Built)) /\ result.config = Config(Built)
         /\ ValidRatio(builder.parity_ratio)
         /\ \A f \in Required : builder[f] # None
         /\ result.config.rendezvous_secs = asked.wake_at[1]
         /\ result.config.rendezvous_secs \in RendezvousSecs
<1>1. /\ result = Ok(Config(Built)) /\ ValidRatio(builder.parity_ratio)
      /\ \A f \in Required : builder[f] # None
  BY Kinds DEF InvocationInv, ResultTracks
<1>2. result.config = Config(Built)
  BY <1>1, Kinds
<1>3. result.config.rendezvous_secs = builder.wake_at[1]
  BY <1>2 DEF Config, Built, Required, Fields
<1>4. "wake_at" \in Required
  BY DEF Required
<1>5. builder.wake_at[1] = asked.wake_at[1] /\ asked.wake_at[1] \in Values.wake_at
  BY <1>1, <1>4, StoredValue DEF InvocationInv
<1>6. QED
  BY <1>1, <1>2, <1>3, <1>5, InvocationAssumption

(* sender.rs: a packet is written.                                         *)
LEMMA WriteStep ==
  ASSUME InvocationInv, Write
  PROVE  InvocationInv'
<1>1. /\ result.kind = "ok" /\ UNCHANGED <<builder, asked, result>>
  BY DEF Write
<1>2. PICK session \in Sessions :
        LET header  == [session |-> session.session, index |-> session.index,
                        data |-> session.data, parity |-> session.parity,
                        rendezvous |-> result.config.rendezvous_secs]
            tag     == [i \in 0..(TAG_SIZE - 1) |-> i % Byte]
            payload == [i \in 0..(ShardSize - 1) |-> (i + 1) % Byte]
        IN  written' = {[header |-> header, tag |-> tag, payload |-> payload,
                         nonce |-> DeriveNonce(header.session, header.index),
                         bytes |-> WritePacket(BuildAad(header), tag, payload)]}
  BY DEF Write
<1> DEFINE header  == [session |-> session.session, index |-> session.index,
                       data |-> session.data, parity |-> session.parity,
                       rendezvous |-> result.config.rendezvous_secs]
           tag     == [i \in 0..(TAG_SIZE - 1) |-> i % Byte]
           payload == [i \in 0..(ShardSize - 1) |-> (i + 1) % Byte]
<1>3. header \in Headers /\ header.rendezvous = result.config.rendezvous_secs
  BY <1>1, ConfigTypes, InvocationAssumption DEF Headers
<1>4. ASSUME NEW x \in Nat PROVE x % Byte \in 0..(Byte - 1)
  BY WireAssumption, Division
<1>5. tag \in Buffers(16) /\ payload \in Buffers(ShardSize)
  BY <1>4, WireAssumption DEF Buffers, TAG_SIZE
<1> HIDE DEF header, tag, payload
<1>6. written' = {[header |-> header, tag |-> tag, payload |-> payload,
                   nonce |-> DeriveNonce(header.session, header.index),
                   bytes |-> WritePacket(BuildAad(header), tag, payload)]}
  BY <1>2 DEF header, tag, payload
<1>7. PacketsTrack'
  BY <1>1, <1>3, <1>5, <1>6 DEF PacketsTrack
<1>8. BuilderTracks' /\ ResultTracks'
  BY <1>1 DEF InvocationInv, BuilderTracks, ResultTracks, Built
<1>9. QED
  BY <1>7, <1>8 DEF InvocationInv
-----------------------------------------------------------------------------
(* What is known of a builder, its result and its packets.                 *)
THEOREM InvocationInvariant == Spec => []InvocationInv
<1>1. InvocationInv /\ [Next]_vars => InvocationInv'
  <2> SUFFICES ASSUME InvocationInv, [Next]_vars PROVE InvocationInv'
    OBVIOUS
  <2>1. CASE UNCHANGED vars
    BY <2>1 DEF vars, InvocationInv, BuilderTracks, ResultTracks, PacketsTrack, Built
  <2>2. QED
    BY <2>1, SetStep, BuildStep, WriteStep DEF Next
<1>2. QED
  BY <1>1, InvocationInit, PTL DEF Spec

(* Both percentages of a Config are percentages.                           *)
THEOREM PercentagesInRange == Spec => []ConfigInRange
<1>1. InvocationInv => ConfigInRange
  <2> SUFFICES ASSUME InvocationInv, result.kind = "ok"
               PROVE  /\ result.config.parity_ratio \in 0..100
                      /\ result.config.chaos_drop \in 0..100
    BY DEF ConfigInRange
  <2>1. /\ result.config.parity_ratio = builder.parity_ratio
        /\ result.config.chaos_drop = builder.chaos_drop
    BY ConfigTypes DEF Config, Built, Required, Fields
  <2>2. builder.parity_ratio \in Nat /\ builder.chaos_drop \in 0..100
    BY StoredValue DEF InvocationInv
  <2>3. QED
    BY <2>1, <2>2, ConfigTypes DEF ValidRatio
<1>2. QED
  BY <1>1, InvocationInvariant, PTL

(* A packet reads back as it was put in, wake_at included.                 *)
THEOREM InvocationReadsBack == Spec => []PacketReadsBack
<1>1. InvocationInv => PacketReadsBack
  <2> SUFFICES ASSUME InvocationInv, NEW p \in written
               PROVE  /\ ReadHeader(p.bytes) = p.header
                      /\ p.header.rendezvous = asked.wake_at[1]
                      /\ ReadTag(p.bytes) = p.tag /\ ReadPayload(p.bytes) = p.payload
                      /\ DOMAIN p.bytes = 0..(28 + ShardSize - 1)
    BY DEF PacketReadsBack
  <2>1. /\ result.kind = "ok" /\ p.header \in Headers
        /\ p.header.rendezvous = result.config.rendezvous_secs
        /\ p.tag \in Buffers(16) /\ p.payload \in Buffers(ShardSize)
        /\ p.bytes = WritePacket(BuildAad(p.header), p.tag, p.payload)
    BY DEF InvocationInv, PacketsTrack
  <2>2. /\ p.bytes \in Buffers(28 + ShardSize) /\ ReadHeader(p.bytes) = p.header
        /\ ReadTag(p.bytes) = p.tag /\ ReadPayload(p.bytes) = p.payload
    BY <2>1, PacketsReadBack
  <2>3. DOMAIN p.bytes = 0..(28 + ShardSize - 1)
    <3>1. DOMAIN p.bytes = 0..((28 + ShardSize) - 1)
      BY <2>2, Zenon DEF Buffers
    <3>2. (28 + ShardSize) - 1 = 28 + ShardSize - 1
      BY WireAssumption
    <3>3. QED
      BY <3>1, <3>2
  <2>4. p.header.rendezvous = asked.wake_at[1]
    BY <2>1, ConfigTypes
  <2>5. QED
    BY <2>2, <2>3, <2>4
<1>2. QED
  BY <1>1, InvocationInvariant, PTL

(* The nonce is what the terminal derives from the packet.                 *)
THEOREM InvocationNonce == Spec => []NonceReadsBack
<1>1. InvocationInv => NonceReadsBack
  BY NonceIsDerivable DEF InvocationInv, PacketsTrack, NonceReadsBack
<1>2. QED
  BY <1>1, InvocationInvariant, PTL

(* Builder and command line agree, errors included.                        *)
THEOREM SameConfig == Spec => []WaysAgree
<1>1. InvocationInv => WaysAgree
  <2> SUFFICES ASSUME InvocationInv, result.kind \in {"ok", "InvalidParityRatio"},
                      \A f \in Required : asked[f] # None
               PROVE  result = TryFrom(Args)
    BY DEF WaysAgree
  <2> DEFINE args == [Args EXCEPT !.chaos_drop = Lesser(Args.chaos_drop, 100)]
  <2>1. Args.parity_ratio = builder.parity_ratio
    BY DEF InvocationInv, BuilderTracks, Args, ArgsDefault, BuilderDefault, Stored, Fields, Required,
           Some, None
  <2>2. CASE ~ValidRatio(builder.parity_ratio)
    BY <2>1, <2>2, Kinds DEF InvocationInv, ResultTracks, TryFrom
  <2>3. CASE ValidRatio(builder.parity_ratio)
    <3>1. result = Ok(Config(Built)) /\ TryFrom(Args) = Ok(Config(args))
      BY <2>1, <2>3, Kinds DEF InvocationInv, ResultTracks, TryFrom
    <3>2. \A f \in Required : Args[f] = asked[f][1] /\ Built[f] = builder[f][1]
      BY DEF Args, Built, Fields, Required
    <3>3. \A f \in Required : Args[f] = Built[f]
      BY <3>2, StoredValue DEF InvocationInv
    <3>4. /\ "target" \in Required /\ "wake_at" \in Required /\ "key_file" \in Required
          /\ Required \subseteq Fields
          /\ \A f \in Fields \ Required : Built[f] = builder[f]
          /\ DOMAIN Args = Fields
      BY DEF Required, Fields, Built, Args
    <3>5. ASSUME NEW f \in {"port", "delay_us", "chaos_burst", "chaos_shuffle"}
          PROVE  args[f] = Built[f]
      <4>1. f \in Fields \ Required /\ f # "chaos_drop" /\ f # "image"
        BY DEF Fields, Required
      <4>2. args[f] = Args[f]
        BY <3>4, <4>1
      <4>3. CASE asked[f] = None
        <5>1. Args[f] = ArgsDefault[f]
          BY <4>1, <4>3 DEF Args
        <5>2. builder[f] = BuilderDefault[f]
          <6>1. ~\E v \in Values[f] : asked[f] = Some(v)
            BY <4>3 DEF Some, None
          <6>2. QED
            BY <4>1, <6>1 DEF InvocationInv, BuilderTracks
        <5>3. ArgsDefault[f] = BuilderDefault[f]
          <6>1. /\ ArgsDefault.port = BuilderDefault.port
                /\ ArgsDefault.delay_us = BuilderDefault.delay_us
                /\ ArgsDefault.chaos_burst = BuilderDefault.chaos_burst
                /\ ArgsDefault.chaos_shuffle = BuilderDefault.chaos_shuffle
            BY DEF ArgsDefault, BuilderDefault
          <6>2. QED
            BY <6>1
        <5>4. QED
          BY <3>4, <4>1, <4>2, <5>1, <5>2, <5>3
      <4>4. CASE asked[f] # None
        <5>1. PICK v \in Values[f] : asked[f] = Some(v) /\ builder[f] = Stored(f, v)
          BY <4>1, <4>4 DEF InvocationInv, BuilderTracks
        <5>2. Args[f] = v
          BY <4>1, <4>4, <5>1 DEF Args, Some
        <5>3. builder[f] = v
          BY <4>1, <5>1 DEF Stored
        <5>4. QED
          BY <3>4, <4>1, <4>2, <5>2, <5>3
      <4>5. QED
        BY <4>3, <4>4
    <3>6. args.image = Built.image
      <4>1. args.image = Args.image /\ Built.image = builder.image
        BY <3>4 DEF Fields, Required
      <4>2. Args.image = asked.image
        BY DEF Args, Fields, ArgsDefault
      <4>3. QED
        BY <4>1, <4>2, StoredValue DEF InvocationInv
    <3>7. args.chaos_drop = Built.chaos_drop
      <4>1. args.chaos_drop = Lesser(Args.chaos_drop, 100) /\ Built.chaos_drop = builder.chaos_drop
        BY <3>4 DEF Fields, Required
      <4>2. CASE asked.chaos_drop = None
        <5>1. Args.chaos_drop = 0 /\ builder.chaos_drop = 0
          BY <4>2 DEF InvocationInv, BuilderTracks, Args, Some, None, Fields, ArgsDefault,
                      BuilderDefault
        <5>2. QED
          BY <4>1, <5>1 DEF Lesser
      <4>3. CASE asked.chaos_drop # None
        <5>1. PICK v \in Values.chaos_drop :
                asked.chaos_drop = Some(v) /\ builder.chaos_drop = Stored("chaos_drop", v)
          BY <4>3 DEF InvocationInv, BuilderTracks, Fields
        <5>2. Args.chaos_drop = v
          BY <4>3, <5>1 DEF Args, Some, Fields
        <5>3. builder.chaos_drop = Lesser(v, 100)
          BY <5>1 DEF Stored, Required
        <5>4. QED
          BY <4>1, <5>2, <5>3
      <4>4. QED
        BY <4>2, <4>3
    <3>8. /\ args.target = Built.target /\ args.wake_at = Built.wake_at
          /\ args.key_file = Built.key_file
          /\ args.parity_ratio = Built.parity_ratio
      <4>1. "parity_ratio" \in Fields \ Required /\ "chaos_drop" \notin Required
        BY DEF Fields, Required
      <4>2. \A f \in Fields : f # "chaos_drop" => args[f] = Args[f]
        BY <3>4
      <4>3. QED
        BY <2>1, <3>3, <3>4, <4>1, <4>2
    <3>9. args.port = Built.port /\ args.delay_us = Built.delay_us
          /\ args.chaos_burst = Built.chaos_burst /\ args.chaos_shuffle = Built.chaos_shuffle
      BY <3>5
    <3> HIDE DEF args
    <3>10. Config(args) = Config(Built)
      BY <3>6, <3>7, <3>8, <3>9 DEF Config
    <3>11. QED
      BY <3>1, <3>10
  <2>4. QED
    BY <2>2, <2>3
<1>2. QED
  BY <1>1, InvocationInvariant, PTL
=============================================================================
