----------------------------- MODULE Invocation -----------------------------
(***************************************************************************)
(* How an invocation's options become the bytes of its packets: the two    *)
(* ways to a Config (config.rs), from clap's Args and by a chain of calls  *)
(* on ConfigBuilder, and the header that carries wake_at to the terminal   *)
(* (protocol.rs).                                                          *)
(*                                                                         *)
(* A caller of the builder sets fields in any order and repeatedly, then   *)
(* builds.  asked records the same options as a command line would give    *)
(* them, and the two ways are compared.  Flags and fields go by the names  *)
(* of the builder's methods; an Option is a sequence of at most one value. *)
(***************************************************************************)
EXTENDS Wire

CONSTANTS
  Values,     \* for each field, the arguments callers give
  Sessions    \* the fields of a header that are not configured

(* Of the types of the arguments, those that matter: the u8s and u32 of    *)
(* the options and the newtypes of the header.                             *)
ASSUME InvocationAssumption ==
  /\ Values.wake_at \subseteq RendezvousSecs
  /\ Values.parity_ratio \subseteq Nat /\ Values.chaos_drop \subseteq Nat
  /\ Sessions \subseteq [session: SessionId, index: ShardIndex, data: DataShardCount,
                        parity: ParityShardCount]

VARIABLES
  builder,    \* the ConfigBuilder
  asked,      \* history: the last argument given for each field
  result,     \* what build() returned, or how it ended
  written     \* the packet write_packet was last called for, and its bytes

vars == <<builder, asked, result, written>>
-----------------------------------------------------------------------------
Required == {"target", "wake_at", "key_file"}

Fields ==
  Required \cup {"image", "parity_ratio", "port", "delay_us", "chaos_drop", "chaos_burst",
                 "chaos_shuffle"}

None    == <<>>
Some(v) == <<v>>

Lesser(a, b) == IF a < b THEN a ELSE b

(* What Args has for a flag that is not given (an attribute of each field) *)
(* and ConfigBuilder::default() for a field that is not set.               *)
ArgsDefault ==
  [image |-> None, parity_ratio |-> 15, port |-> 5050, delay_us |-> 500,
   chaos_drop |-> 0, chaos_burst |-> 0, chaos_shuffle |-> FALSE]

BuilderDefault ==
  [target |-> None, wake_at |-> None, key_file |-> None, image |-> None,
   parity_ratio |-> 15, port |-> 5050, delay_us |-> 500,
   chaos_drop |-> 0, chaos_burst |-> 0, chaos_shuffle |-> FALSE]

(* Faults the run is tried on: a setter that stores what it is given, and  *)
(* a ratio that is not checked.                                            *)
StoredAsGiven(f, v) == IF f \in Required \cup {"image"} THEN Some(v) ELSE v
AnyRatio(percent) == TRUE

(* The setters of ConfigBuilder; chaos_drop clamps.                        *)
Stored(f, v) ==
  IF f \in Required \cup {"image"} THEN Some(v)
  ELSE IF f = "chaos_drop" THEN Lesser(v, 100) ELSE v

(* ParityRatio::try_from.                                                  *)
ValidRatio(percent) == percent <= 100

Config(options) ==
  [target_ip |-> options.target, rendezvous_secs |-> options.wake_at,
   key_path |-> options.key_file, input |-> IF options.image = None THEN "stdin" ELSE options.image,
   parity_ratio |-> options.parity_ratio, target_port |-> options.port,
   delay |-> options.delay_us, chaos_drop |-> options.chaos_drop,
   chaos_burst |-> options.chaos_burst, chaos_shuffle |-> options.chaos_shuffle]

Unbuilt    == [kind |-> "unbuilt"]
Ok(config) == [kind |-> "ok", config |-> config]
Err        == [kind |-> "InvalidParityRatio"]
Panic      == [kind |-> "panic"]

(* Args as clap parses it from the same options.                           *)
Args ==
  [f \in Fields |-> IF asked[f] = None THEN ArgsDefault[f]
                    ELSE IF f = "image" THEN asked[f] ELSE asked[f][1]]

(* Config::try_from(Args).                                                 *)
TryFrom(args) ==
  IF ~ValidRatio(args.parity_ratio) THEN Err
  ELSE Ok(Config([args EXCEPT !.chaos_drop = Lesser(args.chaos_drop, 100)]))
-----------------------------------------------------------------------------
Init ==
  /\ builder = BuilderDefault
  /\ asked = [f \in Fields |-> None]
  /\ result = Unbuilt
  /\ written = {}

Set ==
  /\ result = Unbuilt
  /\ \E f \in Fields : \E v \in Values[f] :
       /\ builder' = [builder EXCEPT ![f] = Stored(f, v)]
       /\ asked' = [asked EXCEPT ![f] = Some(v)]
  /\ UNCHANGED <<result, written>>

(* The ratio is looked at before the required fields.                      *)
BuildFails ==
  /\ result = Unbuilt
  /\ ~ValidRatio(builder.parity_ratio)
  /\ result' = Err
  /\ UNCHANGED <<builder, asked, written>>

BuildPanics ==
  /\ result = Unbuilt
  /\ ValidRatio(builder.parity_ratio)
  /\ \E f \in Required : builder[f] = None
  /\ result' = Panic
  /\ UNCHANGED <<builder, asked, written>>

Build ==
  /\ result = Unbuilt
  /\ ValidRatio(builder.parity_ratio)
  /\ \A f \in Required : builder[f] # None
  /\ result' = Ok(Config([f \in Fields |-> IF f \in Required THEN builder[f][1]
                                           ELSE builder[f]]))
  /\ UNCHANGED <<builder, asked, written>>

(* run(config), as far as a packet's bytes are concerned.                  *)
Write ==
  /\ result.kind = "ok"
  /\ \E session \in Sessions :
       LET header  == [session |-> session.session, index |-> session.index,
                       data |-> session.data, parity |-> session.parity,
                       rendezvous |-> result.config.rendezvous_secs]
           tag     == [i \in 0..(TAG_SIZE - 1) |-> i % Byte]
           payload == [i \in 0..(ShardSize - 1) |-> (i + 1) % Byte]
       IN  written' = {[header |-> header, tag |-> tag, payload |-> payload,
                        nonce |-> DeriveNonce(header.session, header.index),
                        bytes |-> WritePacket(BuildAad(header), tag, payload)]}
  /\ UNCHANGED <<builder, asked, result>>

Next == Set \/ BuildFails \/ BuildPanics \/ Build \/ Write

Spec == Init /\ [][Next]_vars
-----------------------------------------------------------------------------
(* Both percentages of a Config are percentages, as the pipeline takes for *)
(* granted, whatever u8 was asked for.                                     *)
ConfigInRange ==
  result.kind = "ok" =>
    result.config.parity_ratio \in 0..100 /\ result.config.chaos_drop \in 0..100

(* The builder, whatever the order and repetition of the calls, yields     *)
(* what the command line yields for the same options, errors included,     *)
(* although each way has its own defaults and clamps at another moment.    *)
WaysAgree ==
  result.kind \in {"ok", "InvalidParityRatio"} /\ (\A f \in Required : asked[f] # None) =>
    result = TryFrom(Args)

(* What the terminal reads from a packet, at the offsets of SPEC.md 3.4,   *)
(* is what the sender put in, the wake_at the caller asked for included,   *)
(* and every byte of the packet belongs to what it reads.                  *)
PacketReadsBack ==
  \A p \in written :
    /\ ReadHeader(p.bytes) = p.header
    /\ p.header.rendezvous = asked.wake_at[1]
    /\ ReadTag(p.bytes) = p.tag /\ ReadPayload(p.bytes) = p.payload
    /\ DOMAIN p.bytes = 0..(28 + ShardSize - 1)

(* The nonce, which is not in the packet, is what the terminal derives     *)
(* from the packet: crypto.rs and protocol.rs each have their own offsets. *)
NonceReadsBack == \A p \in written : ReadNonce(p.bytes) = p.nonce
=============================================================================
