-------------------------------- MODULE Fiudp --------------------------------
(***************************************************************************)
(* lib.rs, run: whole invocations of the sender, on the host they share.   *)
(* A run loads the key, takes a session id (SessionStore), opens a socket, *)
(* prepares its frame and transmits; which shards it transmits, and in     *)
(* which order, is left open here and is the subject of Burst.             *)
(*                                                                         *)
(* The operator replaces the key file in place, at any time, as the README *)
(* shows it (dd if=/dev/urandom of=psk.bin), and may remove the counter    *)
(* file, at any time too (ResetsCounter).  Nothing in the code ties the    *)
(* counter to the key it counts for, so a removal while a key is in use    *)
(* lets its ids come again: the properties of the wire promise nothing of  *)
(* the runs this concerns (stray), and everything of all others.           *)
(*                                                                         *)
(* A run carries one frame, so the run names the frame.                    *)
(***************************************************************************)
EXTENDS Integers, FiniteSets

CONSTANTS
  Runs, U16Max, SerialRuns,   \* see SessionStore
  Keys,            \* 32-byte keys the operator may provision
  Indices,         \* shard indices a frame may have
  ResetsCounter    \* TRUE: the operator may remove the counter file

NoKey == "no key"   \* the key file while it is truncated, or a run with no key

ASSUME FiudpAssumption ==
  /\ U16Max \in Nat \ {0}
  /\ SerialRuns \in BOOLEAN
  /\ Indices \subseteq 0..U16Max
  /\ NoKey \notin Keys
  /\ ResetsCounter \in BOOLEAN

VARIABLES
  file, disk, pc, next, base,   \* see SessionStore
  keyFile,   \* what the key file holds
  retired,   \* history: the keys it held before
  stage,     \* the next statement of each run's run(), or how it returned
  key,       \* the key each run loaded
  wire,      \* history: every packet a socket took
  orphan,    \* the runs whose open counter file was removed
  exposed,   \* history: the keys in use when a counter was removed
  stray      \* history: the runs that read the counter with such a key

storeVars == <<file, disk, pc, next, base>>
resetVars == <<orphan, exposed, stray>>
vars == <<file, disk, pc, next, base, keyFile, retired, stage, key, wire, orphan, exposed, stray>>

(* Loss of power is the subject of SessionStore alone.                     *)
Store == INSTANCE SessionStore WITH PowerLossPossible <- FALSE
-----------------------------------------------------------------------------
PrepareErrors == {"EmptyInput", "TooManyShards", "Fec", "Encryption"}

Errors == Store!Errors \cup PrepareErrors \cup {"InvalidKeyLength", "ShortSend"}
Live   == {"load_key", "next", "socket", "read", "prepare", "transmit"}
Final  == {"ok", "crashed"} \cup Errors

(* Fault: a key taken from the file whatever its length.                   *)
AnyKey(content) == TRUE

(* derive_nonce: both halves come from the header, the rest is zero.       *)
Nonce(packet) == <<packet.session, packet.index>>

(* bytes.len() == 32.                                                      *)
WholeKey(content) == content # NoKey

Packets == [key: Keys, session: 0..U16Max, index: Indices, frame: Runs]

(* No run holds a part of a key, and every packet was sealed with a whole  *)
(* key under a session id and index within u16.                            *)
TypeOK ==
  /\ Store!TypeOK
  /\ keyFile \in Keys \cup {NoKey}
  /\ retired \subseteq Keys
  /\ stage \in [Runs -> {"start"} \cup Live \cup Final]
  /\ key \in [Runs -> Keys \cup {NoKey}]
  /\ wire \subseteq Packets
  /\ orphan \subseteq Runs
  /\ exposed \subseteq Keys
  /\ stray \subseteq Runs

Init ==
  /\ Store!Init
  /\ keyFile \in Keys
  /\ retired = {}
  /\ stage = [r \in Runs |-> "start"]
  /\ key = [r \in Runs |-> NoKey]
  /\ wire = {}
  /\ orphan = {}
  /\ exposed = {}
  /\ stray = {}
-----------------------------------------------------------------------------
Goto(r, from, to) ==
  /\ stage[r] = from
  /\ stage' = [stage EXCEPT ![r] = to]

Start(r) ==
  /\ SerialRuns => \A q \in Runs : stage[q] \notin Live
  /\ Goto(r, "start", "load_key")
  /\ UNCHANGED <<storeVars, keyFile, retired, key, wire, resetVars>>

(* read_key, then the call of SessionIdStore::next.                        *)
LoadKey(r) ==
  /\ WholeKey(keyFile)
  /\ Goto(r, "load_key", "next")
  /\ key' = [key EXCEPT ![r] = keyFile]
  /\ Store!Call(r)
  /\ UNCHANGED <<keyFile, retired, wire, resetVars>>

(* Fault: wait until the operator has written the key.                     *)
AwaitKey(r) == ~WholeKey(keyFile) /\ stage[r] = "load_key" /\ UNCHANGED vars

RejectKey(r) ==
  /\ ~WholeKey(keyFile)
  /\ Goto(r, "load_key", "InvalidKeyLength")
  /\ UNCHANGED <<storeVars, keyFile, retired, key, wire, resetVars>>

LoadKeyFails(r) ==
  /\ Goto(r, "load_key", "Io")
  /\ UNCHANGED <<storeVars, keyFile, retired, key, wire, resetVars>>

(* The bytes of the id go to the file opened, which is no longer there.    *)
WriteUnlinked(r) ==
  /\ Store!Step(r, "created", "ok")
  /\ UNCHANGED <<file, disk, next, base>>

(* One step inside SessionIdStore::next; its error is run's error.         *)
NextSession(r) ==
  /\ stage[r] = "next"
  /\ IF r \in orphan THEN WriteUnlinked(r) ELSE Store!Progress(r)
  /\ stray' = stray \cup {q \in {r} : pc[q] = "reading" /\ key[q] \in exposed}
  /\ stage' = [stage EXCEPT ![r] =
                 IF pc'[r] = "ok" THEN "socket"
                 ELSE IF pc'[r] \in Store!Errors THEN pc'[r] ELSE "next"]
  /\ UNCHANGED <<keyFile, retired, key, wire, orphan, exposed>>

NextSessionFails(r) ==
  /\ Goto(r, "next", "Io")
  /\ Store!IoError(r)
  /\ UNCHANGED <<keyFile, retired, key, wire, resetVars>>

(* UdpPacketSender::new.                                                   *)
OpenSocket(r) ==
  /\ \E to \in {"read", "Io"} : Goto(r, "socket", to)
  /\ UNCHANGED <<storeVars, keyFile, retired, key, wire, resetVars>>

(* FiudpSender::send first reads the frame; from stdin, when the program   *)
(* upstream closes the pipe.                                               *)
ReadFrame(r) ==
  /\ \E to \in {"prepare", "Io"} : Goto(r, "read", to)
  /\ UNCHANGED <<storeVars, keyFile, retired, key, wire, resetVars>>

(* FiudpSender::send from there up to its transmit loop.                   *)
Prepare(r) ==
  /\ \E to \in {"transmit"} \cup PrepareErrors : Goto(r, "prepare", to)
  /\ UNCHANGED <<storeVars, keyFile, retired, key, wire, resetVars>>

(* Fault: the key is read again when a shard is encrypted, if it is whole. *)
FreshKeyPacket(r, i) ==
  [key |-> IF WholeKey(keyFile) THEN keyFile ELSE key[r], session |-> next[r], index |-> i,
   frame |-> r]

(* write_packet, for the run's frame.                                      *)
Packet(r, i) == [key |-> key[r], session |-> next[r], index |-> i, frame |-> r]

Transmit(r) ==
  /\ stage[r] = "transmit"
  /\ \E i \in Indices :
       /\ Packet(r, i) \notin wire
       /\ wire' = wire \cup {Packet(r, i)}
  /\ UNCHANGED <<storeVars, keyFile, retired, stage, key, resetVars>>

(* Return, or give the rest of the burst up.                               *)
Return(r) ==
  /\ \E to \in {"ok", "Io", "ShortSend"} : Goto(r, "transmit", to)
  /\ UNCHANGED <<storeVars, keyFile, retired, key, wire, resetVars>>

Progress(r) ==
  \/ LoadKey(r) \/ RejectKey(r)
  \/ NextSession(r)
  \/ OpenSocket(r)
  \/ Prepare(r)
  \/ Transmit(r) \/ Return(r)

Run(r) == Progress(r) \/ LoadKeyFails(r) \/ NextSessionFails(r) \/ ReadFrame(r)

(* The process is killed.                                                  *)
Crash(r) ==
  /\ stage[r] \in Live
  /\ stage' = [stage EXCEPT ![r] = "crashed"]
  /\ IF stage[r] = "next" THEN Store!Crash(r) ELSE UNCHANGED storeVars
  /\ UNCHANGED <<keyFile, retired, key, wire, resetVars>>
-----------------------------------------------------------------------------
(* The operator: truncate the key file, write a key never used before, and *)
(* remove the counter file, in any order and at any moment of a run.       *)
TruncateKey ==
  /\ keyFile # NoKey
  /\ keyFile' = NoKey
  /\ retired' = retired \cup {keyFile}
  /\ UNCHANGED <<storeVars, stage, key, wire, resetVars>>

(* A run may still read the counter with this key.                         *)
InUse(k) == k = keyFile \/ \E r \in Runs : pc[r] = "reading" /\ key[r] = k

(* unlink: a run that has the file open keeps writing to it.               *)
RemoveCounter ==
  /\ ResetsCounter
  /\ file # Store!Absent
  /\ file' = Store!Absent
  /\ disk' = Store!Absent
  /\ orphan' = orphan \cup {r \in Runs : pc[r] = "created"}
  /\ exposed' = exposed \cup {k \in Keys : InUse(k)}
  /\ UNCHANGED <<pc, next, base, keyFile, retired, stage, key, wire, stray>>

WriteKey ==
  /\ keyFile = NoKey
  /\ keyFile' \in Keys \ retired
  /\ UNCHANGED <<storeVars, retired, stage, key, wire, resetVars>>

Next ==
  \/ \E r \in Runs : Start(r) \/ Run(r) \/ Crash(r)
  \/ TruncateKey \/ RemoveCounter \/ WriteKey

Spec == Init /\ [][Next]_vars

(* The operating system keeps scheduling a run that is not killed.  The    *)
(* operator need not do anything, so a truncated key may stay truncated;   *)
(* and the program upstream need not close the pipe (ReadFrame).           *)
Fairness == \A r \in Runs : WF_vars(Progress(r))

FairSpec == Spec /\ Fairness
-----------------------------------------------------------------------------
(* What is promised: not the packets of a run that read the counter with a *)
(* key that was in use when a counter was removed.  Such a run repeats ids *)
(* of its key, and no statement of the code prevents it.                   *)
Promised == {p \in wire : p.frame \notin stray}

(* No two packets under one key share a nonce (SPEC.md 4), across runs     *)
(* that fail or are killed anywhere, keys replaced and counters removed at *)
(* any moment of a run: also a run that has its id when the counter goes,  *)
(* one that is writing it, and those with a key first used since.          *)
NonceOnce ==
  \A p, q \in Promised : p.key = q.key /\ Nonce(p) = Nonce(q) => p = q

(* All packets of a session belong to one frame, so that the receiver,     *)
(* which groups shards by session id, never mixes two frames' shards.      *)
SessionIsOneFrame ==
  \A p, q \in Promised :
    p.key = q.key /\ p.session = q.session => p.frame = q.frame

(* Under a key, session ids never go down on the wire: the receiver drops  *)
(* a session at or below the last it accepted as a replay (SPEC.md 3.5).   *)
WireOrder ==
  [][\A p \in Promised' \ Promised, q \in Promised :
       p.key = q.key => q.session <= p.session]_vars

Contract == INSTANCE Transmission WITH
              Frames <- Runs,
              Shards <- [r \in Runs |-> Indices],
              wire   <- Promised

(* The host keeps the sender's promise to the network (Transmission): what *)
(* a terminal may rely on, whatever fails, and whenever keys are replaced  *)
(* and counters removed, of all packets but those of stray runs.           *)
ImplementsTransmission == Contract!Spec

(* A run ends or waits for its input, whatever fails and whatever the      *)
(* operator does meanwhile: the input alone can keep it, with its session  *)
(* id already consumed (lib.rs:199, sender.rs:202).                        *)
RunEnds == \A r \in Runs : stage[r] \in Live ~> stage[r] \in Final \cup {"read"}

(* lib.rs:169-170 reads the frame first and advances the counter second:   *)
(* a run that finds its input empty has not consumed a session id.         *)
EmptyInputKeepsCounter ==
  \A r \in Runs : stage[r] = "EmptyInput" => ~Store!Issued(r)

(* error.rs:59-61 says of an overflow: rotate the PSK and reset the        *)
(* receiver before continuing.  A run whose key has sealed no packet and   *)
(* given no session would then not meet the overflow again.                *)
RotationClearsOverflow ==
  \A r \in Runs :
    stage[r] = "SessionIdOverflow" /\ retired # {} /\ key[r] \notin retired =>
      \E q \in Runs : Store!Issued(q) /\ key[q] = key[r]
=============================================================================
