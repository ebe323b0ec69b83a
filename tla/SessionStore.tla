---------------------------- MODULE SessionStore ----------------------------
(***************************************************************************)
(* session.rs: the counter file beside the PSK file, and the one           *)
(* operation on it, SessionIdStore::next, as the sequence of system calls  *)
(* it makes.  fs::read is one step; fs::write is two, because it opens the *)
(* file with O_TRUNC and only then writes the two bytes.  Each invocation  *)
(* of the program calls next once, so a run is a call.                     *)
(*                                                                         *)
(* Nothing in the code excludes a second run, nothing calls fsync, and a   *)
(* process may be killed between any two steps.  SerialRuns and            *)
(* PowerLossPossible say which of these the environment does.              *)
(***************************************************************************)
EXTENDS Integers

CONSTANTS
  Runs,               \* the invocations of the sender
  U16Max,             \* u16::MAX
  SerialRuns,         \* TRUE: the operator never overlaps two runs
  PowerLossPossible   \* TRUE: the host may lose what was not written back

ASSUME StoreAssumption ==
  /\ U16Max \in Nat \ {0}
  /\ SerialRuns \in BOOLEAN
  /\ PowerLossPossible \in BOOLEAN

VARIABLES
  file,   \* the counter file as processes see it (page cache)
  disk,   \* the counter file as it survives a power loss
  pc,     \* where each run is in SessionIdStore::next
  next,   \* next_raw of each run: the id it computed, 0 before
  base    \* history: the file as the first run found it

vars == <<file, disk, pc, next, base>>
-----------------------------------------------------------------------------
(* File contents.  The code tells apart a missing file, one whose length   *)
(* is not 2, and a 2-byte big-endian value.                                *)
Absent    == [kind |-> "absent", id |-> 0]
Malformed == [kind |-> "malformed", id |-> 0]
Stored(n) == [kind |-> "stored", id |-> n]

Contents == {Absent, Malformed} \cup {Stored(n) : n \in 0..U16Max}

Errors == {"InvalidSessionFile", "SessionIdOverflow", "Io"}

(* "reading": about to fs::read; "computed": next_raw is known;            *)
(* "created": the file is open and truncated, the bytes are not written.   *)
Live   == {"reading", "computed", "created"}
Final  == {"ok", "crashed"} \cup Errors

(* The counter file always is one of the three contents the code tells     *)
(* apart, and next_raw never leaves u16.                                   *)
TypeOK ==
  /\ file \in Contents
  /\ disk \in Contents
  /\ base \in Contents
  /\ pc \in [Runs -> {"idle"} \cup Live \cup Final]
  /\ next \in [Runs -> 0..U16Max]

Init ==
  /\ base \in Contents
  /\ file = base
  /\ disk = base
  /\ pc = [r \in Runs |-> "idle"]
  /\ next = [r \in Runs |-> 0]
-----------------------------------------------------------------------------
Step(r, from, to) ==
  /\ pc[r] = from
  /\ pc' = [pc EXCEPT ![r] = to]

Call(r) ==
  /\ SerialRuns => \A q \in Runs : pc[q] \notin Live
  /\ Step(r, "idle", "reading")
  /\ UNCHANGED <<file, disk, next, base>>

(* Faults the runs are tried on: no length check, no overflow check,       *)
(* wrapping_add, the increment forgotten.                                  *)
AnyLength(content) == TRUE
Unchecked(n) == TRUE
WrappingSuccessor(content) ==
  IF content = Absent THEN 1 ELSE (content.id + 1) % (U16Max + 1)
SameAgain(content) == IF content = Absent THEN 1 ELSE content.id

(* bytes.len() == 2; a file that is not there is fine.                     *)
Readable(content) == content # Malformed

(* checked_add succeeds.                                                   *)
FitsU16(n) == n <= U16Max

(* One more than the file holds, or 1 when there is no file yet.           *)
Successor(content) == IF content = Absent THEN 1 ELSE content.id + 1

ReadAndIncrement(r) ==
  /\ Readable(file)
  /\ FitsU16(Successor(file))
  /\ Step(r, "reading", "computed")
  /\ next' = [next EXCEPT ![r] = Successor(file)]
  /\ UNCHANGED <<file, disk, base>>

(* Fault: wait for another run to finish its write.                        *)
AwaitReadable(r) == ~Readable(file) /\ pc[r] = "reading" /\ UNCHANGED vars

RejectMalformed(r) ==
  /\ ~Readable(file)
  /\ Step(r, "reading", "InvalidSessionFile")
  /\ UNCHANGED <<file, disk, next, base>>

RejectOverflow(r) ==
  /\ Readable(file)
  /\ ~FitsU16(Successor(file))
  /\ Step(r, "reading", "SessionIdOverflow")
  /\ UNCHANGED <<file, disk, next, base>>

(* fs::write, first half: open(O_WRONLY | O_CREAT | O_TRUNC).              *)
CreateFile(r) ==
  /\ Step(r, "computed", "created")
  /\ file' = Malformed
  /\ UNCHANGED <<disk, next, base>>

(* fs::write, second half: both bytes, then next returns the id.           *)
WriteId(r) ==
  /\ Step(r, "created", "ok")
  /\ file' = Stored(next[r])
  /\ UNCHANGED <<disk, next, base>>

(* The read, the open or the write fails; what was done to the file stays. *)
IoError(r) ==
  /\ pc[r] \in Live
  /\ pc' = [pc EXCEPT ![r] = "Io"]
  /\ UNCHANGED <<file, disk, next, base>>

Progress(r) ==
  \/ ReadAndIncrement(r)
  \/ RejectMalformed(r)
  \/ RejectOverflow(r)
  \/ CreateFile(r)
  \/ WriteId(r)

NextId(r) == Progress(r) \/ IoError(r)

(* The process is killed.                                                  *)
Crash(r) ==
  /\ pc[r] \in Live
  /\ pc' = [pc EXCEPT ![r] = "crashed"]
  /\ UNCHANGED <<file, disk, next, base>>

(* The kernel writes the cached file back.  Never ordered by the code.     *)
WriteBack ==
  /\ PowerLossPossible
  /\ disk # file
  /\ disk' = file
  /\ UNCHANGED <<file, pc, next, base>>

PowerLoss ==
  /\ PowerLossPossible
  /\ file' = disk
  /\ pc' = [r \in Runs |-> IF pc[r] \in Live THEN "crashed" ELSE pc[r]]
  /\ UNCHANGED <<disk, next, base>>

Next ==
  \/ \E r \in Runs : Call(r) \/ NextId(r) \/ Crash(r)
  \/ WriteBack
  \/ PowerLoss

Spec == Init /\ [][Next]_vars

(* The operating system keeps scheduling a run that is not killed.  That   *)
(* anyone starts a run, that the kernel writes back, or that a system call *)
(* fails, is not assumed.                                                  *)
Fairness == \A r \in Runs : WF_vars(Progress(r))

FairSpec == Spec /\ Fairness
-----------------------------------------------------------------------------
Issued(r) == pc[r] = "ok"

(* No two runs ever obtain the same id: the nonce of a packet is its       *)
(* session id and shard index, so a second run with the same id repeats    *)
(* nonces under the same key.  Needs every run to see the id the previous  *)
(* one stored, across crashes, failed writes and an overflowing counter.   *)
UniqueIds ==
  \A r, q \in Runs : Issued(r) /\ Issued(q) /\ r # q => next[r] # next[q]

(* Every id obtained follows one that was obtained before it, or the value *)
(* the file held at first: whatever runs overlap, fail, crash or lose      *)
(* power, the counter never wraps and never passes over an id.  It may go  *)
(* back: a power loss brings older content back, or the absence of a file  *)
(* that was not there at first, and with it ids already given out.         *)
Origin == {n \in 0..U16Max : base = Stored(n) \/ (base = Absent /\ n = 0)}

ReachedIds == Origin \cup {next[q] : q \in {r \in Runs : Issued(r)}}

NoSkippedId == \A r \in Runs : Issued(r) => next[r] - 1 \in ReachedIds

(* A counter torn by a death between truncation and write is never         *)
(* silently reset (error.rs, InvalidSessionFile): once the file is         *)
(* malformed and no run still carries an id it computed from a good value, *)
(* it stays so and no run computes an id again.  Only a power loss, which  *)
(* may bring back the content from before the truncation, ends this.       *)
Torn ==
  /\ file = Malformed
  /\ \A r \in Runs : pc[r] \notin {"computed", "created"}

TornStaysTorn == [][Torn => Torn' \/ PowerLoss]_vars

(* Whatever the file holds and whatever fails, a call returns an id or an  *)
(* error, unless its process is killed.                                    *)
CallReturns == \A r \in Runs : pc[r] = "reading" ~> pc[r] \in Final

Counter == INSTANCE SessionCounter
             WITH issued <- [r \in Runs |-> IF Issued(r) THEN next[r] ELSE 0]

(* The ids obtained by serial runs are those of an atomic counter: the     *)
(* three system calls of next take effect together, in its last one.       *)
ImplementsCounter == Counter!Spec
=============================================================================
