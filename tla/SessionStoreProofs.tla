------------------------- MODULE SessionStoreProofs -------------------------
(***************************************************************************)
(* Proofs about SessionStore, for every set of runs and every U16Max.      *)
(* TypeOK and NoSkippedId hold in every environment; what needs serial     *)
(* runs or a host that keeps its files says so as a hypothesis.            *)
(***************************************************************************)
EXTENDS SessionStore, TLAPS

(* Every content the counter file can have, now or after a power loss: it  *)
(* is malformed, it holds an id reached by counting up, or it is absent    *)
(* because it was from the first.                                          *)
Countable ==
  {Malformed} \cup {Stored(n) : n \in ReachedIds}
              \cup (IF base = Absent THEN {Absent} ELSE {})

HasId == {"computed", "created", "ok"}

CountInv ==
  /\ file \in Countable
  /\ disk \in Countable
  /\ \A r \in Runs : pc[r] \in HasId => next[r] >= 1 /\ next[r] - 1 \in ReachedIds

(* With serial runs and no power loss: one run at a time is inside next,   *)
(* the id it carries is the successor of what the file held, and no id     *)
(* obtained so far is above the file's value.                              *)
OneLive == \A r, q \in Runs : pc[r] \in Live /\ pc[q] \in Live => r = q

FileBoundsIds ==
  \A r \in Runs : Issued(r) => file # Absent /\ (file.kind = "stored" => next[r] <= file.id)

CarriedIdIsFresh ==
  \A r \in Runs :
    /\ pc[r] = "computed" => file # Malformed /\ next[r] = Successor(file)
    /\ pc[r] = "created" => file = Malformed
    /\ pc[r] \in {"computed", "created"} =>
         /\ next[r] >= 1
         /\ \A q \in Runs : Issued(q) => next[q] < next[r]

SerialInv == OneLive /\ FileBoundsIds /\ CarriedIdIsFresh /\ UniqueIds
-----------------------------------------------------------------------------
(* No step of a call or of its environment leaves the types.               *)
LEMMA TypeStep ==
  ASSUME TypeOK, [Next]_vars
  PROVE  TypeOK'
<1> USE StoreAssumption DEF TypeOK, Step, Live, Final, Errors, Contents
<1>1. ASSUME NEW r \in Runs, Call(r) PROVE TypeOK'
  BY <1>1 DEF Call
<1>2. ASSUME NEW r \in Runs, ReadAndIncrement(r) PROVE TypeOK'
  <2>1. Successor(file) \in 0..U16Max
    BY <1>2 DEF ReadAndIncrement, FitsU16, Successor, Absent, Malformed, Stored
  <2>2. QED
    BY <1>2, <2>1 DEF ReadAndIncrement
<1>3. ASSUME NEW r \in Runs, RejectMalformed(r) PROVE TypeOK'
  BY <1>3 DEF RejectMalformed
<1>4. ASSUME NEW r \in Runs, RejectOverflow(r) PROVE TypeOK'
  BY <1>4 DEF RejectOverflow
<1>5. ASSUME NEW r \in Runs, CreateFile(r) PROVE TypeOK'
  BY <1>5 DEF CreateFile
<1>6. ASSUME NEW r \in Runs, WriteId(r) PROVE TypeOK'
  BY <1>6 DEF WriteId
<1>7. ASSUME NEW r \in Runs, IoError(r) PROVE TypeOK'
  BY <1>7 DEF IoError
<1>8. ASSUME NEW r \in Runs, Crash(r) PROVE TypeOK'
  BY <1>8 DEF Crash
<1>9. CASE WriteBack
  BY <1>9 DEF WriteBack
<1>10. CASE PowerLoss
  BY <1>10 DEF PowerLoss
<1>11. CASE UNCHANGED vars
  BY <1>11 DEF vars
<1>12. QED
  BY <1>1, <1>2, <1>3, <1>4, <1>5, <1>6, <1>7, <1>8, <1>9, <1>10, <1>11
  DEF Next, NextId, Progress

(* Every variable of the counter keeps its type: ids stay within u16 since *)
(* the increment is checked.                                               *)
THEOREM TypeCorrect == Spec => []TypeOK
<1>1. Init => TypeOK
  BY StoreAssumption DEF Init, TypeOK
<1>2. TypeOK /\ [Next]_vars => TypeOK'
  BY TypeStep
<1>3. QED
  BY <1>1, <1>2, PTL DEF Spec
-----------------------------------------------------------------------------
(* An id once obtained stays obtained, so what was reached stays reached.  *)
LEMMA ReachedGrows ==
  ASSUME TypeOK, [Next]_vars
  PROVE  base' = base /\ ReachedIds \subseteq ReachedIds' /\ Countable \subseteq Countable'
<1>1. \A q \in Runs : Issued(q) => Issued(q)' /\ next'[q] = next[q]
  BY DEF TypeOK, Next, NextId, Progress, vars, Call, ReadAndIncrement, RejectMalformed,
         RejectOverflow, CreateFile, WriteId, IoError, Crash, WriteBack,
         PowerLoss, Step, Live, Issued
<1>2. base' = base
  BY DEF Next, NextId, Progress, vars, Call, ReadAndIncrement, RejectMalformed,
         RejectOverflow, CreateFile, WriteId, IoError, Crash, WriteBack, PowerLoss
<1>3. ReachedIds \subseteq ReachedIds'
  BY <1>1, <1>2 DEF ReachedIds, Origin
<1>4. QED
  BY <1>2, <1>3 DEF Countable

(* No step gives the file, or a run, a value that was not counted up to.   *)
LEMMA CountStep == TypeOK /\ CountInv /\ [Next]_vars => CountInv'
<1> SUFFICES ASSUME TypeOK, CountInv, [Next]_vars PROVE CountInv'
  OBVIOUS
<1>1. base' = base /\ ReachedIds \subseteq ReachedIds' /\ Countable \subseteq Countable'
  BY ReachedGrows
<1>2. /\ file \in Countable' /\ disk \in Countable'
      /\ \A r \in Runs : pc[r] \in HasId => next[r] >= 1 /\ next[r] - 1 \in ReachedIds'
  BY <1>1 DEF CountInv
<1> USE DEF CountInv
<1>3. ASSUME NEW r \in Runs, Call(r) PROVE CountInv'
  BY <1>2, <1>3 DEF Call, Step, TypeOK, HasId
<1>4. ASSUME NEW r \in Runs, ReadAndIncrement(r) PROVE CountInv'
  <2>1. Successor(file) >= 1 /\ Successor(file) - 1 \in ReachedIds
    <3>1. CASE file = Absent
      <4>1. base = Absent
        BY <3>1 DEF Countable, Absent, Malformed, Stored
      <4>2. QED
        BY <3>1, <4>1, StoreAssumption DEF Successor, ReachedIds, Origin
    <3>2. CASE file # Absent
      <4>1. file.id \in ReachedIds /\ file.id \in 0..U16Max
        BY <3>2, <1>4, StoreAssumption
        DEF ReadAndIncrement, Readable, Countable, TypeOK, Contents, Absent, Malformed, Stored
      <4>2. QED
        BY <3>2, <4>1, StoreAssumption DEF Successor
    <3>3. QED
      BY <3>1, <3>2
  <2>2. \A q \in Runs : pc'[q] \in HasId =>
          \/ q = r /\ next'[q] = Successor(file)
          \/ q # r /\ pc[q] \in HasId /\ next'[q] = next[q]
    BY <1>4 DEF ReadAndIncrement, Step, TypeOK
  <2>3. QED
    BY <1>1, <1>2, <1>4, <2>1, <2>2 DEF ReadAndIncrement
<1>5. ASSUME NEW r \in Runs, RejectMalformed(r) \/ RejectOverflow(r) \/ IoError(r) \/ Crash(r)
      PROVE  CountInv'
  BY <1>2, <1>5 DEF RejectMalformed, RejectOverflow, IoError, Crash, Step, TypeOK, HasId
<1>6. ASSUME NEW r \in Runs, CreateFile(r) PROVE CountInv'
  <2>1. Malformed \in Countable'
    BY DEF Countable
  <2>2. QED
    BY <1>2, <1>6, <2>1 DEF CreateFile, Step, TypeOK, HasId
<1>7. ASSUME NEW r \in Runs, WriteId(r) PROVE CountInv'
  <2>1. next[r] \in ReachedIds'
    BY <1>7 DEF WriteId, Step, TypeOK, ReachedIds, Issued
  <2>2. Stored(next[r]) \in Countable'
    BY <2>1 DEF Countable
  <2>3. QED
    BY <1>2, <1>7, <2>2 DEF WriteId, Step, TypeOK, HasId
<1>8. CASE WriteBack
  BY <1>2, <1>8 DEF WriteBack
<1>9. CASE PowerLoss
  BY <1>2, <1>9 DEF PowerLoss, TypeOK, HasId
<1>10. CASE UNCHANGED vars
  BY <1>2, <1>10 DEF vars
<1>11. QED
  BY <1>3, <1>4, <1>5, <1>6, <1>7, <1>8, <1>9, <1>10 DEF Next, NextId, Progress

(* In every environment -- overlapping runs, kills, I/O errors, power      *)
(* losses -- an id is obtained only after its predecessor (session.rs,     *)
(* checked_add(1) on what the file holds).                                 *)
THEOREM NoSkippedIdHolds == Spec => []NoSkippedId
<1>1. Init => CountInv
  BY DEF Init, CountInv, Countable, ReachedIds, Origin, Contents, HasId,
         Absent, Malformed, Stored, Issued
<1>2. TypeOK /\ CountInv /\ [Next]_vars => CountInv'
  BY CountStep
<1>3. CountInv => NoSkippedId
  BY DEF CountInv, NoSkippedId, Issued, HasId
<1>4. QED
  BY <1>1, <1>2, <1>3, TypeCorrect, PTL DEF Spec
-----------------------------------------------------------------------------
(* A torn counter refuses every later call (session.rs, bytes.len() != 2). *)
THEOREM TornIsPermanent == Spec => TornStaysTorn
<1>1. TypeOK /\ [Next]_vars => (Torn => Torn' \/ PowerLoss)
  BY DEF Torn, TypeOK, Next, NextId, Progress, vars, Call, ReadAndIncrement, Readable,
         RejectMalformed,
         RejectOverflow, CreateFile, WriteId, IoError, Crash, WriteBack,
         Step, Live
<1>2. TypeOK /\ [Next]_vars => [Torn => Torn' \/ PowerLoss]_vars
  BY <1>1
<1>3. QED
  BY <1>2, TypeCorrect, PTL DEF Spec, TornStaysTorn
-----------------------------------------------------------------------------
(* Without overlap and power loss, SerialInv is inductive.                 *)
LEMMA SerialStep ==
  ASSUME SerialRuns, ~PowerLossPossible, TypeOK, SerialInv, [Next]_vars
  PROVE  SerialInv'
<1> USE DEF TypeOK, Step, SerialInv, OneLive, FileBoundsIds, CarriedIdIsFresh,
        UniqueIds, Issued, Live
<1>1. ASSUME NEW r \in Runs, Call(r) PROVE SerialInv'
  BY <1>1 DEF Call
<1>2. ASSUME NEW r \in Runs, ReadAndIncrement(r) PROVE SerialInv'
  <2>1. Successor(file) >= 1 /\ (file # Absent => Successor(file) = file.id + 1)
    BY <1>2, StoreAssumption DEF Successor, Contents, Absent, Malformed, Stored
  <2>2. \A q \in Runs : Issued(q) => next[q] < Successor(file)
    BY <1>2, <2>1, StoreAssumption
    DEF ReadAndIncrement, Readable, Contents, Absent, Malformed, Stored
  <2>3. QED
    BY <1>2, <2>1, <2>2 DEF ReadAndIncrement, Readable
<1>3. ASSUME NEW r \in Runs, RejectMalformed(r) \/ RejectOverflow(r) \/ IoError(r) \/ Crash(r)
      PROVE  SerialInv'
  BY <1>3 DEF RejectMalformed, RejectOverflow, IoError, Crash
<1>4. ASSUME NEW r \in Runs, CreateFile(r) PROVE SerialInv'
  BY <1>4 DEF CreateFile, Absent, Malformed
<1>5. ASSUME NEW r \in Runs, WriteId(r) PROVE SerialInv'
  BY <1>5, StoreAssumption DEF WriteId, Absent, Malformed, Stored
<1>6. CASE WriteBack \/ PowerLoss
  BY <1>6 DEF WriteBack, PowerLoss
<1>7. CASE UNCHANGED vars
  BY <1>7 DEF vars
<1>8. QED
  BY <1>1, <1>2, <1>3, <1>4, <1>5, <1>6, <1>7 DEF Next, NextId, Progress

(* Before any call the serial invariant holds of any counter file.         *)
LEMMA SerialInit ==
  ASSUME Init
  PROVE  SerialInv
BY DEF Init, SerialInv, OneLive, FileBoundsIds, CarriedIdIsFresh, UniqueIds, Issued, Live

(* So it holds throughout.                                                 *)
LEMMA SerialInvariant ==
  ASSUME SerialRuns, ~PowerLossPossible
  PROVE  Spec => [](TypeOK /\ SerialInv)
<1>1. Init => SerialInv
  BY SerialInit
<1>2. TypeOK /\ SerialInv /\ [Next]_vars => SerialInv'
  BY SerialStep
<1>3. QED
  BY <1>1, <1>2, TypeCorrect, PTL DEF Spec

(* Serial runs on a host that keeps its files never share a session id,    *)
(* whatever run is killed or fails where.                                  *)
THEOREM SerialRunsGetUniqueIds ==
  SerialRuns /\ ~PowerLossPossible => (Spec => []UniqueIds)
<1> SUFFICES ASSUME SerialRuns, ~PowerLossPossible PROVE Spec => []UniqueIds
  OBVIOUS
<1>1. SerialInv => UniqueIds
  BY DEF SerialInv
<1>2. QED
  BY <1>1, SerialInvariant, PTL

(* Under the same conditions the three system calls of                     *)
(* SessionIdStore::next amount to one step of an atomic counter.           *)
THEOREM SerialRunsImplementCounter ==
  SerialRuns /\ ~PowerLossPossible => (Spec => ImplementsCounter)
<1> SUFFICES ASSUME SerialRuns, ~PowerLossPossible PROVE Spec => ImplementsCounter
  OBVIOUS
<1> DEFINE ids == [r \in Runs |-> IF Issued(r) THEN next[r] ELSE 0]
<1>1. Init => Counter!Init
  BY DEF Init, Counter!Init, Issued
<1>2. TypeOK /\ SerialInv /\ [Next]_vars => [Counter!Next]_ids
  <2> SUFFICES ASSUME TypeOK, SerialInv, [Next]_vars PROVE [Counter!Next]_ids
    OBVIOUS
  <2>1. ASSUME NEW r \in Runs, WriteId(r) PROVE Counter!Next
    <3>1. next[r] \in 1..U16Max /\ pc[r] = "created"
      BY <2>1, StoreAssumption DEF WriteId, Step, TypeOK, SerialInv, CarriedIdIsFresh
    <3>2. \A q \in Runs : ids[q] < next[r]
      BY <3>1, StoreAssumption DEF SerialInv, CarriedIdIsFresh, TypeOK
    <3>3. ids' = [ids EXCEPT ![r] = next[r]]
      BY <2>1 DEF WriteId, Step, TypeOK, Issued
    <3>4. ids[r] = 0
      BY <3>1 DEF Issued
    <3>5. Counter!Issue(r)
      BY <3>1, <3>2, <3>3, <3>4 DEF Counter!Issue
    <3>6. QED
      BY <3>5 DEF Counter!Next
  <2>2. ASSUME [Next]_vars, ~\E r \in Runs : WriteId(r) PROVE ids' = ids
    BY <2>2 DEF TypeOK, Next, NextId, Progress, vars, Call, ReadAndIncrement, RejectMalformed,
         RejectOverflow, CreateFile, IoError, Crash, WriteBack, PowerLoss, Step, Live, Issued
  <2>3. QED
    BY <2>1, <2>2
<1>3. QED
  BY <1>1, <1>2, SerialInvariant, PTL DEF Spec, ImplementsCounter, Counter!Spec
=============================================================================
