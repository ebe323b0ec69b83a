----------------------------- MODULE FiudpProofs -----------------------------
(***************************************************************************)
(* Proofs about Fiudp, for every set of runs, keys and shard indices.      *)
(* While the counter file is never removed, a run() of lib.rs uses it as   *)
(* SessionStore says.  When it is removed, ids are only unique per key and *)
(* among the runs that are not stray; HostInv is the invariant of          *)
(* SessionStoreProofs taken per key, with what a removal takes away        *)
(* (exposed keys) left out, and what the packets need follows from it.     *)
(***************************************************************************)
EXTENDS Fiudp, TLAPS

Counter == INSTANCE SessionStoreProofs WITH PowerLossPossible <- FALSE

OneRun == \A r, q \in Runs : stage[r] \in Live /\ stage[q] \in Live => r = q

PastCounter == {"socket", "read", "prepare", "transmit"}

HasKey == \A r \in Runs : stage[r] \in {"next"} \cup PastCounter => key[r] \in Keys

(* A run is inside SessionIdStore::next exactly when run() waits for it.   *)
CallsAreRuns ==
  \A r \in Runs :
    /\ pc[r] \in Store!Live <=> stage[r] = "next"
    /\ stage[r] \in {"start", "load_key"} => pc[r] = "idle"

(* The key file never returns to a key it held, and holds or held the key  *)
(* of every run.                                                           *)
KeysArePast ==
  /\ keyFile \notin retired
  /\ \A r \in Runs : key[r] \in Keys => key[r] \in retired \cup {keyFile}
  /\ \A r \in Runs : Store!Issued(r) => key[r] \in Keys

(* SessionStoreProofs!FileBoundsIds for the keys that are in use and were  *)
(* at no removal.  It says nothing of a key out of use, whose ids outlive  *)
(* the counter they came from, nor of one whose counter was removed.       *)
FileBoundsIds ==
  \A q \in Runs :
    Store!Issued(q) /\ InUse(key[q]) /\ key[q] \notin exposed =>
      file # Store!Absent /\ (file.kind = "stored" => next[q] <= file.id)

(* SessionStoreProofs!CarriedIdIsFresh, for what a run carries to a file   *)
(* that may be gone meanwhile: its id is above those of its own key, and,  *)
(* because it will be the next run's bound, above those of the key file's. *)
CarriedIdIsFresh ==
  \A r \in Runs :
    pc[r] \in {"computed", "created"} =>
      /\ next[r] >= 1
      /\ \A q \in Runs : Store!Issued(q) =>
           /\ key[q] = keyFile /\ keyFile \notin exposed => next[q] < next[r]
           /\ key[q] = key[r] /\ q \notin stray /\ r \notin stray => next[q] < next[r]

(* A run that writes its id to a removed file leaves no bound for others:  *)
(* none is needed, its key being out of use or exposed.                    *)
OrphansLeaveNoBound ==
  \A r \in orphan :
    /\ pc[r] \notin {"idle", "reading", "computed"}
    /\ pc[r] = "created" => key[r] # keyFile \/ key[r] \in exposed

UniqueUnderKey ==
  \A r, q \in Runs \ stray :
    Store!Issued(r) /\ Store!Issued(q) /\ r # q /\ key[r] = key[q] => next[r] # next[q]

(* A run that is past the counter has the last id obtained under its key.  *)
HasLastId ==
  \A r \in Runs : stage[r] \in PastCounter =>
    /\ Store!Issued(r)
    /\ \A q \in Runs \ stray :
         Store!Issued(q) /\ key[q] = key[r] /\ r \notin stray => next[q] <= next[r]

(* No run is given id zero.                                                *)
IdsArePositive == \A r \in Runs : Store!Issued(r) => next[r] >= 1

(* A packet on the wire has the key and the id of the run that sent it.    *)
WireInv ==
  \A p \in wire :
    /\ p.frame \in Runs
    /\ stage[p.frame] \notin {"start", "load_key", "next"}
    /\ Store!Issued(p.frame)
    /\ p.key = key[p.frame]
    /\ p.session = next[p.frame]

(* What holds of the ids taken, and of the runs and packets that have them.*)
IdsInv ==
  /\ FileBoundsIds /\ CarriedIdIsFresh /\ OrphansLeaveNoBound
  /\ UniqueUnderKey /\ IdsArePositive

HostInv ==
  /\ TypeOK
  /\ HasKey
  /\ OneRun /\ CallsAreRuns
  /\ KeysArePast
  /\ IdsInv
  /\ HasLastId /\ WireInv
-----------------------------------------------------------------------------
(* Every step of run() and of the operator is a step of the counter or     *)
(* leaves it alone, but for a removal and a write to a removed file.       *)
LEMMA StoreStep ==
  ASSUME [Next]_vars, ~RemoveCounter, \A r \in orphan : ~NextSession(r)
  PROVE  [Store!Next]_(Store!vars)
<1>1. ASSUME NEW r \in Runs, LoadKey(r) PROVE Store!Next
  BY <1>1 DEF LoadKey, Store!Next
<1>2. ASSUME NEW r \in Runs, NextSession(r) \/ NextSessionFails(r) PROVE Store!Next
  BY <1>2 DEF NextSession, NextSessionFails, Store!NextId, Store!Next
<1>3. ASSUME NEW r \in Runs, Crash(r) PROVE Store!Next \/ UNCHANGED storeVars
  BY <1>3 DEF Crash, Store!Next
<1>4. QED
  BY <1>1, <1>2, <1>3
  DEF Next, Run, Progress, Start, RejectKey, LoadKeyFails, OpenSocket, ReadFrame, Prepare,
      Transmit, Return, TruncateKey, WriteKey, vars, storeVars, Store!vars

(* Only a removal orphans a run.                                           *)
LEMMA NoOrphans ==
  ASSUME [Next]_vars, ~RemoveCounter
  PROVE  orphan' = orphan
BY DEF Next, Run, Progress, Start, LoadKey, RejectKey, LoadKeyFails, NextSession,
       NextSessionFails, OpenSocket, ReadFrame, Prepare, Transmit, Return, Crash, TruncateKey,
       WriteKey, vars, resetVars

(* lib.rs, run: seen from the counter file, runs are calls of              *)
(* SessionIdStore::next and nothing else.                                  *)
THEOREM RunsUseTheStore == ~ResetsCounter => (Spec => Store!Spec)
<1> SUFFICES ASSUME ~ResetsCounter PROVE Spec => Store!Spec
  OBVIOUS
<1> DEFINE Kept == orphan = {}
<1>1. Init => Store!Init /\ Kept
  BY DEF Init
<1>2. Kept /\ [Next]_vars => Kept' /\ [Store!Next]_(Store!vars)
  BY StoreStep, NoOrphans DEF RemoveCounter
<1>3. QED
  BY <1>1, <1>2, PTL DEF Spec, Store!Spec
-----------------------------------------------------------------------------
(* Store and Counter are two instances of one module.                      *)
LEMMA SameCounter ==
  /\ Counter!StoreAssumption
  /\ Store!TypeOK <=> Counter!TypeOK
  /\ Store!TypeOK' <=> Counter!TypeOK'
  /\ [Store!Next]_(Store!vars) <=> [Counter!Next]_(Counter!vars)
<1>1. Counter!StoreAssumption
  BY FiudpAssumption DEF Counter!StoreAssumption
<1>2. (Store!TypeOK <=> Counter!TypeOK) /\ (Store!TypeOK' <=> Counter!TypeOK')
  BY DEF Store!TypeOK, Counter!TypeOK, Store!Contents, Counter!Contents, Store!Absent,
         Counter!Absent, Store!Malformed, Counter!Malformed, Store!Stored, Counter!Stored,
         Store!Live, Counter!Live, Store!Final, Counter!Final, Store!Errors, Counter!Errors
<1>3. [Store!Next]_(Store!vars) <=> [Counter!Next]_(Counter!vars)
  BY DEF Store!Next, Counter!Next, Store!vars, Counter!vars,
         Store!Call, Counter!Call, Store!NextId, Counter!NextId,
         Store!Crash, Counter!Crash, Store!WriteBack, Counter!WriteBack,
         Store!PowerLoss, Counter!PowerLoss, Store!Step, Counter!Step,
         Store!ReadAndIncrement, Counter!ReadAndIncrement,
         Store!RejectMalformed, Counter!RejectMalformed,
         Store!RejectOverflow, Counter!RejectOverflow,
         Store!CreateFile, Counter!CreateFile, Store!WriteId, Counter!WriteId,
         Store!IoError, Counter!IoError, Store!Successor, Counter!Successor,
         Store!Progress, Counter!Progress, Store!Readable, Counter!Readable,
         Store!FitsU16, Counter!FitsU16,
         Store!Absent, Counter!Absent, Store!Malformed, Counter!Malformed,
         Store!Stored, Counter!Stored, Store!Live, Counter!Live
<1>4. QED
  BY <1>1, <1>2, <1>3
-----------------------------------------------------------------------------
(* What a step inside SessionIdStore::next does to the run that makes it   *)
(* and to the others.                                                      *)
LEMMA NextIdEffect ==
  ASSUME Store!TypeOK, NEW r \in Runs, NextSession(r) \/ NextSessionFails(r)
  PROVE  /\ \A q \in Runs \ {r} : pc'[q] = pc[q] /\ next'[q] = next[q]
         /\ pc[r] \in Store!Live
         /\ pc'[r] = "ok" => pc[r] = "created" /\ next'[r] = next[r]
BY DEF NextSession, NextSessionFails, WriteUnlinked, Store!TypeOK, Store!Progress,
       Store!ReadAndIncrement, Store!RejectMalformed, Store!RejectOverflow, Store!CreateFile,
       Store!WriteId, Store!IoError, Store!Step, Store!Live

(* No step of a run or of the operator leaves the types, and a run past    *)
(* its key load has a whole key.                                           *)
LEMMA HostTypeStep ==
  ASSUME TypeOK, HasKey, [Next]_vars
  PROVE  TypeOK' /\ HasKey'
<1>1. Store!TypeOK'
  <2>1. CASE RemoveCounter
    BY <2>1 DEF RemoveCounter, TypeOK, Store!TypeOK, Store!Contents
  <2>2. ASSUME NEW r \in orphan, NextSession(r) PROVE Store!TypeOK'
    BY <2>2 DEF NextSession, WriteUnlinked, Store!Step, TypeOK, Store!TypeOK, Store!Final
  <2>3. CASE ~RemoveCounter /\ \A r \in orphan : ~NextSession(r)
    BY <2>3, StoreStep, SameCounter, Counter!TypeStep DEF TypeOK
  <2>4. QED
    BY <2>1, <2>2, <2>3
<1> DEFINE HostTypes == /\ keyFile \in Keys \cup {NoKey}
                        /\ retired \subseteq Keys
                        /\ stage \in [Runs -> {"start"} \cup Live \cup Final]
                        /\ key \in [Runs -> Keys \cup {NoKey}]
                        /\ wire \subseteq Packets
                        /\ orphan \subseteq Runs /\ exposed \subseteq Keys /\ stray \subseteq Runs
                        /\ HasKey
<1> USE DEF TypeOK, HasKey, PastCounter, Goto, resetVars, Live, Final, Errors, PrepareErrors
<1>2. ASSUME NEW r \in Runs,
             Start(r) \/ LoadKey(r) \/ RejectKey(r) \/ LoadKeyFails(r) \/ OpenSocket(r)
      PROVE  HostTypes'
  BY <1>2 DEF Start, LoadKey, WholeKey, RejectKey, LoadKeyFails, OpenSocket, Store!Errors
<1>3. ASSUME NEW r \in Runs,
             \/ NextSession(r) \/ NextSessionFails(r)
             \/ ReadFrame(r) \/ Prepare(r) \/ Return(r) \/ Crash(r)
      PROVE  HostTypes'
  BY <1>3 DEF NextSession, NextSessionFails, ReadFrame, Prepare, Return, Crash, Store!Errors
<1>4. ASSUME NEW r \in Runs, Transmit(r) PROVE HostTypes'
  <2>1. \A i \in Indices : Packet(r, i) \in Packets
    BY <1>4 DEF Transmit, Packet, Packets, Store!TypeOK
  <2>2. QED
    BY <1>4, <2>1 DEF Transmit
<1>5. ASSUME TruncateKey \/ WriteKey \/ RemoveCounter PROVE HostTypes'
  BY <1>5 DEF TruncateKey, WriteKey, RemoveCounter
<1>6. ASSUME UNCHANGED vars PROVE HostTypes'
  BY <1>6 DEF vars
<1>7. QED
  BY <1>1, <1>2, <1>3, <1>4, <1>5, <1>6 DEF Next, Run, Progress

(* Both hold before any run starts.                                        *)
LEMMA HostTypeInit == Init => TypeOK /\ HasKey
<1>1. Init => Store!TypeOK
  BY FiudpAssumption DEF Init, Store!Init, Store!TypeOK
<1>2. QED
  BY <1>1 DEF Init, TypeOK, HasKey, PastCounter

(* Whatever runs and the operator do, every variable of the host keeps its *)
(* type; in particular a packet is sealed with a whole key and a session   *)
(* id within u16.                                                          *)
THEOREM HostTypeCorrect == Spec => []TypeOK
<1>1. TypeOK /\ HasKey /\ [Next]_vars => TypeOK' /\ HasKey'
  BY HostTypeStep
<1>2. QED
  BY <1>1, HostTypeInit, PTL DEF Spec
-----------------------------------------------------------------------------
(* Before any run starts the host's invariant holds.                       *)
LEMMA HostInit == Init => HostInv
BY HostTypeInit, FiudpAssumption
DEF Init, HostInv, OneRun, CallsAreRuns, KeysArePast, IdsInv, FileBoundsIds, CarriedIdIsFresh,
    OrphansLeaveNoBound, UniqueUnderKey, HasLastId, IdsArePositive, WireInv, Live, PastCounter,
    Store!Init, Store!Issued, Store!Live

(* A step that leaves the counter and every run's call of it alone leaves  *)
(* what holds of the ids, unless it puts a key to use that has some.       *)
LEMMA IdsStay ==
  ASSUME TypeOK, IdsInv, UNCHANGED <<file, pc, next, orphan, exposed, stray>>,
         \A q \in Runs : pc[q] # "idle" => key'[q] = key[q],
         \/ keyFile' = keyFile
         \/ \A q \in Runs : Store!Issued(q) \/ pc[q] = "created" => key[q] # keyFile'
  PROVE  IdsInv'
<1>1. \A q \in Runs : Store!Issued(q)' <=> Store!Issued(q)
  BY DEF Store!Issued
<1>2. \A q \in Runs : Store!Issued(q) => key'[q] = key[q]
  BY DEF Store!Issued
<1>3. \A q \in Runs : Store!Issued(q) /\ InUse(key[q])' => InUse(key[q])
  BY <1>2 DEF InUse
<1>4. FileBoundsIds'
  BY <1>1, <1>2, <1>3 DEF IdsInv, FileBoundsIds
<1>5. CarriedIdIsFresh'
  BY <1>1, <1>2 DEF IdsInv, CarriedIdIsFresh
<1>6. UniqueUnderKey' /\ IdsArePositive'
  BY <1>1, <1>2 DEF IdsInv, UniqueUnderKey, IdsArePositive
<1>7. OrphansLeaveNoBound'
  BY DEF IdsInv, OrphansLeaveNoBound, TypeOK
<1>8. QED
  BY <1>4, <1>5, <1>6, <1>7 DEF IdsInv

(* One run at a time, and only as run() says, is inside the counter; keys  *)
(* pass through the key file into runs and never come back.                *)
LEMMA ControlStep ==
  ASSUME SerialRuns, HostInv, [Next]_vars
  PROVE  OneRun' /\ CallsAreRuns' /\ KeysArePast'
<1> DEFINE Control == OneRun /\ CallsAreRuns /\ KeysArePast
<1> USE DEF HostInv, TypeOK, OneRun, CallsAreRuns, KeysArePast, Goto, Live, Store!Issued,
            storeVars, Store!TypeOK, Store!Live
<1>1. ASSUME NEW r \in Runs, Start(r) \/ RejectKey(r) \/ LoadKeyFails(r) \/ OpenSocket(r)
      PROVE  Control'
  BY <1>1 DEF Start, RejectKey, LoadKeyFails, OpenSocket
<1>2. ASSUME NEW r \in Runs, ReadFrame(r) \/ Prepare(r) \/ Return(r) PROVE Control'
  BY <1>2 DEF ReadFrame, Prepare, Return, PrepareErrors
<1>3. ASSUME NEW r \in Runs, LoadKey(r) PROVE Control'
  BY <1>3 DEF LoadKey, WholeKey, Store!Call, Store!Step
<1>4. ASSUME NEW r \in Runs, NextSession(r) \/ NextSessionFails(r) PROVE Control'
  <2>1. /\ \A q \in Runs \ {r} : pc'[q] = pc[q]
        /\ pc'[r] \in Store!Live \cup {"ok"} \cup Store!Errors
    BY <1>4 DEF NextSession, NextSessionFails, WriteUnlinked, Store!Progress,
                Store!ReadAndIncrement, Store!RejectMalformed, Store!RejectOverflow,
                Store!CreateFile, Store!WriteId, Store!IoError, Store!Step, Store!Errors
  <2>2. stage[r] = "next" /\ key[r] \in Keys
    BY <1>4 DEF NextSession, NextSessionFails, HasKey
  <2>3. pc'[r] \in Store!Live <=> stage'[r] = "next"
    BY <1>4, <2>1, <2>2
    DEF NextSession, NextSessionFails, Store!Errors, Store!IoError
  <2>4. QED
    BY <1>4, <2>1, <2>2, <2>3 DEF NextSession, NextSessionFails, Store!Errors
<1>5. ASSUME NEW r \in Runs, Transmit(r) PROVE Control'
  BY <1>5 DEF Transmit
<1>6. ASSUME NEW r \in Runs, Crash(r) PROVE Control'
  BY <1>6 DEF Crash, Store!Crash
<1>7. ASSUME TruncateKey \/ WriteKey \/ RemoveCounter PROVE Control'
  BY <1>7, FiudpAssumption DEF TruncateKey, WriteKey, RemoveCounter
<1>8. ASSUME UNCHANGED vars PROVE Control'
  BY <1>8 DEF vars
<1>9. QED
  BY <1>1, <1>2, <1>3, <1>4, <1>5, <1>6, <1>7, <1>8 DEF Next, Run, Progress

(* Inside next: the id computed is above all ids under the key in use, for *)
(* the file bounds them or the run is stray, and obtaining it makes it the *)
(* greatest.                                                               *)
LEMMA IdsInNext ==
  ASSUME HostInv, OneRun', KeysArePast', NEW r \in Runs, NextSession(r) \/ NextSessionFails(r)
  PROVE  IdsInv'
<1> USE DEF HostInv, TypeOK, Store!Issued, Store!TypeOK, Store!Live
<1>1. /\ stage[r] = "next" /\ UNCHANGED <<key, keyFile, orphan, exposed>>
      /\ stray \subseteq stray' /\ stray' \subseteq stray \cup {r}
      /\ pc[r] # "reading" => stray' = stray
  BY DEF NextSession, NextSessionFails, resetVars, Goto
<1>2. \A q \in Runs \ {r} : pc'[q] = pc[q] /\ next'[q] = next[q] /\ stage'[q] = stage[q]
  BY NextIdEffect DEF NextSession, NextSessionFails, Goto
<1>3. \A q \in Runs \ {r} : pc[q] \notin {"reading", "computed", "created"}
  BY <1>1 DEF OneRun, CallsAreRuns, Live
<1>4. pc'[r] # "reading"
  BY NextIdEffect DEF NextSession, NextSessionFails, WriteUnlinked, Store!Progress,
     Store!ReadAndIncrement, Store!RejectMalformed, Store!RejectOverflow, Store!CreateFile,
     Store!WriteId, Store!IoError, Store!Step
<1>5. \A k : InUse(k)' => k = keyFile
  BY <1>1, <1>2, <1>3, <1>4 DEF InUse
<1> USE DEF IdsInv, FileBoundsIds, CarriedIdIsFresh, OrphansLeaveNoBound, UniqueUnderKey,
            IdsArePositive, Store!Step
<1>6. CASE NextSession(r) /\ Store!ReadAndIncrement(r)
  <2>1. /\ Store!Successor(file) >= 1
        /\ file # Store!Absent => Store!Successor(file) = file.id + 1
    BY <1>6, FiudpAssumption DEF Store!Successor, Store!Contents, Store!Absent, Store!Malformed,
                                 Store!Stored
  <2>2. \A q \in Runs : Store!Issued(q) /\ InUse(key[q]) /\ key[q] \notin exposed =>
                       next[q] < Store!Successor(file)
    BY <1>6, <2>1, FiudpAssumption
    DEF Store!ReadAndIncrement, Store!Readable, Store!Contents, Store!Absent, Store!Malformed,
        Store!Stored
  <2>3. InUse(keyFile) /\ InUse(key[r])
    BY <1>6 DEF InUse, Store!ReadAndIncrement
  <2>4. r \notin stray' => key[r] \notin exposed
    BY <1>6 DEF NextSession, Store!ReadAndIncrement
  <2>5. /\ pc' = [pc EXCEPT ![r] = "computed"] /\ file' = file
        /\ next' = [next EXCEPT ![r] = Store!Successor(file)]
    BY <1>6 DEF Store!ReadAndIncrement
  <2>6. CarriedIdIsFresh'
    BY <1>1, <1>3, <2>1, <2>2, <2>3, <2>4, <2>5
  <2>7. FileBoundsIds'
    BY <1>1, <1>5, <2>3, <2>5
  <2>8. OrphansLeaveNoBound'
    BY <1>1, <1>6, <2>5 DEF Store!ReadAndIncrement
  <2>9. UniqueUnderKey' /\ IdsArePositive'
    BY <1>1, <2>5
  <2>10. QED
    BY <2>6, <2>7, <2>8, <2>9
<1>7. CASE Store!RejectMalformed(r) \/ Store!RejectOverflow(r) \/ Store!IoError(r)
  <2>1. /\ UNCHANGED <<file, next>>
        /\ pc'[r] \notin {"ok", "idle", "reading", "computed", "created"}
    BY <1>7 DEF Store!RejectMalformed, Store!RejectOverflow, Store!IoError
  <2>2. InUse(keyFile)
    BY DEF InUse
  <2>3. FileBoundsIds' /\ CarriedIdIsFresh'
    BY <1>1, <1>2, <1>3, <1>5, <2>1, <2>2
  <2>4. OrphansLeaveNoBound' /\ UniqueUnderKey' /\ IdsArePositive'
    BY <1>1, <1>2, <2>1
  <2>5. QED
    BY <2>3, <2>4
<1>8. CASE r \notin orphan /\ Store!CreateFile(r)
  <2>1. /\ next' = next /\ file' = Store!Malformed /\ stray' = stray
        /\ pc[r] = "computed" /\ pc' = [pc EXCEPT ![r] = "created"]
    BY <1>1, <1>8 DEF Store!CreateFile
  <2>2. FileBoundsIds'
    BY <1>1, <1>5, <2>1 DEF Store!Absent, Store!Malformed
  <2>3. CarriedIdIsFresh'
    BY <1>1, <1>3, <2>1
  <2>4. OrphansLeaveNoBound' /\ UniqueUnderKey' /\ IdsArePositive'
    BY <1>1, <1>8, <2>1
  <2>5. QED
    BY <2>2, <2>3, <2>4
<1>9. CASE (r \notin orphan /\ Store!WriteId(r)) \/ (r \in orphan /\ WriteUnlinked(r))
  <2>1. /\ next[r] >= 1 /\ next' = next /\ pc' = [pc EXCEPT ![r] = "ok"]
        /\ pc[r] = "created" /\ stray' = stray
        /\ \A q \in Runs : Store!Issued(q) =>
             /\ key[q] = keyFile /\ keyFile \notin exposed => next[q] < next[r]
             /\ key[q] = key[r] /\ q \notin stray /\ r \notin stray => next[q] < next[r]
    BY <1>1, <1>9 DEF Store!WriteId, WriteUnlinked
  <2>2. \/ file' = Store!Stored(next[r])
        \/ file' = file /\ (key[r] # keyFile \/ key[r] \in exposed)
    BY <1>9, <2>1 DEF Store!WriteId, WriteUnlinked
  <2>3. FileBoundsIds'
    <3>1. CASE file' = Store!Stored(next[r])
      BY <1>1, <1>5, <2>1, <3>1, FiudpAssumption DEF Store!Absent, Store!Stored
    <3>2. CASE file' = file /\ (key[r] # keyFile \/ key[r] \in exposed)
      BY <1>1, <1>5, <2>1, <3>2 DEF InUse
    <3>3. QED
      BY <2>2, <3>1, <3>2
  <2>4. CarriedIdIsFresh'
    BY <1>3, <2>1
  <2>5. UniqueUnderKey' /\ IdsArePositive' /\ OrphansLeaveNoBound'
    BY <1>1, <2>1
  <2>6. QED
    BY <2>3, <2>4, <2>5
<1>10. QED
  BY <1>6, <1>7, <1>8, <1>9
  DEF NextSession, NextSessionFails, Store!Progress, Store!ReadAndIncrement

(* No step reuses an id under a key whose counter was not removed while it *)
(* was in use: a key comes to use before any id is taken under it, and the *)
(* file bounds those ids as long as it stays.                              *)
LEMMA IdsStep ==
  ASSUME SerialRuns, HostInv, [Next]_vars
  PROVE  IdsInv'
<1>1. OneRun' /\ CallsAreRuns' /\ KeysArePast'
  BY ControlStep
<1> USE DEF HostInv, Store!Issued, resetVars
<1>2. ASSUME NEW r \in Runs,
             \/ Start(r) \/ RejectKey(r) \/ LoadKeyFails(r) \/ OpenSocket(r)
             \/ ReadFrame(r) \/ Prepare(r) \/ Transmit(r) \/ Return(r)
      PROVE  IdsInv'
  <2>1. UNCHANGED <<file, pc, next, key, keyFile, orphan, exposed, stray>>
    BY <1>2 DEF Start, RejectKey, LoadKeyFails, OpenSocket, ReadFrame, Prepare, Transmit, Return,
                storeVars
  <2>2. QED
    BY <2>1, IdsStay
<1>3. ASSUME NEW r \in Runs, LoadKey(r) PROVE IdsInv'
  <2>1. /\ UNCHANGED <<file, next, keyFile, orphan, exposed, stray>>
        /\ pc[r] = "idle" /\ pc' = [pc EXCEPT ![r] = "reading"]
        /\ key' = [key EXCEPT ![r] = keyFile]
    BY <1>3 DEF LoadKey, Store!Call, Store!Step
  <2>2. \A k : InUse(k)' => InUse(k)
    BY <2>1 DEF InUse, TypeOK
  <2>3. \A q \in Runs : /\ Store!Issued(q)' <=> Store!Issued(q)
                        /\ Store!Issued(q) \/ q \in orphan => key'[q] = key[q]
                        /\ pc'[q] \in {"computed", "created"} => pc'[q] = pc[q] /\ key'[q] = key[q]
    BY <2>1 DEF TypeOK, Store!TypeOK, IdsInv, OrphansLeaveNoBound
  <2>4. FileBoundsIds' /\ CarriedIdIsFresh'
    BY <2>1, <2>2, <2>3 DEF IdsInv, FileBoundsIds, CarriedIdIsFresh
  <2>5. UniqueUnderKey' /\ IdsArePositive'
    BY <2>1, <2>3 DEF IdsInv, UniqueUnderKey, IdsArePositive
  <2>6. OrphansLeaveNoBound'
    BY <2>1, <2>3 DEF IdsInv, OrphansLeaveNoBound, TypeOK, Store!TypeOK
  <2>7. QED
    BY <2>4, <2>5, <2>6 DEF IdsInv
<1>4. ASSUME NEW r \in Runs, NextSession(r) \/ NextSessionFails(r) PROVE IdsInv'
  BY <1>1, <1>4, IdsInNext
<1>5. ASSUME NEW r \in Runs, Crash(r) PROVE IdsInv'
  <2>1. UNCHANGED <<file, next, key, keyFile, orphan, exposed, stray>>
    BY <1>5 DEF Crash, Store!Crash, storeVars
  <2>2. \A q \in Runs : /\ Store!Issued(q)' <=> Store!Issued(q)
                        /\ pc'[q] \in {"idle", "reading", "computed", "created"} => pc'[q] = pc[q]
    BY <1>5 DEF Crash, Store!Crash, storeVars, TypeOK, Store!TypeOK, Store!Live
  <2>3. \A k : InUse(k)' => InUse(k)
    BY <2>1, <2>2 DEF InUse
  <2>4. FileBoundsIds' /\ CarriedIdIsFresh'
    BY <2>1, <2>2, <2>3 DEF IdsInv, FileBoundsIds, CarriedIdIsFresh
  <2>5. UniqueUnderKey' /\ IdsArePositive' /\ OrphansLeaveNoBound'
    BY <2>1, <2>2 DEF IdsInv, UniqueUnderKey, IdsArePositive, OrphansLeaveNoBound, TypeOK
  <2>6. QED
    BY <2>4, <2>5 DEF IdsInv
<1>6. CASE TruncateKey
  <2>1. UNCHANGED <<file, pc, next, key, orphan, exposed, stray>> /\ keyFile' = NoKey
    BY <1>6 DEF TruncateKey, storeVars
  <2>2. \A q \in Runs : Store!Issued(q) \/ pc[q] = "created" => key[q] \in Keys
    BY DEF KeysArePast, CallsAreRuns, HasKey, Store!Live
  <2>3. QED
    BY <2>1, <2>2, IdsStay, FiudpAssumption
<1>7. CASE WriteKey
  <2>1. UNCHANGED <<file, pc, next, key, orphan, exposed, stray>>
    BY <1>7 DEF WriteKey, storeVars
  <2>2. \A q \in Runs : Store!Issued(q) \/ pc[q] = "created" => key[q] \in Keys
    BY DEF KeysArePast, CallsAreRuns, HasKey, Store!Live
  <2>3. \A q \in Runs : Store!Issued(q) \/ pc[q] = "created" => key[q] # keyFile'
    BY <1>7, <2>2, FiudpAssumption DEF WriteKey, KeysArePast
  <2>4. QED
    BY <2>1, <2>3, IdsStay
<1>8. CASE RemoveCounter
  <2>1. /\ UNCHANGED <<pc, next, key, keyFile, stray>>
        /\ exposed' = exposed \cup {k \in Keys : InUse(k)}
        /\ orphan' = orphan \cup {r \in Runs : pc[r] = "created"}
    BY <1>8 DEF RemoveCounter
  <2>2. \A q \in Runs : Store!Issued(q) \/ pc[q] = "created" => key[q] \in Keys
    BY DEF KeysArePast, CallsAreRuns, HasKey, Store!Live
  <2>3. InUse(keyFile) /\ \A k : InUse(k)' <=> InUse(k)
    BY <2>1 DEF InUse
  <2>4. FileBoundsIds'
    BY <2>1, <2>2, <2>3 DEF FileBoundsIds
  <2>5. CarriedIdIsFresh'
    BY <2>1 DEF IdsInv, CarriedIdIsFresh
  <2>6. OrphansLeaveNoBound'
    BY <2>1, <2>2, <2>3 DEF IdsInv, OrphansLeaveNoBound
  <2>7. UniqueUnderKey' /\ IdsArePositive'
    BY <2>1 DEF IdsInv, UniqueUnderKey, IdsArePositive
  <2>8. QED
    BY <2>4, <2>5, <2>6, <2>7 DEF IdsInv
<1>9. CASE UNCHANGED vars
  <2>1. UNCHANGED <<file, pc, next, key, keyFile, orphan, exposed, stray>>
    BY <1>9 DEF vars
  <2>2. QED
    BY <2>1, IdsStay
<1>10. QED
  BY <1>2, <1>3, <1>4, <1>5, <1>6, <1>7, <1>8, <1>9 DEF Next, Run, Progress

(* HostInv is inductive: one run at a time, from its start to its end,     *)
(* takes its id after every other of its key and seals packets with that   *)
(* id alone.                                                               *)
LEMMA HostStep ==
  ASSUME SerialRuns, HostInv, [Next]_vars
  PROVE  HostInv'
<1>1. TypeOK' /\ HasKey'
  BY HostTypeStep DEF HostInv
<1>2. OneRun' /\ CallsAreRuns' /\ KeysArePast'
  BY ControlStep
<1>3. IdsInv'
  BY IdsStep
<1> DEFINE Rest == HasLastId /\ WireInv
<1> USE DEF HostInv, TypeOK, HasLastId, WireInv, PastCounter, Goto, Store!Issued, storeVars,
            resetVars, Store!TypeOK
<1>4. ASSUME NEW r \in Runs,
             \/ Start(r) \/ RejectKey(r) \/ LoadKeyFails(r)
             \/ OpenSocket(r) \/ ReadFrame(r) \/ Prepare(r) \/ Return(r)
      PROVE  Rest'
  BY <1>4 DEF Start, RejectKey, LoadKeyFails, OpenSocket, ReadFrame, Prepare, Return, PrepareErrors
<1>5. ASSUME NEW r \in Runs, LoadKey(r) PROVE Rest'
  BY <1>5 DEF LoadKey, Store!Call, Store!Step
<1>6. ASSUME NEW r \in Runs, NextSession(r) \/ NextSessionFails(r) PROVE Rest'
  <2>1. /\ \A q \in Runs \ {r} : pc'[q] = pc[q] /\ next'[q] = next[q] /\ stage'[q] = stage[q]
        /\ pc'[r] = "ok" => pc[r] = "created" /\ next'[r] = next[r]
    BY <1>6, NextIdEffect DEF NextSession, NextSessionFails
  <2>2. stage[r] = "next" /\ UNCHANGED <<key, wire>> /\ pc[r] # "ok"
    BY <1>6 DEF NextSession, NextSessionFails, CallsAreRuns, Store!Live
  <2>3. \A q \in Runs \ {r} : stage[q] \notin PastCounter
    BY <2>2 DEF OneRun, Live
  <2>4. stage'[r] \in PastCounter => pc'[r] = "ok"
    BY <1>6 DEF NextSession, NextSessionFails, Store!Errors
  <2>5. /\ stray \subseteq stray' /\ stray' \subseteq stray \cup {r}
        /\ pc'[r] = "ok" => stray' = stray
    BY <1>6, <2>1 DEF NextSession, NextSessionFails
  <2>6. pc'[r] = "ok" => \A q \in Runs : pc[q] = "ok" /\ key[q] = key[r] /\ {q, r} \cap stray = {}
                                         => next[q] < next[r]
    BY <2>1, <2>2 DEF IdsInv, CarriedIdIsFresh
  <2>7. HasLastId'
    BY <2>1, <2>2, <2>3, <2>4, <2>5, <2>6
  <2>8. QED
    BY <2>1, <2>2, <2>7
<1>7. ASSUME NEW r \in Runs, Transmit(r) PROVE Rest'
  BY <1>7 DEF Transmit, Packet
<1>8. ASSUME NEW r \in Runs, Crash(r) PROVE Rest'
  BY <1>8 DEF Crash, Live, Store!Crash, Store!Live
<1>9. ASSUME TruncateKey \/ WriteKey \/ RemoveCounter PROVE Rest'
  BY <1>9 DEF TruncateKey, WriteKey, RemoveCounter
<1>10. ASSUME UNCHANGED vars PROVE Rest'
  BY <1>10 DEF vars
<1>11. QED
  BY <1>1, <1>2, <1>3, <1>4, <1>5, <1>6, <1>7, <1>8, <1>9, <1>10 DEF Next, Run, Progress

(* So it holds throughout, when runs are serial, whatever the operator     *)
(* does with the key file and the counter file and at whatever moment.     *)
THEOREM HostInvariant == SerialRuns => (Spec => []HostInv)
<1> SUFFICES ASSUME SerialRuns PROVE Spec => []HostInv
  OBVIOUS
<1>1. HostInv /\ [Next]_vars => HostInv'
  BY HostStep
<1>2. QED
  BY <1>1, HostInit, PTL DEF Spec

(* Two frames never share a key and a session while the operator does not  *)
(* overlap runs, however keys are replaced and counters removed, but for   *)
(* runs that read a counter removed under their key.                       *)
THEOREM SessionsAreFrames ==
  SerialRuns => (Spec => []SessionIsOneFrame)
<1> SUFFICES ASSUME SerialRuns PROVE Spec => []SessionIsOneFrame
  OBVIOUS
<1>1. HostInv => SessionIsOneFrame
  BY DEF HostInv, WireInv, SessionIsOneFrame, Promised, IdsInv, UniqueUnderKey
<1>2. QED
  BY <1>1, HostInvariant, PTL

(* SPEC.md 4 under the same conditions: no nonce is used for two packets   *)
(* under one key.                                                          *)
THEOREM NoncesAreUsedOnce ==
  SerialRuns => (Spec => []NonceOnce)
<1> SUFFICES ASSUME SerialRuns PROVE Spec => []NonceOnce
  OBVIOUS
<1>1. HostInv => NonceOnce
  <2> SUFFICES ASSUME HostInv, NEW p \in Promised, NEW q \in Promised,
                      p.key = q.key, Nonce(p) = Nonce(q)
               PROVE  p = q
    BY DEF NonceOnce
  <2>1. p.frame = q.frame
    BY DEF HostInv, WireInv, Promised, IdsInv, UniqueUnderKey, Nonce
  <2>2. p \in Packets /\ q \in Packets
    BY DEF HostInv, TypeOK, Promised
  <2>3. QED
    BY <2>1, <2>2 DEF Packets, Nonce
<1>2. QED
  BY <1>1, HostInvariant, PTL

(* Only a run's transmit loop puts packets on the wire, and what was there *)
(* stays promised or not: a run turns stray before it sends anything.      *)
LEMMA PromisedUnchanged ==
  ASSUME HostInv, [Next]_vars, ~\E r \in Runs : Transmit(r)
  PROVE  Promised' = Promised
<1>1. wire' = wire
  BY DEF Next, Run, Progress, Start, LoadKey, RejectKey, LoadKeyFails, NextSession,
         NextSessionFails, OpenSocket, ReadFrame, Prepare, Return, Crash, TruncateKey,
         RemoveCounter, WriteKey, vars
<1>2. ASSUME NEW r \in Runs, NextSession(r) PROVE Promised' = Promised
  <2>1. stage[r] = "next" /\ stray \subseteq stray' /\ stray' \subseteq stray \cup {r}
    BY <1>2 DEF NextSession
  <2>2. \A p \in wire : p.frame # r
    BY <2>1 DEF HostInv, WireInv
  <2>3. QED
    BY <1>1, <2>1, <2>2 DEF Promised
<1>3. ASSUME ~\E r \in Runs : NextSession(r) PROVE stray' = stray
  BY <1>3
  DEF Next, Run, Progress, Start, LoadKey, RejectKey, LoadKeyFails, NextSessionFails, OpenSocket,
      ReadFrame, Prepare, Return, Crash, TruncateKey, RemoveCounter, WriteKey, vars, resetVars
<1>4. QED
  BY <1>1, <1>2, <1>3 DEF Promised

(* What a packet just sent is to those before it.                          *)
LEMMA PacketMayFollow ==
  ASSUME HostInv, NEW r \in Runs, Transmit(r)
  PROVE  /\ Promised' = Promised \/ \E i \in Indices :
              /\ Packet(r, i) \notin Promised /\ Promised' = Promised \cup {Packet(r, i)}
         /\ \A i \in Indices, q \in Promised :
              r \notin stray => Contract!MayFollow(Packet(r, i), q)
<1>1. PICK i \in Indices : Packet(r, i) \notin wire /\ wire' = wire \cup {Packet(r, i)}
  BY DEF Transmit
<1>2. stray' = stray /\ stage[r] = "transmit" /\ Packet(r, i).frame = r
  BY DEF Transmit, resetVars, Packet
<1>3. CASE r \in stray
  BY <1>1, <1>2, <1>3 DEF Promised
<1>4. CASE r \notin stray
  <2>1. Promised' = Promised \cup {Packet(r, i)} /\ Packet(r, i) \notin Promised
    BY <1>1, <1>2, <1>4 DEF Promised
  <2>2. ASSUME NEW q \in Promised, NEW j \in Indices
        PROVE  Contract!MayFollow(Packet(r, j), q)
    <3>1. /\ q.frame \in Runs \ stray /\ Store!Issued(q.frame) /\ Store!Issued(r)
          /\ q.key = key[q.frame] /\ q.session = next[q.frame]
      BY <1>2 DEF HostInv, WireInv, Promised, HasLastId, PastCounter
    <3>2. q.key = key[r] => q.session <= next[r]
      BY <1>2, <1>4, <3>1 DEF HostInv, HasLastId, PastCounter
    <3>3. q.key = key[r] /\ q.session = next[r] => q.frame = r
      BY <1>4, <3>1 DEF HostInv, IdsInv, UniqueUnderKey
    <3>4. QED
      BY <3>1, <3>2, <3>3 DEF Contract!MayFollow, Packet
  <2>3. QED
    BY <2>1, <2>2
<1>5. QED
  BY <1>3, <1>4

(* SPEC.md 3.1 under the same conditions: sessions reach the network in    *)
(* increasing order.                                                       *)
THEOREM WireIsOrdered ==
  SerialRuns => (Spec => WireOrder)
<1> SUFFICES ASSUME SerialRuns PROVE Spec => WireOrder
  OBVIOUS
<1> DEFINE Ordered == \A p \in Promised' \ Promised, q \in Promised :
                        p.key = q.key => q.session <= p.session
<1>1. HostInv /\ [Next]_vars => Ordered
  <2> SUFFICES ASSUME HostInv, [Next]_vars, NEW p \in Promised' \ Promised, NEW q \in Promised
               PROVE  p.key = q.key => q.session <= p.session
    OBVIOUS
  <2>1. PICK r \in Runs : Transmit(r)
    BY PromisedUnchanged
  <2>2. PICK i \in Indices : p = Packet(r, i)
    BY <2>1, PacketMayFollow
  <2>3. r \notin stray
    BY <2>1, <2>2 DEF Promised, Packet, Transmit, resetVars
  <2>4. QED
    BY <2>1, <2>2, <2>3, PacketMayFollow DEF Contract!MayFollow
<1>2. QED
  BY <1>1, HostInvariant, PTL DEF Spec, WireOrder

(* The sender's promise to the network under the same conditions: a packet *)
(* is of a frame and session that belong to each other, its session not    *)
(* below any before it under its key, and it is sent once.                 *)
THEOREM HostImplementsTransmission ==
  SerialRuns => (Spec => ImplementsTransmission)
<1> SUFFICES ASSUME SerialRuns PROVE Spec => Contract!Spec
  BY DEF ImplementsTransmission
<1>1. Init => Contract!Init
  BY DEF Init, Contract!Init, Promised
<1>2. HostInv /\ [Next]_vars => [Contract!Next]_Promised
  <2> SUFFICES ASSUME HostInv, [Next]_vars, Promised' # Promised PROVE Contract!Next
    OBVIOUS
  <2>1. PICK r \in Runs : Transmit(r)
    BY PromisedUnchanged
  <2>2. PICK i \in Indices :
          Packet(r, i) \notin Promised /\ Promised' = Promised \cup {Packet(r, i)}
    BY <2>1, PacketMayFollow
  <2>3. r \notin stray
    BY <2>1, <2>2 DEF Promised, Packet, Transmit, resetVars
  <2>4. key[r] \in Keys /\ next[r] \in 1..U16Max
    BY <2>1, FiudpAssumption
    DEF HostInv, TypeOK, HasKey, HasLastId, IdsInv, IdsArePositive, Transmit, PastCounter,
        Store!TypeOK
  <2>5. Contract!Transmit(r)
    BY <2>1, <2>2, <2>3, <2>4, PacketMayFollow
    DEF Contract!Transmit, Contract!Sessions, Contract!FirstSession, Packet
  <2>6. QED
    BY <2>5 DEF Contract!Next
<1>3. QED
  BY <1>1, <1>2, HostInvariant, PTL DEF Spec, Contract!Spec
=============================================================================
