--------------------------- MODULE KeyFilesProofs ---------------------------
(***************************************************************************)
(* Proofs about KeyFiles, for every set of names, extensions and keys: the *)
(* file beside a key remembers the ids given out under it, whoever else    *)
(* counts in that file, until no run accepts it as a counter any more.     *)
(***************************************************************************)
EXTENDS KeyFiles, SequenceTheorems, TLAPS

Entries == [key: Keys, session: 1..U16Max]

CounterOf(stem) == [stem |-> stem, ext |-> CounterExtension]

(* A key is found under its home only.                                     *)
KeysAtHome == \A p \in Paths, k \in Keys : files[p] = Key(k) => homes[k] = {p.stem}

(* A counter file that was used is never absent again, and as long as it   *)
(* is a counter, it has reached the id.                                    *)
Reaches(content, id) ==
  content.kind # "absent" /\ (content.kind = "counter" => content.id >= id)

(* The counter at a key's home has reached every id given out under it.    *)
IdsAreCovered ==
  \A n \in 1..Len(sealed) :
    \E s \in Stems : homes[sealed[n].key] = {s} /\ Reaches(files[CounterOf(s)], sealed[n].session)

KeyFilesInv ==
  /\ TypeOK
  /\ sealed \in Seq(Entries)
  /\ KeysAtHome
  /\ IdsAreCovered
  /\ SessionsIncrease
-----------------------------------------------------------------------------
(* The path of a counter is in the directory, beside its key.              *)
LEMMA CounterPathIs ==
  ASSUME NEW path \in Paths
  PROVE  CounterPath(path) \in Paths /\ CounterPath(path) = CounterOf(path.stem)
BY KeyFilesAssumption DEF Paths, CounterPath, CounterOf

(* A file that is accepted as a counter is absent or has an id.            *)
LEMMA Accepted ==
  ASSUME TypeOK, NEW path \in Paths, TakesId(path)
  PROVE  LET counter == files[CounterPath(path)]
         IN  /\ \E k \in Keys : files[path] = Key(k)
             /\ ~IsKey(counter)
             /\ NextId(counter) \in 1..U16Max
             /\ counter.kind \in {"absent", "counter"}
             /\ counter.kind = "counter" => NextId(counter) = counter.id + 1 /\ counter.id \in 1..U16Max
<1> DEFINE counter == files[CounterPath(path)]
<1>1. counter \in Contents /\ files[path] \in Contents
  BY CounterPathIs DEF TypeOK
<1>2. IsKey(files[path]) /\ IsCounter(counter) /\ NextId(counter) <= U16Max
  BY DEF TakesId, FitsU16
<1>3. \E k \in Keys : files[path] = Key(k)
  BY <1>1, <1>2 DEF Contents, IsKey, Absent, Torn, Key, Counter
<1>4. counter = Absent \/ \E n \in 1..U16Max : counter = Counter(n)
  BY <1>1, <1>2 DEF Contents, IsCounter, Absent, Torn, Key, Counter
<1>5. CASE counter = Absent
  <2>1. counter.kind = "absent"
    BY <1>5 DEF Absent
  <2>2. QED
    BY <1>3, <2>1, KeyFilesAssumption DEF IsKey, NextId
<1>6. CASE \E n \in 1..U16Max : counter = Counter(n)
  <2>1. counter.kind = "counter" /\ counter.id \in 1..U16Max
    BY <1>6 DEF Counter
  <2>2. QED
    BY <1>2, <1>3, <2>1, KeyFilesAssumption DEF IsKey, NextId
<1>7. QED
  BY <1>4, <1>5, <1>6

(* An empty directory.                                                     *)
LEMMA KeyFilesInit ==
  Init => KeyFilesInv
<1> SUFFICES ASSUME Init PROVE KeyFilesInv
  OBVIOUS
<1>1. sealed \in Seq(Entries) /\ Len(sealed) = 0
  BY EmptySeq DEF Init
<1>2. \A p \in Paths : files[p] = Absent
  BY DEF Init
<1>3. TypeOK
  BY <1>1, <1>2 DEF Init, TypeOK, Contents
<1>4. KeysAtHome
  BY <1>2 DEF KeysAtHome, Absent, Key
<1>5. QED
  BY <1>1, <1>3, <1>4 DEF KeyFilesInv, IdsAreCovered, SessionsIncrease

(* Whatever the operator overwrites, no counter goes back.                 *)
LEMMA ProvisionStep ==
  ASSUME KeyFilesInv, Provision
  PROVE  KeyFilesInv'
<1>1. PICK p \in Paths, k \in Keys :
        /\ homes[k] \subseteq {p.stem}
        /\ files' = [files EXCEPT ![p] = Key(k)]
        /\ homes' = [homes EXCEPT ![k] = {p.stem}]
  BY DEF Provision
<1>2. /\ sealed' = sealed /\ files \in [Paths -> Contents] /\ homes \in [Keys -> SUBSET Stems]
      /\ p.stem \in Stems
  BY DEF Provision, KeyFilesInv, TypeOK, Paths
<1>3. /\ files'[p] = Key(k) /\ homes'[k] = {p.stem}
      /\ \A q \in Paths : q # p => files'[q] = files[q]
      /\ \A j \in Keys : j # k => homes'[j] = homes[j]
  BY <1>1, <1>2
<1>4. TypeOK'
  <2>1. files' \in [Paths -> Contents] /\ homes' \in [Keys -> SUBSET Stems]
    BY <1>1, <1>2 DEF Contents
  <2>2. QED
    BY <1>2, <1>3, <2>1 DEF KeyFilesInv, TypeOK
<1>5. KeysAtHome'
  <2>1. SUFFICES ASSUME NEW q \in Paths, NEW j \in Keys, files'[q] = Key(j)
                 PROVE  homes'[j] = {q.stem}
    BY DEF KeysAtHome
  <2>2. CASE q = p
    <3>1. j = k
      BY <1>3, <2>1, <2>2 DEF Key
    <3>2. QED
      BY <1>3, <2>2, <3>1
  <2>3. CASE q # p
    <3>1. homes[j] = {q.stem}
      BY <1>3, <2>1, <2>3 DEF KeyFilesInv, KeysAtHome
    <3>2. QED
      BY <1>1, <1>3, <3>1
  <2>4. QED
    BY <2>2, <2>3
<1>6. IdsAreCovered'
  <2>1. SUFFICES ASSUME NEW n \in 1..Len(sealed)
                 PROVE  \E s \in Stems : /\ homes'[sealed[n].key] = {s}
                                         /\ Reaches(files'[CounterOf(s)], sealed[n].session)
    BY <1>2 DEF IdsAreCovered
  <2>2. PICK s \in Stems : homes[sealed[n].key] = {s} /\ Reaches(files[CounterOf(s)], sealed[n].session)
    BY DEF KeyFilesInv, IdsAreCovered
  <2>3. sealed[n].key \in Keys
    <3>1. sealed[n] \in Entries
      BY ElementOfSeq DEF KeyFilesInv
    <3>2. QED
      BY <3>1 DEF Entries
  <2>4. homes'[sealed[n].key] = {s}
    BY <1>1, <1>3, <2>2, <2>3
  <2>5. CounterOf(s) \in Paths
    BY KeyFilesAssumption DEF CounterOf, Paths
  <2>6. Reaches(files'[CounterOf(s)], sealed[n].session)
    <3>1. CASE CounterOf(s) = p
      <4>1. files'[CounterOf(s)].kind = "key"
        BY <1>3, <3>1 DEF Key
      <4>2. QED
        BY <1>2, <4>1 DEF Reaches
    <3>2. CASE CounterOf(s) # p
      BY <1>2, <1>3, <2>2, <2>5, <3>2 DEF Reaches
    <3>3. QED
      BY <3>1, <3>2
  <2>7. QED
    BY <2>4, <2>6
<1>7. QED
  BY <1>2, <1>4, <1>5, <1>6 DEF KeyFilesInv, SessionsIncrease

(* A run that ends before it obtains an id may leave its counter torn.     *)
LEMMA TearStep ==
  ASSUME KeyFilesInv, NEW path \in Paths, Tear(path)
  PROVE  KeyFilesInv'
<1> DEFINE counter == CounterPath(path)
<1>1. /\ sealed' = sealed /\ homes' = homes
      /\ files' = [files EXCEPT ![counter] = Torn]
      /\ files \in [Paths -> Contents] /\ counter \in Paths /\ counter.ext = CounterExtension
  BY CounterPathIs DEF Tear, KeyFilesInv, TypeOK, CounterOf
<1>2. /\ files'[counter] = Torn
      /\ \A q \in Paths : q # counter => files'[q] = files[q]
  BY <1>1
<1>3. TypeOK'
  <2>1. files' \in [Paths -> Contents]
    BY <1>1 DEF Contents
  <2>2. QED
    BY <1>1, <1>2, <2>1 DEF KeyFilesInv, TypeOK
<1>4. KeysAtHome'
  BY <1>1, <1>2 DEF KeyFilesInv, KeysAtHome, Torn, Key
<1>5. ASSUME NEW s \in Stems, NEW id, Reaches(files[CounterOf(s)], id)
      PROVE  Reaches(files'[CounterOf(s)], id)
  <2>1. CounterOf(s) \in Paths
    BY KeyFilesAssumption DEF CounterOf, Paths
  <2>2. QED
    BY <1>2, <1>5, <2>1 DEF Reaches, Torn
<1>6. IdsAreCovered'
  BY <1>1, <1>5 DEF KeyFilesInv, IdsAreCovered
<1>7. QED
  BY <1>1, <1>3, <1>4, <1>6 DEF KeyFilesInv, SessionsIncrease

(* An id that is given out is above every earlier one under the key.       *)
LEMMA SendStep ==
  ASSUME KeyFilesInv, NEW path \in Paths, Send(path)
  PROVE  KeyFilesInv'
<1> DEFINE counter == CounterPath(path)
           id      == NextId(files[counter])
<1>1. /\ homes' = homes
      /\ files' = [files EXCEPT ![counter] = Counter(id)]
      /\ files \in [Paths -> Contents] /\ counter \in Paths
      /\ counter = CounterOf(path.stem) /\ counter.ext = CounterExtension
      /\ path.stem \in Stems
  BY CounterPathIs DEF Send, KeyFilesInv, TypeOK, CounterOf, Paths
<1>2. /\ id \in 1..U16Max /\ ~IsKey(files[counter])
      /\ files[counter].kind \in {"absent", "counter"}
      /\ files[counter].kind = "counter" => id = files[counter].id + 1 /\ files[counter].id \in 1..U16Max
      /\ \E k \in Keys : files[path] = Key(k)
  BY Accepted DEF Send, KeyFilesInv
<1>3. PICK k \in Keys : files[path] = Key(k)
  BY <1>2
<1> HIDE DEF counter, id
<1> DEFINE entry == [key |-> k, session |-> id]
<1>4. entry \in Entries /\ homes[k] = {path.stem}
  BY <1>2, <1>3 DEF Entries, KeyFilesInv, KeysAtHome
<1>5. sealed' = Append(sealed, entry)
  BY <1>3 DEF Send, Key, counter, id
<1>6. /\ sealed' \in Seq(Entries) /\ Len(sealed) \in Nat /\ Len(sealed') = Len(sealed) + 1
      /\ \A n \in 1..Len(sealed) : sealed'[n] = sealed[n] /\ sealed[n] \in Entries
      /\ sealed'[Len(sealed) + 1] = entry
  BY <1>4, <1>5, AppendProperties, LenProperties, ElementOfSeq DEF KeyFilesInv
<1>7. /\ files'[counter] = Counter(id)
      /\ \A q \in Paths : q # counter => files'[q] = files[q]
  BY <1>1
<1>8. TypeOK'
  <2>1. files' \in [Paths -> Contents]
    BY <1>1, <1>2 DEF Contents
  <2>2. \A n \in 1..Len(sealed') : sealed'[n] \in Entries
    BY <1>6, ElementOfSeq
  <2>3. QED
    BY <1>1, <1>7, <2>1, <2>2 DEF KeyFilesInv, TypeOK, Entries
<1>9. KeysAtHome'
  BY <1>1, <1>7 DEF KeyFilesInv, KeysAtHome, Counter, Key
<1>10. ASSUME NEW s \in Stems, NEW n \in 1..U16Max, Reaches(files[CounterOf(s)], n)
       PROVE  Reaches(files'[CounterOf(s)], n)
  <2>1. CounterOf(s) \in Paths
    BY KeyFilesAssumption DEF CounterOf, Paths
  <2>2. CASE CounterOf(s) # counter
    BY <1>7, <1>10, <2>1, <2>2 DEF Reaches
  <2>3. CASE CounterOf(s) = counter
    <3>1. files[counter].kind = "counter" /\ files[counter].id >= n
      BY <1>2, <1>10, <2>3 DEF Reaches
    <3>2. files'[counter].kind = "counter" /\ files'[counter].id = id
      BY <1>7 DEF Counter
    <3>3. id >= n
      BY <1>2, <3>1
    <3>4. QED
      BY <2>3, <3>2, <3>3 DEF Reaches
  <2>4. QED
    BY <2>2, <2>3
<1>11. Reaches(files'[CounterOf(path.stem)], id)
  <2>1. files'[counter].kind = "counter" /\ files'[counter].id = id
    BY <1>7 DEF Counter
  <2>2. QED
    BY <1>1, <1>2, <2>1 DEF Reaches
<1>12. IdsAreCovered'
  <2>1. SUFFICES ASSUME NEW n \in 1..Len(sealed')
                 PROVE  \E s \in Stems : /\ homes[sealed'[n].key] = {s}
                                         /\ Reaches(files'[CounterOf(s)], sealed'[n].session)
    BY <1>1 DEF IdsAreCovered
  <2>2. CASE n = Len(sealed) + 1
    BY <1>1, <1>4, <1>6, <1>11, <2>2
  <2>3. CASE n # Len(sealed) + 1
    <3>1. n \in 1..Len(sealed) /\ sealed'[n] = sealed[n] /\ sealed[n].session \in 1..U16Max
      BY <1>6, <2>3 DEF Entries
    <3>2. QED
      BY <1>10, <3>1 DEF KeyFilesInv, IdsAreCovered
  <2>4. QED
    BY <2>2, <2>3
<1>13. ASSUME NEW n \in 1..Len(sealed), sealed[n].key = k PROVE sealed[n].session < id
  <2>1. PICK s \in Stems : homes[k] = {s} /\ Reaches(files[CounterOf(s)], sealed[n].session)
    BY <1>13 DEF KeyFilesInv, IdsAreCovered
  <2>2. CounterOf(s) = counter
    BY <1>1, <1>4, <2>1
  <2>3. files[counter].kind = "counter" /\ files[counter].id >= sealed[n].session
    BY <1>2, <2>1, <2>2 DEF Reaches
  <2>4. sealed[n].session \in 1..U16Max
    BY <1>6 DEF Entries
  <2>5. QED
    BY <1>2, <2>3, <2>4
<1>14. SessionsIncrease'
  <2>1. SUFFICES ASSUME NEW m \in 1..Len(sealed'), NEW n \in 1..Len(sealed'),
                        m < n, sealed'[m].key = sealed'[n].key
                 PROVE  sealed'[m].session < sealed'[n].session
    BY DEF SessionsIncrease
  <2>2. m \in 1..Len(sealed) /\ sealed'[m] = sealed[m]
    BY <1>6, <2>1
  <2>3. CASE n = Len(sealed) + 1
    <3>1. sealed'[n].key = k /\ sealed'[n].session = id
      BY <1>6, <2>3
    <3>2. QED
      BY <1>13, <2>1, <2>2, <3>1
  <2>4. CASE n # Len(sealed) + 1
    BY <1>6, <2>1, <2>2, <2>4 DEF KeyFilesInv, SessionsIncrease
  <2>5. QED
    BY <2>3, <2>4
<1>15. QED
  BY <1>6, <1>8, <1>9, <1>12, <1>14 DEF KeyFilesInv
-----------------------------------------------------------------------------
(* What holds of the directory after any number of runs and stored keys.   *)
THEOREM KeyFilesInvariant == Spec => []KeyFilesInv
<1>1. KeyFilesInv /\ [Next]_vars => KeyFilesInv'
  <2> SUFFICES ASSUME KeyFilesInv, [Next]_vars PROVE KeyFilesInv'
    OBVIOUS
  <2>1. CASE UNCHANGED <<files, homes, sealed>>
    BY <2>1
    DEF KeyFilesInv, TypeOK, KeysAtHome, IdsAreCovered, Reaches, SessionsIncrease
  <2>2. ASSUME NEW path \in Paths, RejectKey(path) \/ RejectCounter(path)
        PROVE  UNCHANGED <<files, homes, sealed>>
    BY <2>2 DEF RejectKey, RejectCounter
  <2>3. QED
    BY <2>1, <2>2, ProvisionStep, SendStep, TearStep DEF Next, Run, vars
<1>2. QED
  BY <1>1, KeyFilesInit, PTL DEF Spec

(* Only a counter's own path ever holds a counter or the rest of one.      *)
THEOREM TypeCorrect == Spec => []TypeOK
<1>1. KeyFilesInv => TypeOK
  BY DEF KeyFilesInv
<1>2. QED
  BY <1>1, KeyFilesInvariant, PTL

(* Session ids go up under every key, whoever shares its counter.          *)
THEOREM SessionsGoUp == Spec => []SessionsIncrease
<1>1. KeyFilesInv => SessionsIncrease
  BY DEF KeyFilesInv
<1>2. QED
  BY <1>1, KeyFilesInvariant, PTL

(* No run destroys a key.                                                  *)
THEOREM KeysAreSafe == Spec => KeysSurvive
<1>1. KeyFilesInv /\ [Next]_vars => \A p \in Paths : IsKey(files[p]) => IsKey(files'[p])
  <2> SUFFICES ASSUME KeyFilesInv, [Next]_vars, NEW p \in Paths, IsKey(files[p])
               PROVE  IsKey(files'[p])
    OBVIOUS
  <2>1. files \in [Paths -> Contents]
    BY DEF KeyFilesInv, TypeOK
  <2>2. CASE Provision
    BY <2>1, <2>2 DEF Provision, IsKey, Key
  <2>3. ASSUME NEW path \in Paths, Send(path) \/ Tear(path) PROVE IsKey(files'[p])
    <3>1. p # CounterPath(path)
      BY <2>3, Accepted DEF KeyFilesInv, Send, Tear
    <3>2. QED
      BY <2>1, <2>3, <3>1 DEF Send, Tear
  <2>4. ASSUME NEW path \in Paths, RejectKey(path) \/ RejectCounter(path) PROVE IsKey(files'[p])
    BY <2>4 DEF RejectKey, RejectCounter
  <2>5. QED
    BY <2>2, <2>3, <2>4 DEF Next, Run, vars
<1>2. QED
  BY <1>1, KeyFilesInvariant, PTL DEF Spec, KeysSurvive
=============================================================================
