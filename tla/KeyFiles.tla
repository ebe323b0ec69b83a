------------------------------ MODULE KeyFiles ------------------------------
(***************************************************************************)
(* Which counter file goes with which key file (session.rs:                *)
(* SessionIdStore::new).  The counter's path is the key's path with its    *)
(* extension replaced, so keys whose names differ in the extension alone   *)
(* share a counter, one key under two stems has two, and a key file whose  *)
(* extension is session_id is its own counter file.                        *)
(*                                                                         *)
(* Runs follow one another here; what happens inside SessionIdStore::next  *)
(* and between overlapping runs is the subject of SessionStore.            *)
(***************************************************************************)
EXTENDS Integers, Sequences

CONSTANTS Stems, Extensions, Keys, U16Max

CounterExtension == "session_id"

ASSUME KeyFilesAssumption ==
  /\ U16Max \in Nat \ {0}
  /\ CounterExtension \in Extensions

VARIABLES
  files,     \* what each file of the directory holds
  homes,     \* history: the stems each key was ever stored under
  outcome,   \* how the last run ended
  sealed     \* history: key and session id of each run that got an id

vars == <<files, homes, outcome, sealed>>
-----------------------------------------------------------------------------
Paths == [stem: Stems, ext: Extensions]

Absent     == [kind |-> "absent"]
Torn       == [kind |-> "torn"]
Key(k)     == [kind |-> "key", key |-> k]
Counter(n) == [kind |-> "counter", id |-> n]

(* Faults the run is tried on: the extension is appended to the name where *)
(* the directory knows the longer name, any content serves as a counter,   *)
(* and the counter may pass u16::MAX.                                      *)
Appended(path) ==
  LET stem == path.stem \o "." \o path.ext
  IN  [stem |-> IF stem \in Stems THEN stem ELSE path.stem, ext |-> CounterExtension]
AnyContent(content) == TRUE
Unchecked(id) == TRUE

(* Path::set_extension.  The extension is what follows the last dot, so    *)
(* psk.bin.session_id has the stem psk.bin and is its own counter.         *)
CounterPath(path) == [path EXCEPT !.ext = CounterExtension]

(* read_key: exactly 32 bytes.                                             *)
IsKey(content) == content.kind = "key"

(* No file, or two bytes.                                                  *)
IsCounter(content) == content.kind \in {"absent", "counter"}

NextId(content) == IF content.kind = "counter" THEN content.id + 1 ELSE 1

(* checked_add succeeds.                                                   *)
FitsU16(id) == id <= U16Max

Init ==
  /\ files = [p \in Paths |-> Absent]
  /\ homes = [k \in Keys |-> {}]
  /\ outcome = "none"
  /\ sealed = <<>>

(* The operator stores a key, in a new file or over any other, its own     *)
(* counter included, but never one key under two stems.                    *)
Provision ==
  /\ \E p \in Paths, k \in Keys :
       /\ files[p] # Key(k)
       /\ homes[k] \subseteq {p.stem}
       /\ files' = [files EXCEPT ![p] = Key(k)]
       /\ homes' = [homes EXCEPT ![k] = {p.stem}]
  /\ UNCHANGED <<outcome, sealed>>
-----------------------------------------------------------------------------
RejectKey(path) ==
  /\ ~IsKey(files[path])
  /\ outcome' = IF files[path] = Absent THEN "Io" ELSE "InvalidKeyLength"
  /\ UNCHANGED <<files, homes, sealed>>

RejectCounter(path) ==
  LET counter == files[CounterPath(path)]
  IN  /\ IsKey(files[path])
      /\ \/ ~IsCounter(counter) /\ outcome' = "InvalidSessionFile"
         \/ /\ IsCounter(counter) /\ ~FitsU16(NextId(counter))
            /\ outcome' = "SessionIdOverflow"
      /\ UNCHANGED <<files, homes, sealed>>

TakesId(path) ==
  LET counter == files[CounterPath(path)]
  IN  /\ IsKey(files[path])
      /\ IsCounter(counter)
      /\ FitsU16(NextId(counter))

Send(path) ==
  LET id == NextId(files[CounterPath(path)])
  IN  /\ TakesId(path)
      /\ files' = [files EXCEPT ![CounterPath(path)] = Counter(id)]
      /\ sealed' = Append(sealed, [key |-> files[path].key, session |-> id])
      /\ outcome' = "ok"
      /\ UNCHANGED homes

(* Killed, or the disk is full, after the truncation.                      *)
Tear(path) ==
  /\ TakesId(path)
  /\ files' = [files EXCEPT ![CounterPath(path)] = Torn]
  /\ outcome' \in {"Io", "crashed"}
  /\ UNCHANGED <<homes, sealed>>

Run(path) == RejectKey(path) \/ RejectCounter(path) \/ Send(path) \/ Tear(path)

Next == Provision \/ \E path \in Paths : Run(path)

Spec == Init /\ [][Next]_vars
-----------------------------------------------------------------------------
Contents ==
  {Absent, Torn} \cup {Key(k) : k \in Keys} \cup {Counter(n) : n \in 1..U16Max}

(* Only a counter's own path ever holds a counter or the rest of one, and  *)
(* no counter leaves u16.                                                  *)
TypeOK ==
  /\ files \in [Paths -> Contents]
  /\ \A p \in Paths : files[p] \notin {Absent} \cup {Key(k) : k \in Keys} =>
       p.ext = CounterExtension
  /\ homes \in [Keys -> SUBSET Stems]
  /\ \A n \in 1..Len(sealed) : sealed[n] \in [key: Keys, session: 1..U16Max]

(* Under one key session ids go up from run to run, so that no nonce comes *)
(* twice, however many keys share a counter, under however many extensions *)
(* a key is stored, and whatever is written over the counter.              *)
SessionsIncrease ==
  \A m, n \in 1..Len(sealed) :
    m < n /\ sealed[m].key = sealed[n].key => sealed[m].session < sealed[n].session

(* No run destroys a key, also not one that is stored where its own or     *)
(* another key's counter belongs.                                          *)
KeysSurvive == [][\A p \in Paths : IsKey(files[p]) => IsKey(files'[p])]_vars
=============================================================================
