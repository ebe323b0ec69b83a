--------------------------- MODULE SessionCounter ---------------------------
(***************************************************************************)
(* What a session-id source promises (SPEC.md 3.1 and 4): every run that   *)
(* obtains an id obtains one above all ids obtained before it.  Ids may be *)
(* skipped -- a run that dies after its id was stored burns it -- but no   *)
(* id is ever handed out twice and none beyond U16Max exists.              *)
(***************************************************************************)
EXTENDS Naturals

CONSTANTS
  Runs,    \* the invocations of the sender
  U16Max   \* u16::MAX, the largest id

VARIABLE
  issued   \* issued[r] = the id run r obtained; 0 while it has none

Init == issued = [r \in Runs |-> 0]

Issue(r) ==
  /\ issued[r] = 0
  /\ \E id \in 1..U16Max :
       /\ \A q \in Runs : issued[q] < id
       /\ issued' = [issued EXCEPT ![r] = id]

Next == \E r \in Runs : Issue(r)

Spec == Init /\ [][Next]_issued
=============================================================================
