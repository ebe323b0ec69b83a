--------------------------- MODULE DeliveryProofs ---------------------------
(***************************************************************************)
(* Proofs about Delivery, for every set of frames, keys and shards: the    *)
(* sender's promise about session ids is all that keeps the terminal's     *)
(* display correct on a network that loses, reorders and duplicates.       *)
(***************************************************************************)
EXTENDS Delivery, SequenceTheorems, FiniteSetTheorems, TLAPS

(* Of two packets on the wire, frames tell sessions apart and conversely.  *)
FramesAreSessions ==
  \A p, q \in wire : p.frame = q.frame <=> p.key = q.key /\ p.session = q.session

(* The terminal will not accept a packet like this one any more: its       *)
(* session is not newer than the last, or its key was given up.            *)
Past(p) == (p.key = termKey /\ p.session <= last) \/ p.key \in retired

(* Each display is of one frame, whose session is past.                    *)
DisplaysArePast ==
  \A n \in 1..Len(shown) : \E p \in wire : Past(p) /\ shown[n] = {p.frame}

(* No frame is in two displays.                                            *)
DisplaysDiffer ==
  \A m, n \in 1..Len(shown) : shown[m] = shown[n] => m = n

TerminalInv ==
  /\ TypeOK
  /\ shown \in Seq(SUBSET Frames)
  /\ FramesAreSessions
  /\ DisplaysArePast
  /\ DisplaysDiffer
-----------------------------------------------------------------------------
(* The terminal starts with nothing.                                       *)
LEMMA TerminalInit ==
  Init => TerminalInv
<1> SUFFICES ASSUME Init PROVE TerminalInv
  OBVIOUS
<1>1. shown \in Seq(SUBSET Frames) /\ Len(shown) = 0
  BY EmptySeq DEF Init
<1>2. QED
  BY <1>1, DeliveryAssumption
  DEF Init, Sender!Init, TerminalInv, TypeOK, FramesAreSessions, DisplaysArePast, DisplaysDiffer

(* A packet the sender adds keeps frames and sessions together.            *)
LEMMA TransmitStep ==
  ASSUME TerminalInv, Transmit
  PROVE  TerminalInv'
<1>1. UNCHANGED <<lost, termKey, retired, last, held, shown>>
  BY DEF Transmit, termVars
<1>2. PICK f \in Frames : Sender!Transmit(f)
  BY DEF Transmit, Sender!Next
<1>3. PICK k \in Keys, s \in Sender!Sessions, i \in Shards[f] :
        LET packet == [key |-> k, session |-> s, index |-> i, frame |-> f]
        IN  /\ \A q \in wire : Sender!MayFollow(packet, q)
            /\ wire' = wire \cup {packet}
  BY <1>2 DEF Sender!Transmit
<1> DEFINE packet == [key |-> k, session |-> s, index |-> i, frame |-> f]
<1>4. packet \in Sender!Packets
  BY DEF Sender!Packets, Sender!Sessions
<1>5. wire' \subseteq Sender!Packets /\ wire \subseteq wire'
  BY <1>3, <1>4 DEF TerminalInv, TypeOK
<1>6. FramesAreSessions'
  <2>1. \A q \in wire : packet.frame = q.frame <=> packet.key = q.key /\ packet.session = q.session
    BY <1>3 DEF Sender!MayFollow
  <2>2. QED
    BY <1>3, <2>1 DEF TerminalInv, FramesAreSessions
<1>7. TypeOK'
  BY <1>1, <1>5 DEF TerminalInv, TypeOK, Opens, Newer
<1>8. DisplaysArePast' /\ DisplaysDiffer'
  BY <1>1, <1>5 DEF TerminalInv, DisplaysArePast, DisplaysDiffer, Past
<1>9. QED
  BY <1>1, <1>6, <1>7, <1>8 DEF TerminalInv

(* Loss, arrival and a restart concern packets that are not displayed yet. *)
LEMMA NetworkStep ==
  ASSUME TerminalInv, Lose \/ Receive \/ Restart
  PROVE  TerminalInv'
<1>1. UNCHANGED <<wire, termKey, retired, last, shown>>
  BY DEF Lose, Receive, Restart, termVars
<1>2. /\ lost' \subseteq wire
      /\ held' \subseteq {p \in wire : Opens(p) /\ Newer(p.session)}
  BY DEF TerminalInv, TypeOK, Lose, Receive, Restart, termVars
<1>3. TypeOK'
  BY <1>1, <1>2 DEF TerminalInv, TypeOK, Opens, Newer
<1>4. QED
  BY <1>1, <1>3 DEF TerminalInv, FramesAreSessions, DisplaysArePast, DisplaysDiffer, Past

(* The shards of a session are of one frame, not displayed before.         *)
LEMMA DisplayStep ==
  ASSUME TerminalInv, Display
  PROVE  TerminalInv'
<1>1. UNCHANGED <<wire, lost, termKey, retired>>
  BY DEF Display
<1>2. PICK s \in {p.session : p \in held} :
        /\ shown' = Append(shown, {p.frame : p \in Group(s)})
        /\ last' = s
        /\ held' = Later(s)
  BY DEF Display
<1>3. PICK p \in held : p.session = s
  OBVIOUS
<1>4. /\ p \in wire /\ p \in Sender!Packets /\ p.key = termKey /\ p.session > last
      /\ last \in 0..U16Max /\ p.session \in 1..U16Max
  BY <1>3 DEF TerminalInv, TypeOK, Opens, Newer, Sender!Packets, Sender!FirstSession
<1>5. {q.frame : q \in Group(s)} = {p.frame}
  <2>1. p \in Group(s)
    BY <1>3 DEF Group
  <2>2. ASSUME NEW q \in Group(s) PROVE q.frame = p.frame
    <3>1. q \in wire /\ q.key = termKey /\ q.session = s
      BY DEF Group, TerminalInv, TypeOK, Opens
    <3>2. QED
      BY <1>3, <1>4, <3>1 DEF TerminalInv, FramesAreSessions
  <2>3. QED
    BY <2>1, <2>2
<1>6. p.frame \in Frames
  BY <1>4 DEF Sender!Packets
<1>7. /\ shown' \in Seq(SUBSET Frames) /\ Len(shown) \in Nat /\ Len(shown') = Len(shown) + 1
      /\ \A n \in 1..Len(shown) : shown'[n] = shown[n]
      /\ shown'[Len(shown) + 1] = {p.frame}
  <2>1. shown \in Seq(SUBSET Frames) /\ {p.frame} \in SUBSET Frames
    BY <1>6 DEF TerminalInv
  <2>2. shown' = Append(shown, {p.frame})
    BY <1>2, <1>5
  <2>3. QED
    BY <2>1, <2>2, AppendProperties, LenProperties
<1>8. ASSUME NEW n \in 1..Len(shown) PROVE shown[n] # {p.frame}
  <2>1. SUFFICES ASSUME shown[n] = {p.frame} PROVE FALSE
    OBVIOUS
  <2>2. PICK q \in wire : Past(q) /\ shown[n] = {q.frame}
    BY DEF TerminalInv, DisplaysArePast
  <2>3. q.key = p.key /\ q.session = p.session
    BY <1>4, <2>1, <2>2 DEF TerminalInv, FramesAreSessions
  <2>4. termKey \notin retired
    BY DEF TerminalInv, TypeOK
  <2>5. QED
    BY <1>4, <2>2, <2>3, <2>4 DEF Past
<1>9. DisplaysDiffer'
  BY <1>7, <1>8 DEF TerminalInv, DisplaysDiffer
<1>10. ASSUME NEW q \in wire, Past(q) PROVE Past(q)'
  <2>1. q.session \in 1..U16Max
    BY DEF TerminalInv, TypeOK, Sender!Packets, Sender!FirstSession
  <2>2. QED
    BY <1>1, <1>2, <1>3, <1>4, <1>10, <2>1 DEF Past
<1>11. Past(p)'
  BY <1>1, <1>2, <1>3, <1>4 DEF Past
<1>12. DisplaysArePast'
  <2>1. SUFFICES ASSUME NEW n \in 1..Len(shown')
                 PROVE  \E q \in wire' : Past(q)' /\ shown'[n] = {q.frame}
    BY DEF DisplaysArePast
  <2>2. CASE n = Len(shown) + 1
    BY <1>1, <1>4, <1>7, <1>11, <2>2
  <2>3. CASE n # Len(shown) + 1
    <3>1. n \in 1..Len(shown)
      BY <1>7, <2>3
    <3>2. QED
      BY <1>1, <1>7, <1>10, <3>1 DEF TerminalInv, DisplaysArePast
  <2>4. QED
    BY <2>2, <2>3
<1>13. TypeOK'
  <2>1. last' \in 0..U16Max
    BY <1>2, <1>3, <1>4
  <2>2. held' \subseteq {q \in wire' : (Opens(q) /\ Newer(q.session))'}
    BY <1>1, <1>2 DEF TerminalInv, TypeOK, Later, Opens, Newer
  <2>3. \A n \in 1..Len(shown') : shown'[n] \subseteq Frames
    BY <1>7, ElementOfSeq
  <2>4. QED
    BY <1>1, <2>1, <2>2, <2>3 DEF TerminalInv, TypeOK
<1>14. FramesAreSessions'
  BY <1>1 DEF TerminalInv, FramesAreSessions
<1>15. QED
  BY <1>7, <1>9, <1>12, <1>13, <1>14 DEF TerminalInv

(* A key that was given up does not come back.                             *)
LEMMA RotateStep ==
  ASSUME TerminalInv, Rotate
  PROVE  TerminalInv'
<1>1. /\ UNCHANGED <<wire, lost, shown>> /\ last' = 0 /\ held' = {}
      /\ retired' = retired \cup {termKey}
      /\ termKey' \in Keys /\ termKey' \notin retired'
  BY DEF Rotate
<1>2. TypeOK'
  BY <1>1, DeliveryAssumption DEF TerminalInv, TypeOK
<1>3. ASSUME NEW p, Past(p) PROVE Past(p)'
  BY <1>1, <1>3 DEF Past
<1>4. DisplaysArePast'
  BY <1>1, <1>3 DEF TerminalInv, DisplaysArePast
<1>5. QED
  BY <1>1, <1>2, <1>4 DEF TerminalInv, FramesAreSessions, DisplaysDiffer
-----------------------------------------------------------------------------
(* The terminal's invariant, whatever the network does to the packets.     *)
THEOREM TerminalInvariant == Spec => []TerminalInv
<1>1. TerminalInv /\ [Next]_vars => TerminalInv'
  <2> SUFFICES ASSUME TerminalInv, [Next]_vars PROVE TerminalInv'
    OBVIOUS
  <2>1. CASE UNCHANGED vars
    BY <2>1
    DEF vars, TerminalInv, TypeOK, FramesAreSessions, DisplaysArePast, DisplaysDiffer, Past, Opens,
        Newer
  <2>2. QED
    BY <2>1, TransmitStep, NetworkStep, DisplayStep, RotateStep DEF Next
<1>2. QED
  BY <1>1, TerminalInit, PTL DEF Spec

(* The terminal holds only authentic shards of sessions still to come.     *)
THEOREM TypeCorrect == Spec => []TypeOK
<1>1. TerminalInv => TypeOK
  BY DEF TerminalInv
<1>2. QED
  BY <1>1, TerminalInvariant, PTL

(* Shards of two frames are never mixed in one display.                    *)
THEOREM DisplaysAreWhole == Spec => []ShownWhole
<1>1. TerminalInv => ShownWhole
  BY FS_Singleton DEF TerminalInv, DisplaysArePast, ShownWhole
<1>2. QED
  BY <1>1, TerminalInvariant, PTL

(* No frame is displayed twice, across restarts and rotations.             *)
THEOREM DisplaysOnce == Spec => []ShownOnce
<1>1. TerminalInv => ShownOnce
  <2> SUFFICES ASSUME TerminalInv, NEW m \in 1..Len(shown), NEW n \in 1..Len(shown), m # n
               PROVE  shown[m] \cap shown[n] = {}
    BY DEF ShownOnce
  <2>1. (\E f : shown[m] = {f}) /\ (\E f : shown[n] = {f})
    BY DEF TerminalInv, DisplaysArePast
  <2>2. shown[m] # shown[n]
    BY DEF TerminalInv, DisplaysDiffer
  <2>3. QED
    BY <2>1, <2>2
<1>2. QED
  BY <1>1, TerminalInvariant, PTL
=============================================================================
