------------------------------ MODULE Delivery ------------------------------
(***************************************************************************)
(* The sender's packets on their way to a terminal and on its display.     *)
(* The sender is Transmission.  The network loses, reorders and duplicates *)
(* packets: any packet of the wire that is not lost may arrive, at any     *)
(* time and again.  The terminal is not part of this code; it is modelled  *)
(* from what the sender puts into a packet for it (session id and index to *)
(* group by, the counts, the tag) and does what SPEC.md 3.5 asks.          *)
(***************************************************************************)
EXTENDS Integers, Sequences, FiniteSets

CONSTANTS
  Frames, Shards, Keys, U16Max,   \* see Transmission
  DataCount                       \* the number of data shards of each frame

ASSUME DeliveryAssumption ==
  /\ U16Max \in Nat
  /\ DataCount \in [Frames -> Nat \ {0}]
  /\ \A f \in Frames : Shards[f] \subseteq 0..U16Max

VARIABLES
  wire,      \* see Transmission
  lost,      \* packets of which no (further) copy will arrive
  termKey,   \* the key the terminal holds
  retired,   \* history: the keys it held before
  last,      \* highest session accepted for display under its key, persistent
  held,      \* shards kept in memory, as packets
  shown      \* history: of each display, the frames its shards came from

termVars == <<termKey, retired, last, held, shown>>
vars == <<wire, lost, termKey, retired, last, held, shown>>

Sender == INSTANCE Transmission
-----------------------------------------------------------------------------
Init ==
  /\ Sender!Init
  /\ lost = {}
  /\ termKey \in Keys
  /\ retired = {}
  /\ last = 0
  /\ held = {}
  /\ shown = <<>>

Transmit ==
  /\ Sender!Next
  /\ UNCHANGED <<lost, termVars>>

(* No further copy of the packet is in the network.                        *)
Lose ==
  /\ \E p \in wire \ lost : lost' = lost \cup {p}
  /\ UNCHANGED <<wire, termVars>>

(* The tag verifies under the terminal's key.                              *)
Opens(p) == p.key = termKey

Newer(session) == session > last

(* One shard per session and index, with the counts of those before it.    *)
Fits(p) ==
  \A q \in held : q.session = p.session =>
    /\ q.index # p.index
    /\ DataCount[q.frame] = DataCount[p.frame]
    /\ Shards[q.frame] = Shards[p.frame]

Receive ==
  /\ \E p \in wire \ lost :
       /\ Opens(p) /\ Newer(p.session) /\ Fits(p)
       /\ held' = held \cup {p}
  /\ UNCHANGED <<wire, lost, termKey, retired, last, shown>>

Group(session) == {p \in held : p.session = session}

(* Reed-Solomon rebuilds a frame from any data_shards of its shards.       *)
Enough(shards) == \A p \in shards : Cardinality(shards) >= DataCount[p.frame]

Later(session) == {p \in held : p.session > session}

Display ==
  /\ \E s \in {p.session : p \in held} :
       /\ Enough(Group(s))
       /\ shown' = Append(shown, {p.frame : p \in Group(s)})
       /\ last' = s
       /\ held' = Later(s)
  /\ UNCHANGED <<wire, lost, termKey, retired>>

(* The terminal restarts: what it held in memory does not come again.      *)
Restart ==
  /\ held # {}
  /\ held' = {}
  /\ lost' = lost \cup held
  /\ UNCHANGED <<wire, termKey, retired, last, shown>>

(* A new key is provisioned and the terminal's state reset, as the error   *)
(* for a full counter asks (error.rs:59-61).                               *)
Rotate ==
  /\ termKey' \in Keys \ (retired \cup {termKey})
  /\ retired' = retired \cup {termKey}
  /\ last' = 0
  /\ held' = {}
  /\ UNCHANGED <<wire, lost, shown>>

Next == Transmit \/ Lose \/ Receive \/ Display \/ Restart \/ Rotate

Spec == Init /\ [][Next]_vars

(* The network delivers what it does not lose, and the terminal decodes    *)
(* when it can.  No one need send, lose, restart or rotate anything.       *)
FairSpec == Spec /\ WF_vars(Receive) /\ WF_vars(Display)
-----------------------------------------------------------------------------
(* The terminal holds only authentic shards of sessions still to come.     *)
TypeOK ==
  /\ wire \subseteq Sender!Packets
  /\ lost \subseteq wire
  /\ termKey \in Keys /\ retired \subseteq Keys \ {termKey}
  /\ last \in 0..U16Max
  /\ held \subseteq {p \in wire : Opens(p) /\ Newer(p.session)}
  /\ \A n \in 1..Len(shown) : shown[n] \subseteq Frames

(* A display is rebuilt from shards of one frame, although shards of many  *)
(* sessions arrive interleaved and the terminal groups them by session id  *)
(* only: the sender's ids are what keeps two frames apart.                 *)
ShownWhole == \A n \in 1..Len(shown) : Cardinality(shown[n]) = 1

(* No frame is displayed twice, whatever is duplicated or arrives late,    *)
(* and although a rotation sets the terminal's session back to zero.       *)
ShownOnce == \A m, n \in 1..Len(shown) : m # n => shown[m] \cap shown[n] = {}

Arriving(f) == {p \in wire \ lost : Opens(p) /\ p.frame = f}

Superseded(f) == \E p \in wire : p.frame = f /\ Opens(p) /\ p.session < last

(* Loss of no more shards than the parity is made up for: a frame of which *)
(* data_shards shards arrive, whichever they are, is displayed, unless a   *)
(* later one was first.                                                    *)
EnoughShardsSuffice ==
  \A f \in Frames :
    Cardinality(Arriving(f)) >= DataCount[f] ~>
      \/ \E n \in 1..Len(shown) : f \in shown[n]
      \/ Superseded(f)
      \/ Cardinality(Arriving(f)) < DataCount[f]
=============================================================================
