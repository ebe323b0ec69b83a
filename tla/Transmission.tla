---------------------------- MODULE Transmission ----------------------------
(***************************************************************************)
(* What the sender promises to the network, all of it: packets that carry  *)
(* shards of frames, grouped into sessions.  Which of a frame's shards are *)
(* sent, in which order and whether all of them are, it leaves open (chaos *)
(* options, errors and kills).  Fiudp keeps this promise for runs on one   *)
(* host and Burst for the shards of one run; Delivery builds on it.        *)
(***************************************************************************)
EXTENDS Integers

CONSTANTS
  Frames,    \* frames handed to the sender
  Shards,    \* the indices of each frame's shards, data and parity
  Keys,      \* pre-shared keys
  U16Max     \* the greatest session id

VARIABLE wire   \* history: every packet sent

(* Faults the runs are tried on: overlapping runs that share a session,    *)
(* runs under one key that all send one frame, ids that start at zero, and *)
(* ids that do not stop at the greatest.                                   *)
Unrelated(p, q) == p.key = q.key => q.session <= p.session
Resent(p, q) == p.frame = q.frame /\ p.key = q.key /\ q.session <= p.session
Zero == 0
NoLimit == 1..(U16Max + 1)

(* A host's first session id; a terminal that accepted none is at zero.    *)
FirstSession == 1

Sessions == FirstSession..U16Max

Packets ==
  [key: Keys, session: FirstSession..U16Max, index: UNION {Shards[f] : f \in Frames},
   frame: Frames]

(* Packet p may follow q: under one key session ids never go down, and a   *)
(* frame and a session belong to each other.                               *)
MayFollow(p, q) ==
  /\ p.key = q.key => q.session <= p.session
  /\ p.frame = q.frame <=> p.key = q.key /\ p.session = q.session

Init == wire = {}

Transmit(f) ==
  \E k \in Keys, s \in Sessions, i \in Shards[f] :
    LET packet == [key |-> k, session |-> s, index |-> i, frame |-> f]
    IN  /\ packet \notin wire
        /\ \A q \in wire : MayFollow(packet, q)
        /\ wire' = wire \cup {packet}

Next == \E f \in Frames : Transmit(f)

Spec == Init /\ [][Next]_wire
=============================================================================
