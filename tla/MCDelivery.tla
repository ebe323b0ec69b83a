----------------------------- MODULE MCDelivery -----------------------------
(* Instance of Delivery for TLC: two frames of one layout, two data shards *)
(* and one of parity, so that a session's shards may be too few, enough    *)
(* with or without parity, or more than enough, and nothing but the        *)
(* sender's session ids tells the two frames' shards apart.                *)
EXTENDS Delivery

MCFrames    == {"f", "g"}
MCShards    == [f |-> 0..2, g |-> 0..2]
MCDataCount == [f |-> 2, g |-> 2]
=============================================================================
