------------------------------- MODULE MCBurst -------------------------------
(* Instances of Burst for TLC: small shards and a small field, so that     *)
(* frames of every length around each boundary (empty, a multiple of the   *)
(* shard size, the field's and the wire format's limits) are all tried.    *)
EXTENDS Burst

Options(lens, ratios, bursts, drops, shuffles) ==
  [len: lens, ratio: ratios, burst: bursts, drop: drops, shuffle: shuffles]

(* Every length up to one past the wire format's limit; shuffled bursts of *)
(* fewer lengths, because the orders multiply the states.                  *)
MCInputs ==
  Options(0..11, {0, 15, 50, 100}, {0, 1, 2, 9}, {0, 50, 100}, {FALSE})
    \cup Options({3, 6, 8}, {0, 50}, {0, 2}, {0, 50}, {TRUE})
=============================================================================
