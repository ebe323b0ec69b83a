---------------------------- MODULE MCInvocation ----------------------------
(* Instance of Invocation for TLC: bytes of four values, so that every     *)
(* field of the header can be given different bytes.                       *)
EXTENDS Invocation

MCValues ==
  [target |-> {"192.0.2.10"}, wake_at |-> {0, 27, 228}, key_file |-> {"psk.bin"},
   image |-> {"frame.raw"}, parity_ratio |-> {0, 100, 101}, port |-> {6000},
   delay_us |-> {0}, chaos_drop |-> {50, 100, 101, 255}, chaos_burst |-> {3},
   chaos_shuffle |-> {TRUE}]

MCSessions == [session: {1, 6}, index: {0, 11}, data: {7}, parity: {2}]
=============================================================================
