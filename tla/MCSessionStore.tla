--------------------------- MODULE MCSessionStore ---------------------------
(* Instances of SessionStore for TLC.  Every initial file content is an    *)
(* initial state, malformed and full ones included, and the counter is     *)
(* given few values, so that it overflows within the runs.                 *)
EXTENDS SessionStore
=============================================================================
