------------------------------- MODULE MCFiudp -------------------------------
(* Instances of Fiudp for TLC.  The counter overflows within the runs.     *)
EXTENDS Fiudp, TLC

(* Keys are interchangeable, so it is enough to begin with one.  (SYMMETRY *)
(* would do this for safety alone.)                                        *)
FirstKey == CHOOSE k \in Keys : TRUE

(* The counter is one a run may have left, whole: a torn one comes about   *)
(* on the way, and no run writes zero.  SessionStore begins with any file. *)
HostInit ==
  /\ Init
  /\ keyFile = FirstKey
  /\ base \notin {Store!Malformed, Store!Stored(0)}

HostSpec == HostInit /\ [][Next]_vars /\ Fairness
=============================================================================
