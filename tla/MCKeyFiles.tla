----------------------------- MODULE MCKeyFiles -----------------------------
(* Instance of KeyFiles for TLC: one stem is the other with an extension,  *)
(* so that psk.bin has a longer name to be confused with.                  *)
EXTENDS KeyFiles, TLC

MCStems == {"psk", "psk.bin"}
MCExtensions == {"bin", "key", "session_id"}
Symmetry == Permutations(Keys)
=============================================================================
