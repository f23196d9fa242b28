--------------------------- MODULE MCRelaySession ---------------------------
(* RelaySession for TLC: connection slots are interchangeable. *)
EXTENDS RelaySession, TLC

Symmetry == Permutations(Conns)
==============================================================================
