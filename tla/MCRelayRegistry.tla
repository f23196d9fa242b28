--------------------------- MODULE MCRelayRegistry ---------------------------
(* RelayRegistry on a small instance. *)
EXTENDS RelayRegistry, TLC

(* Devices are interchangeable. *)
Symmetry == Permutations(DeviceIds)

==============================================================================
