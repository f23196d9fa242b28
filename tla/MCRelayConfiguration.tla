------------------------ MODULE MCRelayConfiguration ------------------------
(* RelayConfiguration for TLC: commands, devices and challenges are model   *)
(* values no definition tells apart.                                        *)
EXTENDS RelayConfiguration, TLC

Symmetry == Permutations(Commands) \cup Permutations(Devices)
            \cup Permutations(Challenges)
============================================================================
