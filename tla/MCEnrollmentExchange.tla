------------------------ MODULE MCEnrollmentExchange ------------------------
(* EnrollmentExchange for TLC: challenge ids and pairings are symmetric;    *)
(* relays are too, and are their own keys.                                  *)
EXTENDS EnrollmentExchange, TLC

Symmetry == Permutations(Challenges) \cup Permutations(Pairings)
            \cup Permutations(Peers)
============================================================================
