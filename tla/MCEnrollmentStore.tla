------------------------- MODULE MCEnrollmentStore -------------------------
(* EnrollmentLedger for TLC: the processes, ids and keys are model values    *)
(* that no definition tells apart, so their permutations are symmetries.    *)
EXTENDS EnrollmentLedger, TLC

Symmetry == Permutations(Workers) \cup Permutations(Pairings)
            \cup Permutations(Challenges) \cup Permutations(Keys)
============================================================================
