-------------------------- MODULE MCFileReplacement --------------------------
(* FileReplacement on a small instance. *)
EXTENDS FileReplacement, TLC

(* Writers, documents and inodes are interchangeable. *)
Symmetry ==
    Permutations(Writers) \cup Permutations(Documents) \cup Permutations(Inodes)

==============================================================================
