-------------------------- MODULE MCSnapshotFilter --------------------------
(* SnapshotFilter for TLC: a public key and two spellings of a private one. *)
EXTENDS SnapshotFilter

MCNames == {"speed", "filename", "FileName"}
MCLowerCase == [k \in MCNames |-> IF k = "FileName" THEN "filename" ELSE k]
MCPrivateKeys == {"filename"}
=============================================================================
