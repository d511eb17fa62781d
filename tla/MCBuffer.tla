------------------------------ MODULE MCBuffer ------------------------------
(* Small instances of the buffer cache.  Tasks are alike. *)
EXTENDS Buffer

Alike == Permutations(Task)
=============================================================================
