------------------------------ MODULE MCMemory ------------------------------
(* Small instances of user memory.  Processes are alike. *)
EXTENDS Memory, TLC

Alike == Permutations(Proc)
=============================================================================
