------------------------------- MODULE MCTask -------------------------------
(* TLC instances of Task. *)
EXTENDS Task

(* Bound: the fifth slot is used by the processes of the first three ticks *)
(* while nobody sleeps; four slots are followed without this limit.        *)
Bounds == state[4] = "FREE" \/ (sleeping_queue = <<>> /\ jiffies <= 3)
=============================================================================
