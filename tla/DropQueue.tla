----------------------------- MODULE DropQueue -----------------------------
(***************************************************************************)
(* What the keyboard buffer promises (061_fifo.md): a queue of at most     *)
(* Size bytes that loses its oldest byte when another one is put into a    *)
(* full queue.  Bytes are told apart by the number of the key press they   *)
(* come from; a reader may take several in one step.                       *)
(***************************************************************************)
EXTENDS Naturals, Sequences

CONSTANTS Numbers, Size

VARIABLES queue, number     \* the bytes in the queue, the number of the next

Init == queue = <<>> /\ number = 0

Put ==
    /\ queue' = Append(IF Len(queue) = Size THEN Tail(queue) ELSE queue, number)
    /\ number' = (number + 1) % Numbers

Get ==
    /\ \E n \in 1..Len(queue) : queue' = SubSeq(queue, n + 1, Len(queue))
    /\ UNCHANGED number

Next == Get \/ Put

Spec == Init /\ [][Next]_<<queue, number>>
=============================================================================
