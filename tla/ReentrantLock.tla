--------------------------- MODULE ReentrantLock ---------------------------
(***************************************************************************)
(* What mutexlock_t promises its users (docs 054_lock.md): at most one     *)
(* task holds the lock, the holder may take it again, and it is free for   *)
(* the others after as many releases.                                      *)
(***************************************************************************)
EXTENDS Naturals

CONSTANT Task

VARIABLE held           \* how often each task holds the lock

Init == held = [t \in Task |-> 0]

Acquire(t) ==
    /\ \A u \in Task \ {t} : held[u] = 0
    /\ held' = [held EXCEPT ![t] = held[t] + 1]

Release(t) ==
    /\ held[t] > 0
    /\ held' = [held EXCEPT ![t] = held[t] - 1]

Next == \E t \in Task : Acquire(t) \/ Release(t)

Spec == Init /\ [][Next]_held
=============================================================================
