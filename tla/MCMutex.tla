------------------------------ MODULE MCMutex ------------------------------
(* Small instances of the mutex and the lock: lock.cfg, hand_off.cfg. *)
EXTENDS Mutex
=============================================================================
