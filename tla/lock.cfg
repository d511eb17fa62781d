SPECIFICATION FairSpec
CONSTANTS
    Task = {k1, k2, s1}
    Syscall = {s1}
    NULL = NULL
    MaxRepeat = 2
INVARIANTS MutualExclusion AssertsHold NoLostWakeup IrqRestored
PROPERTIES FreeIsTaken ImplementsLock
