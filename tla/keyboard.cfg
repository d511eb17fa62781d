SPECIFICATION FairSpec
CONSTANTS
    Task = {t1, t2}
    NULL = NULL
    Keys = {"a", "slash", "shift_l", "capslock"}
    BUFFER_SIZE = 3
    MaxCount = 2
    Numbers = 3
INVARIANTS NoLostWakeup
PROPERTIES TypedAsHeld IsQueue ReaderServed
