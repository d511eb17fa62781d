SPECIFICATION Spec
CONSTANTS
    Task = {t1, t2, t3, t4}
    Dev = {disk, part}
    Lba = {1, 3, 5}
    MaxCount = 2
    NULL = NULL
    DriveErrors = TRUE
CHECK_DEADLOCK FALSE
SYMMETRY Alike
INVARIANTS OneServed OwnCommand InterruptFindsWaiter
PROPERTY Scan
