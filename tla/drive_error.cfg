SPECIFICATION SchedFairSpec
CONSTANTS
    Task = {t1, t2, t3}
    Dev = {disk}
    Lba = {2, 4}
    MaxCount = 2
    NULL = NULL
    DriveErrors = TRUE
CHECK_DEADLOCK FALSE
PROPERTY IoEnds
