SPECIFICATION SchedFairSpec
CONSTANTS
    Task = {t1, t2, t3}
    Dev = {disk}
    Lba = {2, 4}
    MaxCount = 1
    NULL = NULL
    DriveErrors = FALSE
PROPERTY EveryRequestServed
