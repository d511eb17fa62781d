SPECIFICATION FairSpec
CONSTANTS
    Task = {t1, t2, t3}
    Dev = {disk, part}
    Lba = {2}
    MaxCount = 2
    NULL = NULL
    DriveErrors = FALSE
PROPERTIES IoEnds DiskWorks
