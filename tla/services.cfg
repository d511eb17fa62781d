SPECIFICATION Spec
CONSTANTS
    NULL = NULL
    Queue = {p, q}
    Node = {na, nb, nc, nd}
    na = na
    nb = nb
    nc = nc
    nd = nd
    key <- Keys
    BLOCK_BITS = 5
    MAP_BLOCKS = 2
    INODE_NR = 2
    DIRECT_BLOCKS = 1
    BLOCK_INDEXES = 2
    BLOCK_INODES = 4
    InodeNrs = {4}
    BlockNrs = {4, 7}
    MaxHeld = 2
    PAGE_SIZE = 6
    ARENA_SIZE = 2
    MIN_BLOCK_SIZE = 2
    ARENA_DESC_COUNT = 2
    START = 1
    PAGES = 4
    Sizes = {1, 3, 6}
    Char = {"x"}
    SCR_WIDTH = 2
    SCR_HEIGHT = 2
    CGA_MEM_SIZE = 10
    MaxLines = 7
    Alarms = {1, 59, 61, 3599, 7200, 86399, 90061}
    Base = 3
    MaxTicks = 2
    DEV_NR = 7
    ATA_BUS_NR = 2
    ATA_DISK_NR = 1
    ATA_PARTITION_NR = 2
    LBA_NR = 2
CHECK_DEADLOCK FALSE
INVARIANTS HeapSound TimeExact DevicesSound MapsExact InodeTable
PROPERTIES ListsExact ConsoleExact FilesKeep
