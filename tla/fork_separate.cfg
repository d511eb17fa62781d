SPECIFICATION Spec
CONSTANTS
    Proc = {p1, p2}
    FRAMES = 5
    TABLES = 2
    ENTRIES = 1
    MAX_REFS = 3
    MaxStores = 2
    FollowSpoiled = TRUE
CHECK_DEADLOCK FALSE
INVARIANT ForkSeparates
