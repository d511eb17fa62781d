SPECIFICATION Spec
CONSTANTS
    Proc = {p1, p2}
    FRAMES = 5
    TABLES = 2
    ENTRIES = 1
    MAX_REFS = 3
    MaxStores = 2
    FollowSpoiled = FALSE
CHECK_DEADLOCK FALSE
SYMMETRY Alike
INVARIANTS RefsMatch WritableIsPrivate Separate BitmapExact
