SPECIFICATION Spec
CONSTANTS
    Task = {t1, t2}
    Block = {1, 2, 3}
    NBUF = 2
    MaxRefs = 2
    MaxVersion = 2
CHECK_DEADLOCK FALSE
SYMMETRY Alike
INVARIANTS RefsCounted OneBufferPerBlock Coherent
