SPECIFICATION Spec
CONSTANTS
    Task = {k1, k2, k3}
    Syscall = {}
    NULL = NULL
    MaxRepeat = 1
PROPERTY HandOff
