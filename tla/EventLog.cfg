SPECIFICATION Spec
CONSTANTS
    Device = device
    sig = sig
    Others = {sig}
    Max = 5
    Keep = 4
    NLE = 2
    DiskMayFail = TRUE
    LogMax = 5
INVARIANTS
    TypeOK
    EndKept
    NothingTwice
    LastLines
CHECK_DEADLOCK FALSE
