SPECIFICATION Spec
CONSTANTS
    Device = device
    sig = sig
    Others = {sig}
    Max = 7
    Keep = 6
    NLE = 2
    DiskMayFail = FALSE
    LogMax = 5
INVARIANTS
    LastKept
CHECK_DEADLOCK FALSE
