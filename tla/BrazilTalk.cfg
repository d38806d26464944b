SPECIFICATION Spec
CONSTANTS
    n1 = n1
    Numbers = {n1}
    Pad = n1
    End = End
    Garbage = Garbage
    Null = Null
    CommTimeout = 1
    SetupTries = 2
    CmdTries = 2
    NoiseMax = 1
    UnplugMax = 1
    MayFallSilent = TRUE
    OpenMayFail = TRUE
INVARIANTS
    TypeOK
    SetMeansSet
PROPERTIES
    StatusCatchesUp
    LoopGoesOn
    DereferenceSafe
