SPECIFICATION Spec
CONSTANTS
    onbattdelay = 1
    maxtime = 3
    killdelay = 0
    annoy = 0
    annoydelay = 1
    nologin_time = 2
    percent = 1
    runtime = 1
    polltime = 2
    nologin = "TIMEOUT"
    Options = {"kill_on_powerfail"}
    UPS_Cap = {"BATTLEV", "RUNTIM"}
    Debounce = 2
    SelfTestMax = 1
    ChangeQuiet = 0
    ChangeEvery = 0
    CommGrace = 0
    OpenRetry = 1
    TIMER_FAST = 1
    FillMax = 1
    Reports <- PlainReports
    During <- Nothing
    SelfTestAnswers = {FALSE}
    DiskMayFail = TRUE
    Horizon <- PlainHorizon
INVARIANTS
    TypeOK
    FastWhileOnBattery
    TimeoutBounded
    LoginsAllowedOnMains
PROPERTIES
    PowerfailFileLeft
    OutageProtocol
