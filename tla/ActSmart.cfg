SPECIFICATION FairSpec
CONSTANTS
    onbattdelay = 1
    maxtime = 0
    killdelay = 1
    annoy = 0
    annoydelay = 0
    nologin_time = 1
    percent = 1
    runtime = 1
    polltime = 2
    nologin = "PERCENT"
    Options = {"terminate_on_powerfail"}
    UPS_Cap = {"BATTLEV"}
    Debounce = 1
    SelfTestMax = 2
    ChangeQuiet = 1
    ChangeEvery = 0
    CommGrace = 1
    OpenRetry = 1
    TIMER_FAST = 1
    FillMax = 1
    Reports <- SmartReports
    During <- SmartAlerts
    SelfTestAnswers = {TRUE, FALSE}
    DiskMayFail = TRUE
    Horizon <- SmartHorizon
INVARIANTS
    RemoteHeeded
PROPERTIES
    OffbatteryPaired
    ShutdownIsFinal
    KillPowerGuarded
    LowBatteryHalts
    OnBatteryAnnounced
