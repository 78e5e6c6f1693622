\* The voltage-disagreement alarm of a 20-cell pack.
SPECIFICATION MCSpec
CONSTANTS
    WarningRaise = 1
    AlarmRaise = 0
    AlarmDowngrade = 2
    AlarmClear = 3
    CellCount = 20
    StartupReady = 1
    ReconnectReady = 2
    CanAlive = 1
    ControlTimeout = 1
    CvlRaise = 2
    CvlTargets = {1}
    VoltageObs <- Obs20
    OtherAlarms = {}
    MaxTime = 9
INVARIANT
    AgreementReleasesAlarm
