\* Lifecycle, loss countdown, CVL filter and alarm bank, in seconds: start-up and
\* reconnect at their values in the code, the other times shortened.
SPECIFICATION MCSpec
CONSTANTS
    WarningRaise = 1
    AlarmRaise = 0
    AlarmDowngrade = 2
    AlarmClear = 3
    CellCount = 16
    StartupReady = 2
    ReconnectReady = 3
    CanAlive = 1
    ControlTimeout = 1
    CvlRaise = 3
    CvlTargets = {1, 2, 3}
    VoltageObs <- Obs16
    OtherAlarms = {}
    MaxTime = 10
INVARIANTS
    RunsTypeOK
    BolCountsWholeOutage
    StaleAlarmCoversOutage
    CvlNeverAboveTarget
    CvlCatchesUp
    AlarmCatchesUp
    HysteresisNeverBelowRaw
    AgreementReleasesAlarm
PROPERTIES
    ImplementsQualifiedService
    CvlRisesQualified
    AlarmMovesQualified
