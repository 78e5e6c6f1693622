\* Two packs, the allowances of the bank of the repository's tests; alarms of two packs.
SPECIFICATION MCSpec
CONSTANTS
    Packs = {1, 2}
    First = 1
    CriticalFor = 1
    Allowance <- MCAllowance
    CvlRequests = {540, 576}
    CvlCeiling = 572
    CvlBlocked = 552
    AlarmPacks = {1, 2}
    FrameFor = 1
INVARIANTS
    BankRunTypeOK
    PermissionBacked
    StandingBankCharges
    StandingBankDischarges
    AlarmsFollowPacks
    FlagFollowsPacks
