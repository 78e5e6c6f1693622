\* Times in units of 0.75 s, the longest ones shortened; the list of changes is
\* trimmed within the bound.
SPECIFICATION Spec
CONSTANTS
    EvidenceTimeout = 3
    SwitchQuiet = 1
    SwitchCount = 2
    Hold = 4
    Settle = 1
    RecentKept = 2
    TransitionsKept = 2
    Disagreements = 2
    MaxTime = 6
    MaxStrays = 1
    MaxChanges = 4
    MaxStreak = 3
INVARIANTS
    ProfileTypeOK
    CrosscheckWhileListed
PROPERTIES
    RightProfileStays
