\* The times of the code, in quarter seconds.
SPECIFICATION Spec
CONSTANTS
    EvidenceTimeout = 12
    SwitchQuiet = 3
    SwitchCount = 2
    Hold = 40
    Settle = 20
    RecentKept = 8
    TransitionsKept = 200
    Disagreements = 5
    MaxTime = 10
    MaxStrays = 0
    MaxChanges = 6
    MaxStreak = 0
INVARIANTS
    SnapshotSeesOneProfile
