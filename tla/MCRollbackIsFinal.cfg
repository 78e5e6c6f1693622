SPECIFICATION Spec
CONSTANTS
    MaxCommands = 2
    MaxFaults = 1
    RollbackDuringBoot = TRUE
INVARIANTS
    RollbackIsFinal
