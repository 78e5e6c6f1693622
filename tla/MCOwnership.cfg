\* Two commands of the operator (a handoff and a rollback, or two of one kind) and
\* two faults, at any step.
SPECIFICATION FairSpec
CONSTANTS
    MaxCommands = 2
    MaxFaults = 2
    RollbackDuringBoot = FALSE
PROPERTIES
    BusNotAbandoned
INVARIANTS
    OwnershipTypeOK
    OverlapAtMostOnePair
    RollbackIsFinal
    StockDownIsOwned
