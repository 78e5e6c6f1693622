\* The questions of a round block for longer than the period.
SPECIFICATION PSpec
CONSTANTS
    StartupReady = 0
    ReconnectReady = 1
    Freshness = 0
    Period = 1
    BlockMax = 2
    ResolveMax = 1
    RcvBuf = 1
    WallOffsets = {0, 3}
    MaxTime = 8
INVARIANTS
    PublisherTypeOK
    PublishedDataAge
    RenewedOrWithdrawn
    SelectedIsWithdrawn
