SPECIFICATION FairSpec
CONSTANTS
    Handlers = {h1, h2}
    h1 = h1
    h2 = h2
    Keeper = keeper
    NoOne = noOne
    MaxRetries = 1
    MaxAttempts = 2
    MaxIssued = 1
    MaxTroubles = 1
PROPERTIES
    EveryCallEnds
    KeepaliveEnds
CHECK_DEADLOCK FALSE
