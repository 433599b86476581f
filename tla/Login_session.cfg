SPECIFICATION Spec
CONSTANTS
    Handlers = {h1, h2}
    h1 = h1
    h2 = h2
    Keeper = keeper
    NoOne = noOne
    MaxRetries = 1
    MaxAttempts = 2
    MaxIssued = 2
    MaxTroubles = 2
INVARIANTS
    TypeOK
    OneClient
    SettledIsOneSession
    SavedBeforeReturn
    OneLateCall
SYMMETRY Symmetry
CHECK_DEADLOCK FALSE
