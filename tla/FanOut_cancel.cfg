SPECIFICATION FairSpec
CONSTANTS
    r1 = r1
    r2 = r2
    r3 = r3
    c1 = c1
    c2 = c2
    Requests <- OneRequest
    Clients <- OneClient
    QueueSize = 1
    HandlerCancellation = TRUE
    NoClient = NoClient
    NoStream = NoStream
PROPERTY CopyTornDown
CHECK_DEADLOCK FALSE
