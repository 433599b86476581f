SPECIFICATION FairSpec
CONSTANTS
    r1 = r1
    r2 = r2
    r3 = r3
    c1 = c1
    c2 = c2
    Requests <- TwoRequests
    Clients <- OneClient
    QueueSize = 1
    HandlerCancellation = FALSE
    NoClient = NoClient
    NoStream = NoStream
INVARIANT DoneIsDetached
PROPERTY HandlerReturns
PROPERTY Teardown
CHECK_DEADLOCK FALSE
