SPECIFICATION Spec
CONSTANTS
    r1 = r1
    r2 = r2
    r3 = r3
    c1 = c1
    c2 = c2
    Requests <- TwoRequests
    Clients <- TwoClients
    QueueSize = 2
    HandlerCancellation = TRUE
    NoClient = NoClient
    NoStream = NoStream
SYMMETRY Interchangeable
INVARIANT RegistryExact
INVARIANT OneLivePerClient
INVARIANT StopsWithLastViewer
INVARIANT EndIsLast
INVARIANT PlaceholderIsOverFirst
PROPERTY ImplementsSharedSession
CHECK_DEADLOCK FALSE
