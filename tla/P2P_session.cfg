SPECIFICATION FairSpec
CONSTANTS
    Servers = {s1, s2}
    s1 = s1
    s2 = s2
    Ports = {publicPort, mappedPort}
    PublicPort = publicPort
    publicPort = publicPort
    mappedPort = mappedPort
    NoPort = noPort
    NoServer = noServer
    Openings <- SomeOpenings
    FrameCap = 1
    Pages = 2
    Tries = 2
    MaxTroubles = 1
INVARIANTS
    IdIsControls
    NothingLeftOpen
    AcksTargetVideo
PROPERTIES
    EverythingEnds
    ComesUp
    LeaverNoticed
CHECK_DEADLOCK FALSE
