SPECIFICATION FairSpec
CONSTANTS
    QueueCap = 2
    MaxRetries = 3
    Chunks = 4
    MaxStalls = 2
INVARIANTS
    WireIsStream
    OneLateChunk
PROPERTY CameraLetGo
CHECK_DEADLOCK FALSE
