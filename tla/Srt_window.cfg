SPECIFICATION FairSpec
CONSTANTS
    Half = 8
    Start = 14
    N = 6
    MaxAhead = 3
    ControlSeqs = {5}
    Duplicates = 1
    Timers = {t1, t2}
    Receiver = receiver
    NoTimer = noTimer
    t1 = t1
    t2 = t2
INVARIANTS
    BufferIsAhead
    GapHasTimer
    ReleasedInOrder
    HandedOverOnce
    AckIsReceived
PROPERTY NeverStalls
CHECK_DEADLOCK FALSE
