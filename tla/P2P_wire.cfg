SPECIFICATION Spec
CONSTANTS
    Messages <- SomeMessages
    UserIds <- SomeUserIds
    SeqNums <- SomeSeqNums
    Changes = {1, 2, 4, 8, 16, 32, 64, 128, 255}
    MaxChanged = 60
    Key = 90
INVARIANTS
    RoundTrip
    ByteChangeCaught
    CutShortReadRight
    PlayIsRead
    RoutedRight
CHECK_DEADLOCK FALSE
