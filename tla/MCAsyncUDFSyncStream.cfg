SPECIFICATION FairSpec
CONSTANTS
    NumItems = 6
    MaxConcurrency = 2
    MaxPending = 3
    MaxBuffer = 3
    NumRetries = 1
INVARIANTS
    TypeOK
    Accounted
    BufferBound
PROPERTIES
    ImplementsOrderedStream
    StreamEnds
CHECK_DEADLOCK FALSE
