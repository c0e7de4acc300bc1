SPECIFICATION LinkSpec
CONSTANTS
    SeqSize = 16
    MaxConcealed = 1
    FirstDepth = 1
    MaxDepth = 1
    Estimate <- MCEstimate
    RecalcEvery = 1
    RingFrames = 1
    MaxRead = 1
    MaxSessions = 2
    MaxSent = 4
    NetSize = 3
    MaxCrashes = 1
CHECK_DEADLOCK FALSE
INVARIANTS
    LinkTypeOK
    LateWithinStream
    TcpHidesOnlyUnsent
PROPERTIES
    DecodedInOrder
