SPECIFICATION Spec
CONSTANTS
    SeqSize = 8
    MaxConcealed = 2
    FirstDepth = 2
    MaxDepth = 3
    Estimate <- MCEstimate
    RecalcEvery = 2
    RingFrames = 4
    MaxRead = 1
INVARIANTS
    TypeOK
    RingGapless
    LatencyBounded
PROPERTIES
    NeverBackwards
    DepthInForce
