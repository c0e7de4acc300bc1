SPECIFICATION Spec
CONSTANTS
    FrameSize = 2
    Capacity = 4
    Burst <- MCBurst
    WordSize = 8
CHECK_DEADLOCK FALSE
PROPERTY StopReturns
