SPECIFICATION Spec
CONSTANTS
    Sample <- MCSample
    Silence = 0
    Capacity = 4
    MaxBlock = 3
    Depth <- MCDepth
    WordSize = 16
INVARIANTS
    TypeOK
    WindowBounded
PROPERTIES
    ReadNeverRewinds
    ImplementsQueue
