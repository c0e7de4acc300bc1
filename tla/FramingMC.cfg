SPECIFICATION Spec
CONSTANTS
    Size <- MCSize
    HeaderSize = 2
    MaxPacket = 3
    MaxSent = 4
    PipeSize = 7
CHECK_DEADLOCK FALSE
INVARIANT TypeOK
PROPERTY HandedWhole
