SPECIFICATION Spec
CONSTANT Timeout = 2
CHECK_DEADLOCK FALSE
INVARIANTS
    TypeOK
    NoUseAfterFree
    AllReleased
    DisconnectRevocable
PROPERTIES
    StopEnds
    SilenceNoticed
