SPECIFICATION Spec
CONSTANTS
    PC = {p, q}
    MaxIntents = 3
CHECK_DEADLOCK FALSE
INVARIANTS
    TypeOK
    MicOnlyInForeground
    StopMeansStop
    ScreenFollowsService
