SPECIFICATION Spec
CONSTANT MaxDaemons = 2
CHECK_DEADLOCK FALSE
INVARIANTS
    TypeOK
    ShownIsSaid
PROPERTY OldDaemonsEnd
