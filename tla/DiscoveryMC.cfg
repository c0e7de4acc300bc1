SPECIFICATION Spec
CONSTANTS
    PC = {p}
    Listener = {l1, l2}
    MaxPosts = 2
INVARIANTS
    TypeOK
    ShownIsListed
PROPERTIES
    ListenersEnd
    ListFollowsBeacons
