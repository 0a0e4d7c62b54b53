SPECIFICATION Spec
CONSTANTS
    Peers = {m1}
    Panes = {p1, p2}
    NoPane = nopane
    MaxAttaches = 2
    Worlds <- DeadWorlds
CHECK_DEADLOCK FALSE
INVARIANTS
    NoDeadStream
