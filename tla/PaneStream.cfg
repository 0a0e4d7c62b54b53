SPECIFICATION Spec
CONSTANTS
    Peers = {m1, m2}
    Panes = {p1, p2}
    NoPane = nopane
    MaxAttaches = 2
    Worlds <- MainWorlds
CHECK_DEADLOCK FALSE
INVARIANTS
    StreamIsKnown
    WindowReleased
    AttachedIsFed
    StallIsReported
PROPERTIES
    NothingAfterReply
