SPECIFICATION FairSpec
CONSTANTS
    Peers = {m1}
    Panes = {p1}
    NoPane = nopane
    MaxAttaches = 1
    Worlds <- LiveWorlds
CHECK_DEADLOCK FALSE
PROPERTIES
    DetachEnds
