SPECIFICATION FairSpec
CONSTANTS
    Bytes = {"ESC", "k", "ST", "x"}
    MaxTitleLen = 5
    LowThreshold = 0
    MaxBuffered = 1
    MaxControl = 2
    Worlds <- MainWorlds
CHECK_DEADLOCK FALSE
INVARIANTS
    ResolvedOnce
    NoLostDrain
PROPERTIES
    ConfirmFirst
    TeardownEnds
    OutputIsStripped
