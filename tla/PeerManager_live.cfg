SPECIFICATION FairSpec
CONSTANTS
    Devices = {d1}
    Attempts = {a1}
    NoAttempt = none
    Unpaired = unpaired
    MaxPeers = 1
    MaxReplaced = 1
    MaxConnects = 1
    Worlds <- LiveWorlds
CHECK_DEADLOCK FALSE
INVARIANTS
    WaitsOnlyWhileClosed
    ShutdownWaitsForAll
    WatchdogWatchesTracked
PROPERTIES
    SlotFreed
    ReloadEnds
    ShutdownEnds
    LossResolved
