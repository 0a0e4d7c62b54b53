SPECIFICATION PFairSpec
CONSTANTS
    Worlds <- MainWorlds
CHECK_DEADLOCK FALSE
INVARIANTS
    SuspendedIsOffline
    NoLostWakeup
    RejectedNotReused
PROPERTIES
    CancelStops
    SleepsOffline
    WakesOnline
    FreshRetryWindow
