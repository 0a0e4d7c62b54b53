SPECIFICATION Spec
CONSTANTS
    Devices = {d1}
    Attempts = {}
    NoAttempt = none
    Unpaired = unpaired
    MaxPeers = 1
    MaxReplaced = 1
    MaxConnects = 2
    Worlds <- ReloadWorlds
CHECK_DEADLOCK FALSE
INVARIANTS
    ClosedTracksNothing
    TrackedNotClosing
    OnlyPairedTracked
    NoOrphanSession
    NothingSurvivesCloseAll
