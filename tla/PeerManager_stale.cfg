SPECIFICATION Spec
CONSTANTS
    Devices = {d1}
    Attempts = {}
    NoAttempt = none
    Unpaired = unpaired
    MaxPeers = 1
    MaxReplaced = 1
    MaxConnects = 2
    Worlds <- StaleWorlds
CHECK_DEADLOCK FALSE
PROPERTIES
    TornDownByOwner
