SPECIFICATION Spec
CONSTANTS
    Mobiles = {m1, m2}
    NoDevice = nodevice
    Servers = {"confirming"}
    Backends = {"file"}
    MaxPairs = 1
    MaxUnpairs = 0
    MaxCrashes = 0
    MaxCommands = 1
    MaxRenames = 0
CHECK_DEADLOCK FALSE
INVARIANT
    ReloadedPairingWorks
