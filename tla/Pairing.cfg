SPECIFICATION FairSpec
CONSTANTS
    Mobiles = {m1, m2}
    NoDevice = nodevice
    Servers = {"confirming", "legacy"}
    Backends = {"file", "keyring"}
    MaxPairs = 1
    MaxUnpairs = 1
    MaxCrashes = 1
    MaxCommands = 1
    MaxRenames = 1
CHECK_DEADLOCK FALSE
INVARIANTS
    PairedMeansWorks
    FailedRepairKeepsOld
    NoGhostPairing
    DeviceHasSecret
    UnpairedCannotConnect
PROPERTIES
    AgentRestarted
