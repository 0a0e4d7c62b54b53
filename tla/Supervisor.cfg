SPECIFICATION FairSpec
CONSTANTS
    Scripts = {"ensure", "start", "stop", "restart", "pair", "status", "detail", "update"}
    MaxCommands = 2
    MaxFaults = 1
CHECK_DEADLOCK FALSE
INVARIANTS
    DuplicateNeedsRace
    BannerTruthful
    UpdateTakesEffect
PROPERTIES
    EnsureLeavesAgent
