SPECIFICATION Spec
CONSTANTS
    Scripts = {"ensure"}
    MaxCommands = 2
    MaxFaults = 0
CHECK_DEADLOCK FALSE
INVARIANTS
    AtMostOneAgent
