CONSTANTS
    Pools = {"fast", "fast-nvme"}
    Nodes = {"n1"}
    PrefixOf <- MCPrefix
    Busy = FALSE
    MaxEdits = 1
    MaxFaults = 0
    MaxLag = 2
SPECIFICATION Spec
PROPERTIES CleansOnlyUnused
CHECK_DEADLOCK FALSE
