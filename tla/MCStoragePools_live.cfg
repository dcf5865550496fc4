CONSTANTS
    Pools = {"fast"}
    Nodes = {"n1"}
    PrefixOf <- MCDistinct
    Busy = TRUE
    MaxEdits = 2
    MaxFaults = 1
    MaxLag = 3
SPECIFICATION FairSpec
PROPERTIES DeletionFinishesUnlessStuck PoolsMountedOnceCleaned
CHECK_DEADLOCK FALSE
