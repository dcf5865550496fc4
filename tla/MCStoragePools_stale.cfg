CONSTANTS
    Pools = {fast, slow}
    Nodes = {"n1"}
    PrefixOf <- MCDistinct
    Busy = TRUE
    MaxEdits = 1
    MaxFaults = 1
    MaxLag = 2
SPECIFICATION Spec
INVARIANTS TypeOK
PROPERTIES KeepsWanted ReleaseWaits KnownJobsRunToEnd
SYMMETRY MCSymmetry
CHECK_DEADLOCK FALSE
