CONSTANTS
    CRs = {"hpp"}
    SccUsed = TRUE
    PromUsed = FALSE
    KindOf <- MCTwoKinds
    MaxUserOps = 2
    MaxFaults = 1
SPECIFICATION Spec
INVARIANTS TypeOK NoOrphans RestsConverged
PROPERTIES ReleasedClean NoLostEdits ImplementsLease
CHECK_DEADLOCK FALSE
