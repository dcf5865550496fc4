CONSTANTS
    CRs = {"hpp"}
    SccUsed = FALSE
    PromUsed = FALSE
    KindOf <- MCOneKind
    MaxUserOps = 2
    MaxFaults = 1
SPECIFICATION FairSpec
PROPERTIES DeletionCompletes Settles
CHECK_DEADLOCK FALSE
