CONSTANTS
    Versions = {"1.0.0", "2.0.0", "2.0.0+b"}
    Precedence <- MCPrecedence
    Legacy = TRUE
    Nodes = 1
    MaxEnv = 4
    MaxFaults = 2
SPECIFICATION Spec
INVARIANTS TypeOK RestsTruthful
PROPERTIES DowngradeWritesNothing
CHECK_DEADLOCK FALSE
