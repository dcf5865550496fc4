CONSTANTS
    Versions = {"1.0.0", "2.0.0"}
    Precedence <- MCPrecedence
    Legacy = FALSE
    Nodes = 1
    MaxEnv = 3
    MaxFaults = 2
SPECIFICATION FairSpec
PROPERTIES BecomesHealthy ReportsNotReady GaugeAlerts
CHECK_DEADLOCK FALSE
