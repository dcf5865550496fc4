CONSTANTS
    Touched = {"PrometheusRule"}
    Duplicates = {}
    MaxEvents = 1
SPECIFICATION FairSpec
PROPERTIES RuleRestored
CHECK_DEADLOCK FALSE
