CONSTANTS
    Touched = {}
    Duplicates = {"daemonsets", "serviceaccounts"}
    MaxEvents = 0
SPECIFICATION FairSpec
PROPERTIES DuplicatesGo
CHECK_DEADLOCK FALSE
