CONSTANTS
    Touched = {"DaemonSetCsi", "ServiceAccountCsi", "ClusterRoleBindingCsi", "CSIDriver", "ClusterRoleCsi",
               "PrometheusRule"}
    Duplicates = {}
    MaxEvents = 2
SPECIFICATION FairSpec
INVARIANTS TypeOK
PROPERTIES UsersLabelsSurvive Settles StopsWriting PodsAuthenticated DeletionClean
CHECK_DEADLOCK FALSE
