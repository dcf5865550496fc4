\* One pool on one node: rollouts, evictions, a deployment deleted and made again, and
\* commands that fail.  A mounter that has nothing to do leaves the state as it is.
CONSTANTS
    p1 = p1
    p2 = p2
    Pods = {p1, p2}
    MaxChanges = 3
    MaxFaults = 2
    MaxDepth = 5
SPECIFICATION Spec
INVARIANTS TypeOK NoPileUp
PROPERTIES JobLeavesNothing Mounts JobEnds
CHECK_DEADLOCK FALSE
