---------------------------- MODULE MCLifecycle ----------------------------
(* Small instances of the finalizer protocol for TLC. *)
EXTENDS Lifecycle

\* The informers of the RBAC kinds in lockstep, and the others in lockstep.
MCTwoKinds ==
    [r \in Resources |-> IF r \in {"CSIDriver", "SCC", "SCCCsi", "Prometheus"}
                         THEN "other" ELSE "rbac"]

\* All informers in lockstep.
MCOneKind == [r \in Resources |-> "any"]
=============================================================================
