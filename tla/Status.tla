------------------------------- MODULE Status -------------------------------
(***************************************************************************)
(* What the operator reports about one live HostPathProvisioner: the three *)
(* status conditions, the versions and the ready gauge.  A reconcile pass  *)
(* reads the CR and the DaemonSets from caches, writes the CR up to twice  *)
(* once the finalizer is in place (module Lifecycle), and fails when the   *)
(* API server has a newer copy; the DaemonSets change under it, the        *)
(* operator may be replaced by one of another version between any two      *)
(* calls, and storage pool claims bind when they bind.                     *)
(***************************************************************************)
EXTENDS Integers, FiniteSets

CONSTANTS
    Versions,   \* operator version strings
    Precedence, \* their semver precedence, 0 for one that does not parse
    Legacy,     \* spec.pathConfig is set: two DaemonSets instead of one
    Nodes,      \* bound: the most pods a DaemonSet wants
    MaxEnv,     \* bound: changes of the DaemonSets' pods and new claims
    MaxFaults   \* bound: failed reconciles, other writers of the CR, restarts

ASSUME VersionAssumption == "" \notin Versions /\ Precedence \in [Versions -> Nat]
ASSUME StatusAssumption == Legacy \in BOOLEAN /\ Nodes \in Nat /\ MaxEnv \in Nat /\ MaxFaults \in Nat

VARIABLES
    stored,  \* the CR's status at the API server
    cached,  \* the operator's cached copy of it
    current, \* is the cached copy the latest version?
    ds,      \* status of the DaemonSets
    dsSeen,  \* the cached copy of that
    bound,   \* are all storage pool claims bound?
    queued,  \* is there a reconcile request?
    op,      \* the pass in progress
    version, \* version of the running operator
    gauge,   \* kubevirt_hpp_cr_ready
    env,     \* number of pod changes and new claims so far
    faults   \* number of faults so far

vars == <<stored, cached, current, ds, dsSeen, bound, queued, op, version, gauge, env, faults>>

-----------------------------------------------------------------------------
\* The conditions Available, Progressing, Degraded; a condition that is not
\* set counts as false.
Conditions == [available : BOOLEAN, progressing : BOOLEAN, degraded : BOOLEAN]

Conds(a, p, d) == [available |-> a, progressing |-> p, degraded |-> d]

NoConditions             == Conds(FALSE, FALSE, FALSE)
CrHealthy                == Conds(TRUE, FALSE, FALSE)
CrUpgradeHealingDegraded == Conds(TRUE, TRUE, TRUE)
CrFailed                 == Conds(FALSE, FALSE, TRUE)
CrFailedHealing          == Conds(FALSE, TRUE, TRUE)
CrDeploying              == Conds(FALSE, TRUE, FALSE)

\* observed is status.observedVersion, target both status.targetVersion and
\* status.operatorVersion, which are always set together.
Statuses == [conds : Conditions, observed : Versions \cup {""}, target : Versions \cup {""}]

isDeploying(cr) == cr.observed = ""
isUpgrading(cr) == cr.observed # "" /\ cr.observed # cr.target

\* Mutant of canUpgrade: a downgrade is an upgrade like any other.
canUpgradeDown(observed, target) ==
    IF observed = "" \/ observed = target THEN "no"
    ELSE IF Precedence[target] = Precedence[observed] THEN "no"
    ELSE "yes"

\* canUpgrade: "no", "yes", or "refused" for a downgrade.
canUpgrade(observed, target) ==
    IF observed = "" \/ observed = target THEN "no"
    ELSE IF Precedence[observed] = 0 \/ Precedence[target] = 0 THEN "yes"
    ELSE IF Precedence[target] < Precedence[observed] THEN "refused"
    ELSE IF Precedence[target] = Precedence[observed] THEN "no"
    ELSE "yes"

DaemonSets == IF Legacy THEN {"legacy", "csi"} ELSE {"csi"}

PodCounts == [ready : 0..Nodes, desired : 0..Nodes]

checkDaemonSetReady(s) == s.ready > 0 /\ s.ready >= s.desired

AllReady(d) == \A n \in DaemonSets : checkDaemonSetReady(d[n])

\* Mutant of checkDegraded: a degraded CR keeps its conditions.
checkDegradedSilent(cr, degraded) == cr.conds

\* checkDegraded: the conditions of a deployed CR that is degraded.
checkDegraded(cr, degraded) ==
    IF degraded /\ ~isDeploying(cr) THEN CrFailed ELSE cr.conds

\* Mutants of ReadyGauge: the gauge is incremented instead of set, and it is
\* only set to 0 for a CR that was never ready.
ReadyGaugeCounts(cr) == gauge + 1
ReadyGaugeSticks(cr) == IF cr.conds.available \/ gauge = 1 THEN 1
                        ELSE IF ~cr.conds.progressing THEN 0
                        ELSE gauge

\* The gauge after a pass has read the CR: "Not an issue if progress is still
\* ongoing".
ReadyGauge(cr) == IF cr.conds.available THEN 1
                  ELSE IF ~cr.conds.progressing THEN 0
                  ELSE gauge

\* A pass: its copy of the CR, the copy it started from, whether its copy is
\* the latest version, whether the copy has got a new resource version or a
\* new transition time since, whether the pass has failed.
Passes == [pc : {"idle", "mark", "update", "status", "write"},
           cr : Statuses, before : Statuses,
           latest : BOOLEAN, touched : BOOLEAN, err : BOOLEAN]

Idle == [pc |-> "idle", cr |-> [conds |-> NoConditions, observed |-> "", target |-> ""],
         before |-> [conds |-> NoConditions, observed |-> "", target |-> ""],
         latest |-> FALSE, touched |-> FALSE, err |-> FALSE]

Init ==
    /\ stored = Idle.cr
    /\ cached = stored /\ current = TRUE
    /\ ds = [n \in DaemonSets |-> [ready |-> 0, desired |-> 0]] /\ dsSeen = ds
    /\ bound \in BOOLEAN
    /\ queued = TRUE
    /\ op = Idle
    /\ version \in Versions
    /\ gauge = -1
    /\ env = 0 /\ faults = 0

-----------------------------------------------------------------------------
(* The environment.                                                        *)

\* A DaemonSet's pods come, go, or change their readiness.
PodsChange(n, s) ==
    /\ env < MaxEnv /\ env' = env + 1
    /\ s # ds[n]
    /\ ds' = [ds EXCEPT ![n] = s]
    /\ UNCHANGED <<stored, cached, current, dsSeen, bound, queued, op, version, gauge, faults>>

\* The last claim is bound.  Claims are not watched.
ClaimsBind ==
    /\ ~bound /\ bound' = TRUE
    /\ UNCHANGED <<stored, cached, current, ds, dsSeen, queued, op, version, gauge, env, faults>>

\* An event of a DaemonSet, or of the CR, reaches its cache and the queue.
DeliverDaemonSet(n) ==
    /\ dsSeen[n] # ds[n]
    /\ dsSeen' = [dsSeen EXCEPT ![n] = ds[n]]
    /\ queued' = TRUE
    /\ UNCHANGED <<stored, cached, current, ds, bound, op, version, gauge, env, faults>>

DeliverCR ==
    /\ ~current
    /\ cached' = stored /\ current' = TRUE
    /\ queued' = TRUE
    /\ UNCHANGED <<stored, ds, dsSeen, bound, op, version, gauge, env, faults>>

\* Somebody else writes the CR: a user edits its spec.
OtherWrite ==
    /\ faults < MaxFaults /\ faults' = faults + 1
    /\ current' = FALSE
    /\ op' = [op EXCEPT !.latest = FALSE]
    /\ UNCHANGED <<stored, cached, ds, dsSeen, bound, queued, version, gauge, env>>

\* The operator stops and one of version v starts: empty queue and caches that
\* are filled by a list, the gauge at its initial value.
Restart(v) ==
    /\ faults < MaxFaults /\ faults' = faults + 1
    /\ version' = v
    /\ op' = Idle
    /\ cached' = stored /\ current' = TRUE /\ dsSeen' = ds
    /\ queued' = TRUE
    /\ gauge' = -1
    /\ UNCHANGED <<stored, ds, bound, env>>

-----------------------------------------------------------------------------
(* One reconcile pass.                                                     *)

\* The pass returns an error: the request comes back.
Abort == op' = Idle /\ queued' = TRUE

\* Reconcile up to the downgrade check: set the gauge from the CR as it was
\* read, note the operator's version, refuse a downgrade.
StartPass ==
    /\ op.pc = "idle" /\ queued
    /\ gauge' = ReadyGauge(cached)
    /\ IF canUpgrade(cached.observed, version) = "refused"
       THEN Abort
       ELSE /\ queued' = FALSE
            /\ op' = [Idle EXCEPT !.pc = "mark", !.latest = current, !.before = cached,
                                  !.cr = [cached EXCEPT !.target = version]]
    /\ UNCHANGED <<stored, cached, current, ds, dsSeen, bound, version, env, faults>>

\* client.Update: refused if the copy is not the latest version.  The marks
\* carry times in seconds, so a write that changes nothing else is a new
\* version, or none at all if it comes within the same second.
Update(cr, pc) ==
    IF op.latest
    THEN \E new \in IF cr = stored THEN BOOLEAN ELSE {TRUE} :
            /\ stored' = cr
            /\ current' = (current /\ ~new)
            /\ op' = IF pc = "idle" THEN Idle
                     ELSE [op EXCEPT !.pc = pc, !.cr = cr, !.touched = new]
            /\ queued' = (queued \/ op.err)
    ELSE Abort /\ UNCHANGED <<stored, current>>

\* A new install is marked deploying, an upgrade upgrading, and written.
Mark ==
    /\ op.pc = "mark"
    /\ LET upgrade == canUpgrade(op.cr.observed, version) = "yes" /\ isUpgrading(op.cr) IN
       \/ /\ isDeploying(op.cr)
          /\ Update([op.cr EXCEPT !.conds = CrDeploying], "update")
       \/ /\ ~isDeploying(op.cr) /\ upgrade
          /\ Update([op.cr EXCEPT !.conds = CrUpgradeHealingDegraded], "update")
       \/ /\ ~isDeploying(op.cr) /\ ~upgrade
          /\ op' = [op EXCEPT !.pc = "update"]
          /\ UNCHANGED <<stored, current, queued>>
    /\ UNCHANGED <<cached, ds, dsSeen, bound, version, gauge, env, faults>>

\* The pass goes on at label pc with the conditions conds; a condition that
\* changes gets a new transition time.
Become(pc, conds) ==
    [op EXCEPT !.pc = pc, !.cr.conds = conds, !.touched = @ \/ conds # op.cr.conds]

\* reconcileStoragePoolPVC: the claim of a new node or pool is created; claims
\* are never deleted.
reconcileStoragePoolPVC == env < MaxEnv /\ env' = env + 1 /\ bound' = FALSE

\* reconcileUpdate succeeds: it may create a claim, and the CR is healthy if the
\* DaemonSets are ready.
reconcileUpdate(newClaim) ==
    /\ op.pc = "update"
    /\ IF newClaim THEN reconcileStoragePoolPVC ELSE UNCHANGED <<env, bound>>
    /\ op' = Become("status", IF AllReady(dsSeen) THEN CrHealthy ELSE op.cr.conds)
    /\ UNCHANGED <<stored, cached, current, ds, dsSeen, queued, version, gauge, faults>>

\* reconcileUpdate returns an error, in any of the objects it manages.
reconcileUpdateFails ==
    /\ op.pc = "update"
    /\ faults < MaxFaults /\ faults' = faults + 1
    /\ op' = [Become("write", CrFailedHealing) EXCEPT !.err = TRUE]
    /\ UNCHANGED <<stored, cached, current, ds, dsSeen, bound, queued, version, gauge, env>>

\* reconcileStoragePoolStatus fails if a pool has a claim that is not bound; the
\* numbers it reports are left out.
reconcileStoragePoolStatus == bound

\* Mutant of reconcileStatus: that a claim is not bound is no error.
reconcileStatusSilent ==
    /\ op.pc = "status"
    /\ LET degraded == ~AllReady(dsSeen) IN
       op' = IF ~reconcileStoragePoolStatus
             THEN Become("write", CrFailedHealing)
             ELSE [Become("write", checkDegraded(op.cr, degraded)) EXCEPT
                      !.cr.observed = IF degraded THEN @ ELSE version]
    /\ UNCHANGED <<stored, cached, current, ds, dsSeen, bound, queued, version, gauge, env, faults>>

\* reconcileStatus: checkDegraded reads the DaemonSets once more; a claim that
\* is not bound is an error; else the version has been reached unless degraded.
reconcileStatus ==
    /\ op.pc = "status"
    /\ LET degraded == ~AllReady(dsSeen) IN
       op' = IF ~reconcileStoragePoolStatus
             THEN [Become("write", CrFailedHealing) EXCEPT !.err = TRUE]
             ELSE [Become("write", checkDegraded(op.cr, degraded)) EXCEPT
                      !.cr.observed = IF degraded THEN @ ELSE version]
    /\ UNCHANGED <<stored, cached, current, ds, dsSeen, bound, queued, version, gauge, env, faults>>

\* checkDegraded returns an error, a DaemonSet cannot be read: the conditions stay as
\* they are and the pools are not looked at.
checkDegradedFails ==
    /\ op.pc = "status"
    /\ faults < MaxFaults /\ faults' = faults + 1
    /\ op' = [op EXCEPT !.pc = "write", !.err = TRUE]
    /\ UNCHANGED <<stored, cached, current, ds, dsSeen, bound, queued, version, gauge, env>>

\* The pass ends: a CR that differs from the copy it started from is written.
\* Two errors may differ in their message only.
FinishPass ==
    /\ op.pc = "write"
    /\ \/ /\ op.touched \/ op.cr # op.before \/ op.err
          /\ Update(op.cr, "idle")
       \/ /\ ~op.touched /\ op.cr = op.before
          /\ op' = Idle /\ queued' = (queued \/ op.err)
          /\ UNCHANGED <<stored, current>>
    /\ UNCHANGED <<cached, ds, dsSeen, bound, version, gauge, env, faults>>

-----------------------------------------------------------------------------
Reconcile ==
    StartPass \/ Mark \/ reconcileUpdate(FALSE) \/ reconcileStatus \/ FinishPass

Next ==
    \/ Reconcile
    \/ reconcileUpdate(TRUE)
    \/ reconcileUpdateFails
    \/ checkDegradedFails
    \/ DeliverCR
    \/ \E n \in DaemonSets : DeliverDaemonSet(n)
    \/ \E n \in DaemonSets, s \in PodCounts : PodsChange(n, s)
    \/ ClaimsBind
    \/ OtherWrite
    \/ \E v \in Versions : Restart(v)

Spec == Init /\ [][Next]_vars

\* The queue is served and events arrive.  Nothing makes claims bind, pods
\* become ready, calls fail or the operator restart.
Fairness ==
    /\ WF_vars(Reconcile)
    /\ WF_vars(DeliverCR)
    /\ \A n \in DaemonSets : WF_vars(DeliverDaemonSet(n))

FairSpec == Spec /\ Fairness

-----------------------------------------------------------------------------
(* Properties.                                                             *)

\* Every variable has its type.
TypeOK ==
    /\ stored \in Statuses /\ cached \in Statuses /\ current \in BOOLEAN
    /\ ds \in [DaemonSets -> PodCounts] /\ dsSeen \in [DaemonSets -> PodCounts]
    /\ bound \in BOOLEAN /\ queued \in BOOLEAN
    /\ op \in Passes
    /\ version \in Versions /\ gauge \in {-1, 0, 1}
    /\ env \in Nat /\ faults \in Nat

\* An operator that is older than the version the CR has reached writes nothing
\* into its status: however often operators of different versions replace each
\* other in the middle of a pass, the observed version never goes back.
DowngradeWritesNothing ==
    [][stored.observed # "" /\ 0 < Precedence[version]
          /\ Precedence[version] < Precedence[stored.observed] => UNCHANGED stored]_vars

\* Nothing is left to do.
Quiescent == op = Idle /\ ~queued /\ current /\ dsSeen = ds

\* When the operator comes to rest its report is true: a CR whose DaemonSets
\* are ready is healthy and at the running version; one whose DaemonSets are
\* not is failed, or deploying if it has never been ready.  No event that
\* mattered fell between two reads of a pass.
RestsTruthful ==
    Quiescent =>
        /\ stored.target = version
        /\ AllReady(ds) => stored.conds = CrHealthy /\ stored.observed = version
        /\ ~AllReady(ds) => stored.conds = IF isDeploying(stored) THEN CrDeploying ELSE CrFailed

\* If the DaemonSets stay ready, the claims are bound and the operator is not a
\* downgrade, the CR becomes and stays healthy at the operator's version.
BecomesHealthy ==
    <>[](AllReady(ds) /\ bound /\ canUpgrade(stored.observed, version) # "refused")
        => <>[](stored.conds = CrHealthy /\ stored.observed = version)

\* If the DaemonSets of a deployed CR stay not ready, that is reported: the CR
\* is again and again not available.
ReportsNotReady ==
    <>[](~AllReady(ds) /\ canUpgrade(stored.observed, version) # "refused")
        => []<>(~stored.conds.available)

\* "Ready metric so we can alert whenever we are not ready for a while": a CR
\* that stays unavailable makes the gauge 0, on which the alert HPPNotReady
\* fires, for good, unless it is progressing, although each pass sets the gauge
\* from the CR as it was before the pass.
GaugeAlerts ==
    <>[](~stored.conds.available /\ ~stored.conds.progressing) => <>[](gauge = 0)
=============================================================================
