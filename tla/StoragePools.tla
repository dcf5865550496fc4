---------------------------- MODULE StoragePools ----------------------------
(***************************************************************************)
(* The storage pools with a PVC template of one HostPathProvisioner.  The  *)
(* operator keeps one deployment per pool and node, whose pod (the mounter)*)
(* mounts the pool's volume on the node, and replaces a deployment that is *)
(* no longer used, or all of them when the CR is deleted, by a job that    *)
(* unmounts it.  Operator, mounters and jobs only meet in the cluster: the *)
(* operator reads deployments and jobs from caches, which watch events     *)
(* bring up to date later, and a mounter and a job for the same path work  *)
(* against each other.                                                     *)
(***************************************************************************)
EXTENDS Integers, FiniteSets, Sequences

CONSTANTS
    Pools,     \* names of storage pools with a PVC template
    Nodes,     \* names of nodes
    PrefixOf,  \* the pairs of pools p, q such that "hpp-pool-" and the name of p
               \* start the names of q's deployments; <<p, p>> is missing if
               \* these names are so long that they are replaced by a hash
    Busy,      \* may a mounted pool be in use, so that umount fails?
    MaxEdits,  \* bound: edits of the spec, pods and nodes that come or go
    MaxFaults, \* bound: failed calls, failed jobs and operator restarts
    MaxLag     \* bound: watch events on their way to a cache

ASSUME PoolAssumption ==
    IsFiniteSet(Pools) /\ IsFiniteSet(Nodes) /\ PrefixOf \subseteq Pools \X Pools
ASSUME SwitchAssumption == Busy \in BOOLEAN
ASSUME BoundAssumption == MaxEdits \in Nat /\ MaxFaults \in Nat /\ MaxLag \in Nat

VARIABLES
    spec,     \* pools of the CR
    phase,    \* the CR is "live", "deleting" or "released"
    nodes,    \* nodes of the cluster
    csi,      \* nodes with a pod of the CSI DaemonSet that is not terminating
    deps,     \* deployments, one per pool and node
    depsSeen, \* the cached copy of them
    depsNews, \* what watch events will make of that copy, the next one first
    jobs,     \* cleanup jobs: "none", "running", "done" or "failed"
    jobsSeen, \* the cached copy of them
    jobsNews, \* what watch events will make of that copy
    mounters, \* running mounter pods
    mounted,  \* pool paths with a volume mounted on them
    queued,   \* is there a reconcile request?
    op,       \* the pass in progress
    edits,    \* number of edits so far
    faults    \* number of faults so far

vars == <<spec, phase, nodes, csi, deps, depsSeen, depsNews, jobs, jobsSeen, jobsNews,
          mounters, mounted, queued, op, edits, faults>>

cluster == <<spec, phase, nodes, csi>>
onNodes == <<mounters, mounted>>
ofDeps  == <<deps, depsSeen, depsNews>>
ofJobs  == <<jobs, jobsSeen, jobsNews>>

-----------------------------------------------------------------------------
\* A deployment, its mounter, its cleanup job and its path: a pool on a node.
Slots == Pools \X Nodes

JobStates == {"none", "running", "done", "failed"}
NoJobs == [s \in Slots |-> "none"]

\* A pass: the spec it works from, the nodes it found, the deployments it still
\* has to look at, those it lists as unused, the pools it still has to clean,
\* the one it cleans, the jobs it still has to delete.  The last three are for
\* the properties: deployments that the pass has created, and at its beginning
\* deployments that a cache had not shown yet and jobs that it had.
Passes ==
    [pc : {"idle", "pools", "clean", "jobs", "list", "remove"}, deleted : BOOLEAN,
     held : SUBSET Pools, used : SUBSET Nodes, todo : SUBSET Slots, unused : SUBSET Slots,
     left : SUBSET Pools, pool : SUBSET Pools, listed : SUBSET Slots,
     made : SUBSET Slots, missed : SUBSET Slots, known : SUBSET Slots]

Idle ==
    [pc |-> "idle", deleted |-> FALSE, held |-> {}, used |-> {}, todo |-> {}, unused |-> {},
     left |-> {}, pool |-> {}, listed |-> {}, made |-> {}, missed |-> {}, known |-> {}]

\* A change of the deployments or the jobs, of which the caches learn later.
DepsBecome(D) ==
    /\ deps' = D /\ (D = deps \/ Len(depsNews) < MaxLag)
    /\ depsNews' = IF D = deps THEN depsNews ELSE Append(depsNews, D)
    /\ UNCHANGED depsSeen

JobsBecome(J) ==
    /\ jobs' = J /\ (J = jobs \/ Len(jobsNews) < MaxLag)
    /\ jobsNews' = IF J = jobs THEN jobsNews ELSE Append(jobsNews, J)
    /\ UNCHANGED jobsSeen

\* What the operator reads.
currentStoragePoolDeployments == depsSeen
getCleanUpJobs == jobsSeen

\* The deployments whose creation a cache has not shown yet, and the jobs whose
\* creation it has.
Unseen == {s \in deps : ~(s \in depsSeen /\ \A i \in DOMAIN depsNews : s \in depsNews[i])}
Known  == {s \in Slots : /\ jobs[s] # "none" /\ jobsSeen[s] # "none"
                         /\ \A i \in DOMAIN jobsNews : jobsNews[i][s] # "none"}

\* Mutant of hasCleanUpFinished: one job that has succeeded is enough.
hasCleanUpFinishedAny == \E s \in Slots : getCleanUpJobs[s] \in {"none", "done"}

\* A job that has failed for good has not succeeded.
hasCleanUpFinished == \A s \in Slots : getCleanUpJobs[s] \in {"none", "done"}

\* The jobs after cleanup jobs for the slots S: one that exists is left, and
\* none is created for a node that is gone.
WithJobs(S) ==
    [s \in Slots |-> IF s \in S /\ s[2] \in nodes /\ jobs[s] = "none" THEN "running" ELSE jobs[s]]

\* getStoragePoolForDeployment: a pool of the CR whose name starts the name of
\* the deployment's pool; the first one in the order of the spec.
getStoragePoolForDeployment(s) == {p \in op.held : <<p, s[1]>> \in PrefixOf}

\* Mutant of Deployments: pool and node are mixed up.
DeploymentsSwapped(pools, used) == used \X pools

\* The deployments the CR asks for.
Deployments(pools, used) == pools \X used

Init ==
    /\ spec \in SUBSET Pools /\ phase = "live"
    /\ nodes = Nodes /\ csi \in SUBSET Nodes
    /\ deps = {} /\ depsSeen = {} /\ depsNews = <<>>
    /\ jobs = NoJobs /\ jobsSeen = NoJobs /\ jobsNews = <<>>
    /\ mounters = {} /\ mounted = {}
    /\ queued = TRUE /\ op = Idle
    /\ edits = 0 /\ faults = 0

-----------------------------------------------------------------------------
(* Users and the cluster.                                                  *)

Edit == edits < MaxEdits /\ edits' = edits + 1

Fault == faults < MaxFaults /\ faults' = faults + 1

\* A pool is added to the CR or taken from it.
EditSpec(p) ==
    /\ Edit /\ phase # "released"
    /\ spec' = IF p \in spec THEN spec \ {p} ELSE spec \cup {p}
    /\ queued' = TRUE
    /\ UNCHANGED <<phase, nodes, csi, ofDeps, ofJobs, onNodes, op, faults>>

DeleteCR ==
    /\ phase = "live" /\ phase' = "deleting"
    /\ queued' = TRUE
    /\ UNCHANGED <<spec, nodes, csi, ofDeps, ofJobs, onNodes, op, edits, faults>>

\* A pod of the CSI DaemonSet comes, or goes (it is replaced, or evicted): the
\* status of the DaemonSet changes.
CsiPod(n) ==
    /\ Edit /\ phase = "live"
    /\ csi' = IF n \in csi THEN csi \ {n} ELSE csi \cup {n}
    /\ n \in csi \/ n \in nodes
    /\ queued' = TRUE
    /\ UNCHANGED <<spec, phase, nodes, ofDeps, ofJobs, onNodes, op, faults>>

\* A node is removed, with everything that runs or is mounted on it; the
\* DaemonSet wants one pod less.
NodeGone(n) ==
    /\ Edit /\ n \in nodes
    /\ nodes' = nodes \ {n}
    /\ mounters' = {s \in mounters : s[2] # n} /\ mounted' = {s \in mounted : s[2] # n}
    /\ queued' = TRUE
    /\ UNCHANGED <<spec, phase, csi, ofDeps, ofJobs, op, faults>>

\* A watch event reaches a cache; that of a job does not lead to a request.
DeliverDeployments ==
    /\ depsNews # <<>>
    /\ depsSeen' = Head(depsNews) /\ depsNews' = Tail(depsNews)
    /\ queued' = TRUE
    /\ UNCHANGED <<cluster, deps, ofJobs, onNodes, op, edits, faults>>

DeliverJobs ==
    /\ jobsNews # <<>>
    /\ jobsSeen' = Head(jobsNews) /\ jobsNews' = Tail(jobsNews)
    /\ UNCHANGED <<cluster, ofDeps, jobs, onNodes, queued, op, edits, faults>>

\* The garbage collector removes what a released CR owns: not the jobs.
CollectGarbage ==
    /\ phase = "released" /\ deps # {} /\ DepsBecome({})
    /\ UNCHANGED <<cluster, ofJobs, onNodes, queued, op, edits, faults>>

-----------------------------------------------------------------------------
(* On the nodes.                                                           *)

\* A deployment's pod runs: the status of the deployment changes.
RunMounter(s) ==
    /\ s \in deps \ mounters /\ s[2] \in nodes
    /\ mounters' = mounters \cup {s}
    /\ queued' = TRUE
    /\ UNCHANGED <<cluster, ofDeps, ofJobs, mounted, op, edits, faults>>

\* The mounter of a deleted deployment is stopped, after a while.
StopMounter(s) ==
    /\ s \in mounters \ deps
    /\ mounters' = mounters \ {s}
    /\ UNCHANGED <<cluster, ofDeps, ofJobs, mounted, queued, op, edits, faults>>

\* Once a second: mount the volume if it is not mounted.
Mount(s) ==
    /\ s \in mounters \ mounted
    /\ mounted' = mounted \cup {s}
    /\ UNCHANGED <<cluster, ofDeps, ofJobs, mounters, queued, op, edits, faults>>

\* unmountPath: a umount that changed something is tried again a second later;
\* one that changed nothing, because nothing is mounted or because the volume
\* is in use, ends the job.
unmountPath(s) ==
    /\ jobs[s] = "running" /\ s[2] \in nodes
    /\ \/ s \in mounted /\ mounted' = mounted \ {s} /\ UNCHANGED ofJobs
       \/ (s \in mounted => Busy) /\ JobsBecome([jobs EXCEPT ![s] = "done"]) /\ UNCHANGED mounted
    /\ UNCHANGED <<cluster, ofDeps, mounters, queued, op, edits, faults>>

\* The pods of a job have failed as often as a job without a limit of its own
\* may: it ends and has not succeeded.
JobFails(s) ==
    /\ Fault /\ jobs[s] = "running"
    /\ JobsBecome([jobs EXCEPT ![s] = "failed"])
    /\ UNCHANGED <<cluster, ofDeps, onNodes, queued, op, edits>>

-----------------------------------------------------------------------------
(* A pass over a live CR: reconcileStoragePools and, at the end of          *)
(* reconcileUpdate, reconcileCleanup.                                      *)

\* Mutant of Abort: the error is swallowed.
AbortForgets == op' = Idle /\ queued' = FALSE

\* The pass fails and the request comes back.
Abort == op' = Idle /\ queued' = TRUE

\* getNodesByDaemonSet fails if a pod's node is gone; the deployments are listed.
StartPass ==
    /\ op.pc = "idle" /\ queued /\ phase = "live"
    /\ IF csi \subseteq nodes
       THEN /\ queued' = FALSE
            /\ op' = [Idle EXCEPT !.pc = "pools", !.held = spec, !.used = csi,
                                  !.todo = Deployments(spec, csi),
                                  !.unused = currentStoragePoolDeployments, !.known = Known]
       ELSE Abort
    /\ UNCHANGED <<cluster, ofDeps, ofJobs, onNodes, edits, faults>>

\* Mutant of reconcileStoragePoolDeploymentByNode: a deployment that is found
\* stays on the list of unused ones.
DeploymentByNodeKeeps(s) ==
    /\ op.pc = "pools" /\ s \in op.todo
    /\ \/ /\ s \in currentStoragePoolDeployments
          /\ op' = [op EXCEPT !.todo = @ \ {s}]
          /\ UNCHANGED <<ofDeps, queued>>
       \/ /\ s \notin currentStoragePoolDeployments \cup deps
          /\ DepsBecome(deps \cup {s})
          /\ op' = [op EXCEPT !.todo = @ \ {s}, !.made = @ \cup ({s} \cap op.unused)]
          /\ UNCHANGED queued
       \/ /\ s \in currentStoragePoolDeployments \cup deps /\ depsNews # <<>>
          /\ Abort /\ UNCHANGED ofDeps
    /\ UNCHANGED <<cluster, ofJobs, onNodes, edits, faults>>

\* A deployment that is found is used, and updated if its content differs (the
\* content is left out); one that is not found is created.  While the cache is
\* behind, the update may fail because the deployment is gone or was created
\* again, and the creation because it exists.
reconcileStoragePoolDeploymentByNode(s) ==
    /\ op.pc = "pools" /\ s \in op.todo
    /\ \/ /\ s \in currentStoragePoolDeployments
          /\ op' = [op EXCEPT !.todo = @ \ {s}, !.unused = @ \ {s}]
          /\ UNCHANGED <<ofDeps, queued>>
       \/ /\ s \notin currentStoragePoolDeployments \cup deps
          /\ DepsBecome(deps \cup {s})
          /\ op' = [op EXCEPT !.todo = @ \ {s}, !.made = @ \cup ({s} \cap op.unused)]
          /\ UNCHANGED queued
       \/ /\ s \in currentStoragePoolDeployments \cup deps /\ depsNews # <<>>
          /\ Abort /\ UNCHANGED ofDeps
    /\ UNCHANGED <<cluster, ofJobs, onNodes, edits, faults>>

\* An unused deployment is deleted, then its cleanup job is created if one of
\* the CR's pools is taken to be its pool.  The pass may end in between; a
\* failure to create the job is not noticed.
DeleteUnused(s) ==
    /\ op.pc = "pools" /\ op.todo = {} /\ s \in op.unused
    /\ DepsBecome(deps \ {s})
    /\ \/ /\ \/ \E p \in getStoragePoolForDeployment(s) : JobsBecome(WithJobs({<<p, s[2]>>}))
             \/ getStoragePoolForDeployment(s) = {} /\ UNCHANGED ofJobs
          /\ op' = [op EXCEPT !.unused = @ \ {s}]
          /\ UNCHANGED <<queued, faults>>
       \/ /\ Fault /\ UNCHANGED ofJobs
          /\ \/ op' = [op EXCEPT !.unused = @ \ {s}] /\ UNCHANGED queued
             \/ Abort
    /\ UNCHANGED <<cluster, onNodes, edits>>

-----------------------------------------------------------------------------
(* A pass over a deleted CR, up to reconcileCleanup.                        *)

StartClean ==
    /\ op.pc = "idle" /\ queued /\ phase = "deleting"
    /\ queued' = FALSE
    /\ op' = [Idle EXCEPT !.pc = "clean", !.deleted = TRUE, !.held = spec, !.left = spec,
                          !.missed = Unseen, !.known = Known]
    /\ UNCHANGED <<cluster, ofDeps, ofJobs, onNodes, edits, faults>>

\* For each pool of the CR the deployments are listed, of whichever pool.
cleanDeployments(p) ==
    /\ op.pc = "clean" /\ op.todo = {} /\ p \in op.left
    /\ op' = [op EXCEPT !.left = @ \ {p}, !.pool = {p}, !.todo = currentStoragePoolDeployments]
    /\ UNCHANGED <<cluster, ofDeps, ofJobs, onNodes, queued, edits, faults>>

\* For a deployment of the list: create the pool's cleanup job on its node and
\* delete the pool's deployment there; if the node is gone, delete the
\* deployment itself.  The pass may end after the job; a failure to create the
\* job is not noticed.
CleanDeployment(d) ==
    /\ op.pc = "clean" /\ d \in op.todo
    /\ \/ /\ d[2] \notin nodes
          /\ DepsBecome(deps \ {d})
          /\ op' = [op EXCEPT !.todo = @ \ {d}]
          /\ UNCHANGED <<ofJobs, queued, faults>>
       \/ \E p \in op.pool :
          /\ d[2] \in nodes
          /\ \/ JobsBecome(WithJobs({<<p, d[2]>>})) /\ UNCHANGED faults
             \/ Fault /\ UNCHANGED ofJobs
          /\ DepsBecome(IF <<p, d[2]>> \in currentStoragePoolDeployments
                        THEN deps \ {<<p, d[2]>>} ELSE deps)
          /\ op' = [op EXCEPT !.todo = @ \ {d}]
          /\ UNCHANGED queued
       \/ \E p \in op.pool :
          /\ d[2] \in nodes /\ Fault
          /\ JobsBecome(WithJobs({<<p, d[2]>>})) /\ UNCHANGED ofDeps
          /\ Abort
    /\ UNCHANGED <<cluster, onNodes, edits>>

-----------------------------------------------------------------------------
(* reconcileCleanup, at the end of both passes.                            *)

\* Mutant of CleanupWaits: a pass over a deleted CR does not ask to be called
\* again.
CleanupWaitsForgets == op' = Idle /\ UNCHANGED queued

\* The delay that reconcileCleanup asks for is dropped by a pass over a live CR.
CleanupWaits == op' = Idle /\ queued' = (queued \/ op.deleted)

\* Mutant of CountDeployments: the pass over a deleted CR does not count.
CountDeploymentsSkipped ==
    /\ \/ op.pc = "pools" /\ op.todo = {} /\ op.unused = {}
       \/ op.pc = "clean" /\ op.todo = {} /\ op.left = {}
    /\ op' = [Idle EXCEPT !.pc = "jobs", !.deleted = op.deleted, !.held = op.held,
                          !.missed = op.missed, !.known = op.known]
    /\ UNCHANGED <<cluster, ofDeps, ofJobs, onNodes, queued, edits, faults>>

\* There must be no deployment left, or for a live CR as many as its DaemonSet
\* wants pods, a number that may be behind.
CountDeployments ==
    /\ \/ op.pc = "pools" /\ op.todo = {} /\ op.unused = {}
       \/ op.pc = "clean" /\ op.todo = {} /\ op.left = {}
    /\ \E desired \in IF op.deleted THEN {0} ELSE {Cardinality(nodes), Cardinality(csi)} :
          IF Cardinality(currentStoragePoolDeployments) = desired
          THEN /\ op' = [Idle EXCEPT !.pc = "jobs", !.deleted = op.deleted, !.held = op.held,
                                     !.missed = op.missed, !.known = op.known]
               /\ UNCHANGED queued
          ELSE CleanupWaits
    /\ UNCHANGED <<cluster, ofDeps, ofJobs, onNodes, edits, faults>>

\* Every job must have succeeded.
CheckJobs ==
    /\ op.pc = "jobs"
    /\ IF hasCleanUpFinished
       THEN op' = [op EXCEPT !.pc = "list"] /\ UNCHANGED queued
       ELSE CleanupWaits
    /\ UNCHANGED <<cluster, ofDeps, ofJobs, onNodes, edits, faults>>

\* removeCleanUpJobs lists the jobs again and deletes them, one by one.
ListJobs ==
    /\ op.pc = "list"
    /\ op' = [op EXCEPT !.pc = "remove", !.listed = {s \in Slots : getCleanUpJobs[s] # "none"}]
    /\ UNCHANGED <<cluster, ofDeps, ofJobs, onNodes, queued, edits, faults>>

RemoveJob(s) ==
    /\ op.pc = "remove" /\ s \in op.listed
    /\ JobsBecome([jobs EXCEPT ![s] = "none"])
    /\ op' = [op EXCEPT !.listed = @ \ {s}]
    /\ UNCHANGED <<cluster, ofDeps, onNodes, queued, edits, faults>>

FinishPass ==
    /\ op.pc = "remove" /\ op.listed = {} /\ ~op.deleted
    /\ op' = Idle
    /\ UNCHANGED <<cluster, ofDeps, ofJobs, onNodes, queued, edits, faults>>

\* The finalizer is removed (module Lifecycle), unless the CR was edited.
Release ==
    /\ op.pc = "remove" /\ op.listed = {} /\ op.deleted
    /\ IF spec = op.held
       THEN phase' = "released" /\ op' = Idle /\ queued' = FALSE
       ELSE Abort /\ UNCHANGED phase
    /\ UNCHANGED <<spec, nodes, csi, ofDeps, ofJobs, onNodes, edits, faults>>

-----------------------------------------------------------------------------
\* A call fails, or the operator is restarted and lists everything anew.
CallFails ==
    /\ Fault /\ op.pc # "idle"
    /\ Abort
    /\ UNCHANGED <<cluster, ofDeps, ofJobs, onNodes, edits>>

Restart ==
    /\ Fault /\ phase # "released"
    /\ Abort
    /\ depsSeen' = deps /\ depsNews' = <<>> /\ jobsSeen' = jobs /\ jobsNews' = <<>>
    /\ UNCHANGED <<cluster, deps, jobs, onNodes, edits>>

-----------------------------------------------------------------------------
Reconcile ==
    \/ StartPass \/ StartClean
    \/ \E s \in Slots : \/ reconcileStoragePoolDeploymentByNode(s) \/ DeleteUnused(s)
                        \/ CleanDeployment(s) \/ RemoveJob(s)
    \/ \E p \in Pools : cleanDeployments(p)
    \/ CountDeployments \/ CheckJobs \/ ListJobs \/ FinishPass \/ Release

NodeSide == \E s \in Slots : RunMounter(s) \/ StopMounter(s) \/ Mount(s) \/ unmountPath(s)

Watches == DeliverDeployments \/ DeliverJobs

Environment ==
    \/ \E p \in Pools : EditSpec(p)
    \/ DeleteCR
    \/ \E n \in Nodes : CsiPod(n) \/ NodeGone(n)
    \/ \E s \in Slots : JobFails(s)
    \/ CallFails \/ Restart

Next == Reconcile \/ NodeSide \/ Watches \/ CollectGarbage \/ Environment

Spec == Init /\ [][Next]_vars

\* The queue is served, events arrive, pods are run and stopped, the mounters
\* and the jobs do their work.  Passes do not always begin with events on their
\* way: if they did, each could list a deployment whose deletion arrives before
\* the look-up, create it again and delete it as unused, for ever.
Fairness ==
    /\ WF_vars(Reconcile)
    /\ WF_vars(DeliverDeployments) /\ WF_vars(DeliverJobs)
    /\ []<>(op.pc = "idle" /\ depsNews = <<>> /\ jobsNews = <<>>)
    /\ WF_vars(CollectGarbage)
    /\ \A s \in Slots : /\ WF_vars(RunMounter(s)) /\ WF_vars(StopMounter(s))
                        /\ WF_vars(Mount(s)) /\ WF_vars(unmountPath(s))

FairSpec == Spec /\ Fairness

-----------------------------------------------------------------------------
(* Properties.                                                             *)

\* Every variable has its type.
TypeOK ==
    /\ spec \subseteq Pools /\ phase \in {"live", "deleting", "released"}
    /\ nodes \subseteq Nodes /\ csi \subseteq Nodes
    /\ deps \subseteq Slots /\ depsSeen \subseteq Slots /\ depsNews \in Seq(SUBSET Slots)
    /\ jobs \in [Slots -> JobStates] /\ jobsSeen \in [Slots -> JobStates]
    /\ jobsNews \in Seq([Slots -> JobStates])
    /\ mounters \subseteq Slots /\ mounted \subseteq Slots
    /\ queued \in BOOLEAN /\ op \in Passes
    /\ edits \in Nat /\ faults \in Nat

\* "Clean up any deployments that are no longer used": a pass over a live CR
\* starts no cleanup job for a pool on a node where it wants the pool.
CleansOnlyUnused ==
    [][\A s \in Slots :
          op.pc = "pools" /\ jobs[s] = "none" /\ jobs'[s] = "running" =>
              s \notin Deployments(op.held, op.used)]_vars

\* A pass over a live CR deletes no deployment that it wants, however far the
\* cache is behind, unless it has created it itself: then the list still showed
\* an earlier one and the look-up did not.
KeepsWanted ==
    [][\A s \in deps \ deps' :
          op.pc = "pools" /\ s \in Deployments(op.held, op.used) => s \in op.made]_vars

\* The CR is released only when the deployments and the jobs are gone that the
\* caches knew of when the pass began; a deployment may be left whose creation
\* the cache had not shown by then.
ReleaseWaits ==
    [][phase = "deleting" /\ phase' = "released" =>
          deps \subseteq op.missed /\ \A s \in op.known : jobs[s] = "none"]_vars

\* A cleanup job that the cache knew of when the pass began is deleted by the
\* pass only after it has ended, whatever appears in the cache between the two
\* lists of jobs.
KnownJobsRunToEnd == [][\A s \in op.known : jobs[s] = "running" => jobs'[s] # "none"]_vars

\* A deployment the pass over a deleted CR never deletes, a job that cannot run
\* because its node is gone, or a job that has failed.
Stuck ==
    /\ phase = "deleting"
    /\ \/ \E d \in deps : d[1] \notin spec
       \/ \E s \in Slots : jobs[s] = "running" /\ s[2] \notin nodes
       \/ \E s \in Slots : jobs[s] = "failed"

\* A deleted CR is released.
DeletionFinishes == phase = "deleting" ~> phase = "released"

\* A deleted CR is released, unless a deployment of a pool that the CR no
\* longer names, a job for a node that is gone, or a job that has failed stays
\* in the way for ever.
DeletionFinishesUnlessStuck == DeletionFinishes \/ <>[]Stuck

\* The CR wants the pool on the node, where the CSI driver runs.
Wanted(s) == phase = "live" /\ s[1] \in spec /\ s[2] \in csi /\ csi \subseteq nodes

\* "a pod that mounts that PVC on to the node at the path specified": a pool
\* that stays wanted on a node is mounted there in the end, if no cleanup job
\* for it keeps running.
PoolsMountedOnceCleaned ==
    \A s \in Slots : <>[](Wanted(s) /\ jobs[s] # "running") => <>[](s \in mounted)
=============================================================================
