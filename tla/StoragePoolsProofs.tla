-------------------------- MODULE StoragePoolsProofs --------------------------
(***************************************************************************)
(* What holds of the storage pools for any pools, nodes and bounds, however*)
(* far the caches are behind: types, which deployments a pass over a live  *)
(* CR keeps, which cleanup jobs run to their end and what a released CR    *)
(* may leave behind.                                                       *)
(***************************************************************************)
EXTENDS StoragePools, FiniteSetTheorems, SequenceTheorems, TLAPS

-----------------------------------------------------------------------------
(* The invariant.                                                          *)

\* The last event on its way to the cache of jobs tells of the jobs as they are.
LastInv ==
    /\ jobsNews = <<>> => jobsSeen = jobs
    /\ jobsNews # <<>> => jobsNews[Len(jobsNews)] = jobs

\* If the cache or an event shows a job as ended and the job is running, a later
\* event tells of its deletion.
EndedInv ==
    \A s \in Slots : jobs[s] = "running" =>
        /\ jobsSeen[s] \in {"done", "failed"} => \E j \in DOMAIN jobsNews : jobsNews[j][s] = "none"
        /\ \A i \in DOMAIN jobsNews :
              jobsNews[i][s] \in {"done", "failed"} =>
                  \E j \in DOMAIN jobsNews : j > i /\ jobsNews[j][s] = "none"

\* During a pass over a live CR, a deployment that the CR wants is on the list of
\* unused ones only until the pass has come to it, or if the pass has created it.
ListedInv ==
    op.pc = "pools" =>
        /\ ~op.deleted /\ phase # "released"
        /\ op.unused \cap Deployments(op.held, op.used) \subseteq op.todo \cup op.made

\* During a pass over a deleted CR no deployment becomes one that the cache
\* does not show, and once the cache has shown none only such ones are left.
ShownInv ==
    op.deleted =>
        /\ op.pc \in {"clean", "jobs", "list", "remove"}
        /\ Unseen \subseteq op.missed
        /\ op.pc \in {"jobs", "list", "remove"} => deps \subseteq op.missed

\* The jobs that the cache showed when the pass began are shown until the pass
\* deletes them, and have ended once the pass has found so.
KnownInv ==
    /\ op.pc \in {"pools", "clean", "jobs", "list"} => op.known \subseteq Known
    /\ op.pc \in {"list", "remove"} => \A s \in op.known : jobs[s] # "running"
    /\ op.pc = "remove" => \A s \in op.known : s \in op.listed \/ jobs[s] = "none"

PoolInv == TypeOK /\ LastInv /\ EndedInv /\ ListedInv /\ ShownInv /\ KnownInv

-----------------------------------------------------------------------------
(* Types.                                                                  *)

DepsType ==
    deps \subseteq Slots /\ depsSeen \subseteq Slots /\ depsNews \in Seq(SUBSET Slots)

JobsType ==
    /\ jobs \in [Slots -> JobStates] /\ jobsSeen \in [Slots -> JobStates]
    /\ jobsNews \in Seq([Slots -> JobStates])

LEMMA IdleType ==
    Idle \in Passes /\ Idle.pc = "idle" /\ Idle.deleted = FALSE
BY DEF Idle, Passes

LEMMA WithJobsType ==
    ASSUME JobsType, NEW S
    PROVE  WithJobs(S) \in [Slots -> JobStates]
BY DEF JobsType, WithJobs, JobStates

LEMMA DepsBecomeType ==
    ASSUME DepsType, NEW D \in SUBSET Slots, DepsBecome(D)
    PROVE  DepsType'
BY DEF DepsType, DepsBecome

LEMMA JobsBecomeType ==
    ASSUME JobsType, NEW J \in [Slots -> JobStates], JobsBecome(J)
    PROVE  JobsType'
BY DEF JobsType, JobsBecome

LEMMA ExceptType ==
    ASSUME JobsType, NEW s \in Slots, NEW st \in JobStates
    PROVE  [jobs EXCEPT ![s] = st] \in [Slots -> JobStates]
BY DEF JobsType

LEMMA StatesType == {"none", "running", "done", "failed"} = JobStates
BY DEF JobStates

LEMMA DepsSame == DepsType /\ UNCHANGED ofDeps => DepsType'
BY DEF DepsType, ofDeps

LEMMA JobsSame == JobsType /\ UNCHANGED ofJobs => JobsType'
BY DEF JobsType, ofJobs

\* The types of the variables that are neither deployments, jobs nor caches.
OtherType ==
    /\ spec \subseteq Pools /\ phase \in {"live", "deleting", "released"}
    /\ nodes \subseteq Nodes /\ csi \subseteq Nodes
    /\ mounters \subseteq Slots /\ mounted \subseteq Slots
    /\ edits \in Nat /\ faults \in Nat

LEMMA TypeParts ==
    TypeOK <=> OtherType /\ DepsType /\ JobsType /\ op \in Passes /\ queued \in BOOLEAN
BY DEF TypeOK, OtherType, DepsType, JobsType

LEMMA TypePartsNext ==
    ASSUME OtherType', DepsType', JobsType', op' \in Passes, queued' \in BOOLEAN
    PROVE  TypeOK'
BY DEF TypeOK, OtherType, DepsType, JobsType

LEMMA SetsType ==
    ASSUME TypeOK
    PROVE  /\ Unseen \subseteq Slots /\ Known \subseteq Slots
           /\ currentStoragePoolDeployments \subseteq Slots
           /\ Deployments(spec, csi) \subseteq Slots
BY DEF TypeOK, Unseen, Known, currentStoragePoolDeployments, Deployments, Slots

\* The steps that begin a pass keep the types.
LEMMA StartTypes ==
    ASSUME TypeOK
    PROVE  StartPass \/ StartClean => TypeOK'
<1>1. ASSUME StartPass PROVE TypeOK'
  <2>1. op' \in Passes
    <3>1. CASE csi \subseteq nodes
      <4>1. op' = [Idle EXCEPT !.pc = "pools", !.held = spec, !.used = csi,
                               !.todo = Deployments(spec, csi),
                               !.unused = currentStoragePoolDeployments, !.known = Known]
        BY <1>1, <3>1 DEF StartPass
      <4>. QED  BY <4>1, SetsType DEF TypeOK, Passes, Idle
    <3>2. CASE ~(csi \subseteq nodes)
      BY <1>1, <3>2, IdleType DEF StartPass, Abort
    <3>. QED  BY <3>1, <3>2
  <2>2. queued' \in BOOLEAN
    BY <1>1, Zenon DEF StartPass, Abort
  <2>3. OtherType'
    BY <1>1, TypeParts DEF StartPass, OtherType, cluster, onNodes
  <2>. QED  BY <1>1, <2>1, <2>2, <2>3, TypeParts, TypePartsNext, DepsSame, JobsSame DEF StartPass
<1>2. ASSUME StartClean PROVE TypeOK'
  <2>1. op' \in Passes
    BY <1>2, SetsType DEF StartClean, TypeOK, Passes, Idle
  <2>2. queued' \in BOOLEAN
    BY <1>2, Zenon DEF StartClean
  <2>3. OtherType'
    BY <1>2, TypeParts DEF StartClean, OtherType, cluster, onNodes
  <2>. QED  BY <1>2, <2>1, <2>2, <2>3, TypeParts, TypePartsNext, DepsSame, JobsSame DEF StartClean
<1>. QED  BY <1>1, <1>2

\* Creating and deleting deployments of a live CR keeps the types.
LEMMA LiveTypes ==
    ASSUME TypeOK, NEW s \in Slots
    PROVE  reconcileStoragePoolDeploymentByNode(s) \/ DeleteUnused(s) => TypeOK'
<1>0. OtherType /\ DepsType /\ JobsType /\ op \in Passes /\ queued \in BOOLEAN
  BY TypeParts
<1>1. ASSUME reconcileStoragePoolDeploymentByNode(s) PROVE TypeOK'
  <2>1. op' \in {Idle, [op EXCEPT !.todo = @ \ {s}, !.unused = @ \ {s}],
                 [op EXCEPT !.todo = @ \ {s}, !.made = @ \cup ({s} \cap op.unused)]}
    BY <1>1 DEF reconcileStoragePoolDeploymentByNode, Abort
  <2>2. op' \in Passes
    <3>1. /\ [op EXCEPT !.todo = @ \ {s}, !.unused = @ \ {s}] \in Passes
          /\ [op EXCEPT !.todo = @ \ {s}, !.made = @ \cup ({s} \cap op.unused)] \in Passes
      BY <1>0 DEF Passes
    <3>. QED  BY <2>1, <3>1, IdleType
  <2>3. DepsType'
    <3>1. deps \cup {s} \in SUBSET Slots
      BY <1>0 DEF DepsType
    <3>. QED  BY <1>0, <1>1, <3>1, DepsBecomeType, DepsSame DEF reconcileStoragePoolDeploymentByNode
  <2>4. queued' \in BOOLEAN
    BY <1>0, <1>1, Zenon DEF reconcileStoragePoolDeploymentByNode, Abort
  <2>5. OtherType' /\ JobsType'
    BY <1>0, <1>1, JobsSame DEF reconcileStoragePoolDeploymentByNode, OtherType, cluster, onNodes
  <2>. QED  BY <2>2, <2>3, <2>4, <2>5, TypePartsNext
<1>2. ASSUME DeleteUnused(s) PROVE TypeOK'
  <2>1. op' \in Passes
    BY <1>0, <1>2, IdleType DEF DeleteUnused, Abort, Passes
  <2>2. DepsType'
    <3>1. deps \ {s} \in SUBSET Slots
      BY <1>0 DEF DepsType
    <3>. QED  BY <1>0, <1>2, <3>1, DepsBecomeType DEF DeleteUnused
  <2>3. JobsType'
    BY <1>0, <1>2, WithJobsType, JobsBecomeType, JobsSame DEF DeleteUnused
  <2>4. queued' \in BOOLEAN
    BY <1>0, <1>2, Zenon DEF DeleteUnused, Abort
  <2>5. OtherType'
    BY <1>0, <1>2 DEF DeleteUnused, Fault, OtherType, cluster, onNodes
  <2>. QED  BY <2>1, <2>2, <2>3, <2>4, <2>5, TypePartsNext
<1>. QED  BY <1>1, <1>2

\* Deleting the deployments of a deleted CR keeps the types.
LEMMA CleanTypes ==
    ASSUME TypeOK
    PROVE  /\ \A p \in Pools : cleanDeployments(p) => TypeOK'
           /\ \A d \in Slots : CleanDeployment(d) => TypeOK'
<1>0. OtherType /\ DepsType /\ JobsType /\ op \in Passes /\ queued \in BOOLEAN
  BY TypeParts
<1>1. ASSUME NEW p \in Pools, cleanDeployments(p) PROVE TypeOK'
  <2>1. op' \in Passes
    BY <1>0, <1>1, SetsType DEF cleanDeployments, Passes
  <2>2. OtherType' /\ DepsType' /\ JobsType'
    BY <1>0, <1>1, DepsSame, JobsSame DEF cleanDeployments, OtherType, cluster, onNodes
  <2>3. queued' \in BOOLEAN
    BY <1>0, <1>1, Zenon DEF cleanDeployments
  <2>. QED  BY <2>1, <2>2, <2>3, TypePartsNext
<1>2. ASSUME NEW d \in Slots, CleanDeployment(d) PROVE TypeOK'
  <2>1. op' \in {Idle, [op EXCEPT !.todo = @ \ {d}]}
    BY <1>2 DEF CleanDeployment, Abort
  <2>2. op' \in Passes
    BY <1>0, <2>1, IdleType DEF Passes
  <2>3. DepsType'
    <3>1. \A D : deps \ D \in SUBSET Slots /\ deps \in SUBSET Slots
      BY <1>0 DEF DepsType
    <3>2. PICK D \in SUBSET Slots : DepsBecome(D) \/ UNCHANGED ofDeps
      BY <1>2, <3>1 DEF CleanDeployment
    <3>. QED  BY <1>0, <3>2, DepsBecomeType, DepsSame
  <2>4. JobsType'
    BY <1>0, <1>2, WithJobsType, JobsBecomeType, JobsSame DEF CleanDeployment
  <2>5. queued' \in BOOLEAN
    BY <1>0, <1>2, Zenon DEF CleanDeployment, Abort
  <2>6. faults' = faults \/ faults' = faults + 1
    BY <1>2, Zenon DEF CleanDeployment, Fault
  <2>7. UNCHANGED <<cluster, onNodes, edits>>
    BY <1>2, Zenon DEF CleanDeployment
  <2>8. OtherType'
    BY <1>0, <2>6, <2>7 DEF OtherType, cluster, onNodes
  <2>. QED  BY <2>2, <2>3, <2>4, <2>5, <2>8, TypePartsNext
<1>. QED  BY <1>1, <1>2

\* Waiting for the cleanup keeps the types.
LEMMA CleanupTypes ==
    ASSUME TypeOK
    PROVE  /\ CountDeployments \/ CheckJobs \/ ListJobs \/ FinishPass \/ Release => TypeOK'
           /\ \A s \in Slots : RemoveJob(s) => TypeOK'
<1>0. OtherType /\ DepsType /\ JobsType /\ op \in Passes /\ queued \in BOOLEAN
  BY TypeParts
<1>1. ASSUME CountDeployments PROVE TypeOK'
  <2>1. op' \in {Idle, [Idle EXCEPT !.pc = "jobs", !.deleted = op.deleted, !.held = op.held,
                                    !.missed = op.missed, !.known = op.known]}
    BY <1>1 DEF CountDeployments, CleanupWaits
  <2>2. op' \in Passes
    <3>1. [Idle EXCEPT !.pc = "jobs", !.deleted = op.deleted, !.held = op.held,
                       !.missed = op.missed, !.known = op.known] \in Passes
      BY <1>0 DEF Passes, Idle
    <3>. QED  BY <2>1, <3>1, IdleType
  <2>3. queued' \in BOOLEAN
    BY <1>0, <1>1, Zenon DEF CountDeployments, CleanupWaits
  <2>4. OtherType' /\ DepsType' /\ JobsType'
    BY <1>0, <1>1, DepsSame, JobsSame DEF CountDeployments, OtherType, cluster, onNodes
  <2>. QED  BY <2>2, <2>3, <2>4, TypePartsNext
<1>2. ASSUME CheckJobs PROVE TypeOK'
  <2>1. op' \in Passes
    BY <1>0, <1>2, IdleType DEF CheckJobs, CleanupWaits, Passes
  <2>2. queued' \in BOOLEAN
    BY <1>0, <1>2, Zenon DEF CheckJobs, CleanupWaits
  <2>3. OtherType' /\ DepsType' /\ JobsType'
    BY <1>0, <1>2, DepsSame, JobsSame DEF CheckJobs, OtherType, cluster, onNodes
  <2>. QED  BY <2>1, <2>2, <2>3, TypePartsNext
<1>3. ASSUME ListJobs \/ FinishPass PROVE TypeOK'
  <2>1. op' \in Passes
    <3>1. {s \in Slots : getCleanUpJobs[s] # "none"} \in SUBSET Slots
      OBVIOUS
    <3>2. ListJobs => op' \in Passes
      BY <1>0, <3>1 DEF ListJobs, Passes
    <3>. QED  BY <1>3, <3>2, IdleType DEF FinishPass
  <2>2. queued' \in BOOLEAN
    BY <1>0, <1>3, Zenon DEF ListJobs, FinishPass
  <2>3. OtherType' /\ DepsType' /\ JobsType'
    BY <1>0, <1>3, DepsSame, JobsSame DEF ListJobs, FinishPass, OtherType, cluster, onNodes
  <2>. QED  BY <2>1, <2>2, <2>3, TypePartsNext
<1>4. ASSUME Release PROVE TypeOK'
  <2>1. op' = Idle /\ queued' \in BOOLEAN /\ phase' \in {phase, "released"}
    BY <1>4, Zenon DEF Release, Abort
  <2>2. OtherType' /\ DepsType' /\ JobsType'
    BY <1>0, <1>4, <2>1, DepsSame, JobsSame DEF Release, OtherType, onNodes
  <2>. QED  BY <2>1, <2>2, IdleType, TypePartsNext
<1>5. ASSUME NEW s \in Slots, RemoveJob(s) PROVE TypeOK'
  <2>1. op' \in Passes
    BY <1>0, <1>5 DEF RemoveJob, Passes
  <2>2. queued' \in BOOLEAN
    BY <1>0, <1>5, Zenon DEF RemoveJob
  <2>3. JobsType'
    BY <1>0, <1>5, ExceptType, StatesType, JobsBecomeType DEF RemoveJob
  <2>4. OtherType' /\ DepsType'
    BY <1>0, <1>5, DepsSame DEF RemoveJob, OtherType, cluster, onNodes
  <2>. QED  BY <2>1, <2>2, <2>3, <2>4, TypePartsNext
<1>. QED  BY <1>1, <1>2, <1>3, <1>4, <1>5

\* Mounters and jobs on the nodes keep the types.
LEMMA NodeTypes ==
    ASSUME TypeOK, NEW s \in Slots
    PROVE  RunMounter(s) \/ StopMounter(s) \/ Mount(s) \/ unmountPath(s) \/ JobFails(s) => TypeOK'
<1>0. OtherType /\ DepsType /\ JobsType /\ op \in Passes /\ queued \in BOOLEAN
  BY TypeParts
<1>1. ASSUME RunMounter(s) \/ StopMounter(s) \/ Mount(s) PROVE TypeOK'
  <2>1. queued' \in BOOLEAN
    BY <1>0, <1>1, Zenon DEF RunMounter, StopMounter, Mount
  <2>2. OtherType' /\ DepsType' /\ JobsType' /\ op' \in Passes
    BY <1>0, <1>1, DepsSame, JobsSame DEF RunMounter, StopMounter, Mount, OtherType, cluster
  <2>. QED  BY <2>1, <2>2, TypePartsNext
<1>2. ASSUME unmountPath(s) PROVE TypeOK'
  <2>1. JobsType'
    BY <1>0, <1>2, ExceptType, StatesType, JobsBecomeType, JobsSame DEF unmountPath
  <2>2. mounted' \subseteq Slots
    BY <1>0, <1>2 DEF unmountPath, OtherType
  <2>3. UNCHANGED <<cluster, ofDeps, mounters, queued, op, edits, faults>>
    BY <1>2, Zenon DEF unmountPath
  <2>4. OtherType' /\ DepsType' /\ op' \in Passes
    BY <1>0, <2>2, <2>3, DepsSame DEF OtherType, cluster
  <2>5. queued' \in BOOLEAN
    BY <1>0, <2>3, Zenon
  <2>. QED  BY <2>1, <2>4, <2>5, TypePartsNext
<1>3. ASSUME JobFails(s) PROVE TypeOK'
  <2>1. JobsType'
    BY <1>0, <1>3, ExceptType, StatesType, JobsBecomeType DEF JobFails
  <2>2. OtherType' /\ DepsType' /\ op' \in Passes
    BY <1>0, <1>3, DepsSame DEF JobFails, Fault, OtherType, cluster, onNodes
  <2>3. queued' \in BOOLEAN
    BY <1>0, <1>3, Zenon DEF JobFails
  <2>. QED  BY <2>1, <2>2, <2>3, TypePartsNext
<1>. QED  BY <1>1, <1>2, <1>3

\* Events on their way have the types of what they tell of.
LEMMA DeliverTypes ==
    ASSUME TypeOK
    PROVE  DeliverDeployments \/ DeliverJobs => TypeOK'
<1>0. OtherType /\ DepsType /\ JobsType /\ op \in Passes /\ queued \in BOOLEAN
  BY TypeParts
<1>1. ASSUME DeliverDeployments PROVE TypeOK'
  <2>1. DepsType'
    BY <1>0, <1>1 DEF DeliverDeployments, DepsType
  <2>2. OtherType' /\ JobsType' /\ op' \in Passes
    BY <1>0, <1>1, JobsSame DEF DeliverDeployments, OtherType, cluster, onNodes
  <2>3. queued' \in BOOLEAN
    BY <1>1, Zenon DEF DeliverDeployments
  <2>. QED  BY <2>1, <2>2, <2>3, TypePartsNext
<1>2. ASSUME DeliverJobs PROVE TypeOK'
  <2>1. JobsType'
    BY <1>0, <1>2 DEF DeliverJobs, JobsType
  <2>2. OtherType' /\ DepsType' /\ op' \in Passes
    BY <1>0, <1>2, DepsSame DEF DeliverJobs, OtherType, cluster, onNodes
  <2>3. queued' \in BOOLEAN
    BY <1>0, <1>2, Zenon DEF DeliverJobs
  <2>. QED  BY <2>1, <2>2, <2>3, TypePartsNext
<1>. QED  BY <1>1, <1>2

\* Users, nodes, the garbage collector and faults keep the types.
LEMMA ClusterTypes ==
    ASSUME TypeOK
    PROVE  /\ \A p \in Pools : EditSpec(p) => TypeOK'
           /\ \A n \in Nodes : CsiPod(n) \/ NodeGone(n) => TypeOK'
           /\ DeleteCR \/ CollectGarbage => TypeOK'
           /\ CallFails \/ Restart => TypeOK'
<1>0. OtherType /\ DepsType /\ JobsType /\ op \in Passes /\ queued \in BOOLEAN
  BY TypeParts
<1>. USE DEF cluster, onNodes, Edit, Fault, Abort
<1>1. ASSUME NEW p \in Pools, EditSpec(p) PROVE TypeOK'
  <2>1. queued' \in BOOLEAN
    BY <1>1, Zenon DEF EditSpec
  <2>2. OtherType' /\ DepsType' /\ JobsType' /\ op' \in Passes
    BY <1>0, <1>1, DepsSame, JobsSame DEF EditSpec, OtherType
  <2>. QED  BY <2>1, <2>2, TypePartsNext
<1>2. ASSUME NEW n \in Nodes, CsiPod(n) PROVE TypeOK'
  <2>1. queued' \in BOOLEAN
    BY <1>2, Zenon DEF CsiPod
  <2>2. OtherType' /\ DepsType' /\ JobsType' /\ op' \in Passes
    BY <1>0, <1>2, DepsSame, JobsSame DEF CsiPod, OtherType
  <2>. QED  BY <2>1, <2>2, TypePartsNext
<1>3. ASSUME NEW n \in Nodes, NodeGone(n) PROVE TypeOK'
  <2>1. queued' \in BOOLEAN
    BY <1>3, Zenon DEF NodeGone
  <2>2. OtherType' /\ DepsType' /\ JobsType' /\ op' \in Passes
    BY <1>0, <1>3, DepsSame, JobsSame DEF NodeGone, OtherType
  <2>. QED  BY <2>1, <2>2, TypePartsNext
<1>4. ASSUME DeleteCR PROVE TypeOK'
  <2>1. queued' \in BOOLEAN
    BY <1>4, Zenon DEF DeleteCR
  <2>2. OtherType' /\ DepsType' /\ JobsType' /\ op' \in Passes
    BY <1>0, <1>4, DepsSame, JobsSame DEF DeleteCR, OtherType
  <2>. QED  BY <2>1, <2>2, TypePartsNext
<1>5. ASSUME CollectGarbage PROVE TypeOK'
  <2>1. queued' \in BOOLEAN
    BY <1>0, <1>5, Zenon DEF CollectGarbage
  <2>2. DepsType'
    BY <1>0, <1>5, DepsBecomeType DEF CollectGarbage
  <2>3. OtherType' /\ JobsType' /\ op' \in Passes
    BY <1>0, <1>5, JobsSame DEF CollectGarbage, OtherType
  <2>. QED  BY <2>1, <2>2, <2>3, TypePartsNext
<1>6. ASSUME CallFails \/ Restart PROVE TypeOK'
  <2>1. queued' \in BOOLEAN
    BY <1>6, Zenon DEF CallFails, Restart
  <2>2. CallFails => DepsType' /\ JobsType'
    BY <1>0, DepsSame, JobsSame DEF CallFails
  <2>3. Restart => DepsType' /\ JobsType'
    BY <1>0 DEF Restart, DepsType, JobsType
  <2>4. OtherType' /\ op' \in Passes
    BY <1>0, <1>6, IdleType DEF CallFails, Restart, OtherType
  <2>. QED  BY <1>6, <2>1, <2>2, <2>3, <2>4, TypePartsNext
<1>. QED  BY <1>1, <1>2, <1>3, <1>4, <1>5, <1>6

LEMMA InitType == Init => TypeOK
BY IdleType DEF Init, TypeOK, JobStates, NoJobs

\* Every step keeps the types.
LEMMA TypeStep == TypeOK /\ [Next]_vars => TypeOK'
<1>. SUFFICES ASSUME TypeOK, [Next]_vars PROVE TypeOK'
  OBVIOUS
<1>1. Reconcile => TypeOK'
  BY StartTypes, LiveTypes, CleanTypes, CleanupTypes DEF Reconcile
<1>2. NodeSide \/ Watches => TypeOK'
  BY NodeTypes, DeliverTypes DEF NodeSide, Watches
<1>3. CollectGarbage \/ Environment => TypeOK'
  BY ClusterTypes, NodeTypes DEF Environment
<1>4. UNCHANGED vars => TypeOK'
  BY DEF vars, TypeOK
<1>. QED  BY <1>1, <1>2, <1>3, <1>4 DEF Next

\* Every variable keeps its type, for any pools, nodes and bounds, and however far the
\* caches are behind.
THEOREM PoolTypes == Spec => []TypeOK
BY InitType, TypeStep, PTL DEF Spec

-----------------------------------------------------------------------------
(* What events on their way say of deployments and jobs.                   *)

\* Deleting deployments hides none, and neither does an event that arrives.
LEMMA UnseenShrinks ==
    ASSUME DepsType, NEW D \in SUBSET deps, DepsBecome(D)
    PROVE  Unseen' \subseteq Unseen
<1>. SUFFICES ASSUME NEW s \in Unseen' PROVE s \in Unseen
  OBVIOUS
<1>1. s \in D /\ s \in deps
  BY DEF Unseen, DepsBecome
<1>2. CASE s \notin depsSeen
  BY <1>1, <1>2 DEF Unseen
<1>3. CASE s \in depsSeen
  <2>1. PICK i \in DOMAIN depsNews' : s \notin depsNews'[i]
    BY <1>3 DEF Unseen, DepsBecome
  <2>2. i \in DOMAIN depsNews /\ depsNews'[i] = depsNews[i]
    <3>1. CASE D = deps
      BY <2>1, <3>1 DEF DepsBecome
    <3>2. CASE D # deps
      <4>1. depsNews' = Append(depsNews, D) /\ depsNews \in Seq(SUBSET Slots) /\ D \in SUBSET Slots
        BY <3>2 DEF DepsBecome, DepsType
      <4>2. DOMAIN depsNews' = 1..(Len(depsNews) + 1) /\ depsNews'[Len(depsNews) + 1] = D
            /\ Len(depsNews) \in Nat /\ DOMAIN depsNews = 1..Len(depsNews)
            /\ \A k \in 1..Len(depsNews) : depsNews'[k] = depsNews[k]
        BY <4>1
      <4>3. i # Len(depsNews) + 1
        BY <1>1, <2>1, <4>2
      <4>. QED  BY <2>1, <4>2, <4>3
    <3>. QED  BY <3>1, <3>2
  <2>. QED  BY <1>1, <2>1, <2>2 DEF Unseen
<1>. QED  BY <1>2, <1>3

LEMMA UnseenDelivered ==
    ASSUME DepsType, depsNews # <<>>, depsSeen' = Head(depsNews), depsNews' = Tail(depsNews),
           UNCHANGED deps
    PROVE  Unseen' \subseteq Unseen
<1>1. /\ depsSeen' = depsNews[1] /\ 1 \in DOMAIN depsNews
      /\ \A i \in DOMAIN depsNews' : i + 1 \in DOMAIN depsNews /\ depsNews'[i] = depsNews[i + 1]
  BY DEF DepsType
<1>. QED  BY <1>1 DEF Unseen

\* What a change of the jobs that is not the deletion of one, nor its restart, leaves
\* as it was.
LEMMA KnownGrows ==
    ASSUME JobsType, NEW J \in [Slots -> JobStates], JobsBecome(J),
           \A s \in Slots : jobs[s] # "none" => J[s] # "none"
    PROVE  Known \subseteq Known'
<1>. SUFFICES ASSUME NEW s \in Known PROVE s \in Known'
  OBVIOUS
<1>1. s \in Slots /\ jobs[s] # "none" /\ jobs'[s] # "none" /\ jobsSeen'[s] # "none"
  BY DEF Known, JobsBecome
<1>2. \A i \in DOMAIN jobsNews' : jobsNews'[i][s] # "none"
  <2>1. CASE J = jobs
    BY <2>1 DEF Known, JobsBecome
  <2>2. CASE J # jobs
    <3>1. jobsNews' = Append(jobsNews, J) /\ jobsNews \in Seq([Slots -> JobStates])
      BY <2>2 DEF JobsBecome, JobsType
    <3>2. /\ DOMAIN jobsNews' = 1..(Len(jobsNews) + 1) /\ jobsNews'[Len(jobsNews) + 1] = J
          /\ Len(jobsNews) \in Nat /\ DOMAIN jobsNews = 1..Len(jobsNews)
          /\ \A k \in 1..Len(jobsNews) : jobsNews'[k] = jobsNews[k]
      BY <3>1
    <3>3. \A i \in DOMAIN jobsNews : jobsNews[i][s] # "none"
      BY DEF Known
    <3>4. J[s] # "none"
      BY <1>1
    <3>. QED  BY <3>2, <3>3, <3>4
  <2>. QED  BY <2>1, <2>2
<1>. QED  BY <1>1, <1>2 DEF Known

LEMMA KnownDelivered ==
    ASSUME JobsType, jobsNews # <<>>, jobsSeen' = Head(jobsNews), jobsNews' = Tail(jobsNews),
           UNCHANGED jobs
    PROVE  Known \subseteq Known'
<1>1. /\ jobsSeen' = jobsNews[1] /\ 1 \in DOMAIN jobsNews
      /\ \A i \in DOMAIN jobsNews' : i + 1 \in DOMAIN jobsNews /\ jobsNews'[i] = jobsNews[i + 1]
  BY DEF JobsType
<1>. QED  BY <1>1 DEF Known

\* A change of the jobs in which none starts that has not been deleted before.
LEMMA HistoryGrows ==
    ASSUME JobsType, LastInv, EndedInv, NEW J \in [Slots -> JobStates], JobsBecome(J),
           \A s \in Slots : J[s] = "running" => jobs[s] \in {"running", "none"}
    PROVE  LastInv' /\ EndedInv'
<1>1. CASE J = jobs
  BY <1>1 DEF LastInv, EndedInv, JobsBecome
<1>2. CASE J # jobs
  <2>1. /\ jobsNews' = Append(jobsNews, J) /\ jobsNews \in Seq([Slots -> JobStates])
        /\ jobs' = J /\ jobsSeen' = jobsSeen
    BY <1>2 DEF JobsBecome, JobsType
  <2>2. /\ DOMAIN jobsNews' = 1..(Len(jobsNews) + 1) /\ jobsNews'[Len(jobsNews) + 1] = J
        /\ Len(jobsNews') = Len(jobsNews) + 1 /\ jobsNews' # <<>>
        /\ Len(jobsNews) \in Nat /\ DOMAIN jobsNews = 1..Len(jobsNews)
        /\ \A k \in 1..Len(jobsNews) : jobsNews'[k] = jobsNews[k]
    BY <2>1
  <2>3. LastInv'
    BY <2>1, <2>2 DEF LastInv
  <2>4. ASSUME NEW s \in Slots, J[s] = "running", jobsSeen[s] \in {"done", "failed"}
        PROVE  \E j \in DOMAIN jobsNews' : jobsNews'[j][s] = "none"
    <3>1. CASE jobs[s] = "running"
      <4>1. PICK j \in DOMAIN jobsNews : jobsNews[j][s] = "none"
        BY <2>4, <3>1 DEF EndedInv
      <4>. QED  BY <2>2, <4>1
    <3>2. CASE jobs[s] = "none"
      <4>1. jobsNews # <<>>
        BY <2>4, <3>2 DEF LastInv
      <4>2. Len(jobsNews) \in DOMAIN jobsNews /\ jobsNews[Len(jobsNews)] = jobs
        BY <2>1, <2>2, <4>1 DEF LastInv
      <4>. QED  BY <2>2, <3>2, <4>2
    <3>. QED  BY <2>4, <3>1, <3>2
  <2>5. ASSUME NEW s \in Slots, J[s] = "running", NEW i \in DOMAIN jobsNews',
               jobsNews'[i][s] \in {"done", "failed"}
        PROVE  \E j \in DOMAIN jobsNews' : j > i /\ jobsNews'[j][s] = "none"
    <3>1. i \in DOMAIN jobsNews /\ jobsNews'[i] = jobsNews[i]
      BY <2>2, <2>5
    <3>2. CASE jobs[s] = "running"
      <4>1. PICK j \in DOMAIN jobsNews : j > i /\ jobsNews[j][s] = "none"
        BY <2>5, <3>1, <3>2 DEF EndedInv
      <4>. QED  BY <2>2, <4>1
    <3>3. CASE jobs[s] = "none"
      <4>1. jobsNews # <<>>
        BY <2>1, <3>1
      <4>2. Len(jobsNews) \in DOMAIN jobsNews /\ jobsNews[Len(jobsNews)] = jobs
        BY <2>1, <2>2, <4>1 DEF LastInv
      <4>3. i # Len(jobsNews)
        BY <2>5, <3>1, <3>3, <4>2
      <4>. QED  BY <2>2, <3>1, <3>3, <4>2, <4>3
    <3>. QED  BY <2>5, <3>2, <3>3
  <2>. QED  BY <2>1, <2>3, <2>4, <2>5 DEF EndedInv
<1>. QED  BY <1>1, <1>2

LEMMA HistoryDelivered ==
    ASSUME JobsType, LastInv, EndedInv, jobsNews # <<>>,
           jobsSeen' = Head(jobsNews), jobsNews' = Tail(jobsNews), UNCHANGED jobs
    PROVE  LastInv' /\ EndedInv'
<1>1. /\ jobsSeen' = jobsNews[1] /\ 1 \in DOMAIN jobsNews
      /\ Len(jobsNews) \in Nat /\ DOMAIN jobsNews = 1..Len(jobsNews)
      /\ Len(jobsNews') = Len(jobsNews) - 1 /\ DOMAIN jobsNews' = 1..(Len(jobsNews) - 1)
      /\ (jobsNews' = <<>> => Len(jobsNews) = 1)
      /\ (jobsNews' # <<>> => Len(jobsNews) > 1)
      /\ \A i \in DOMAIN jobsNews' : jobsNews'[i] = jobsNews[i + 1]
  <2>1. jobsNews \in Seq([Slots -> JobStates]) /\ jobsNews' \in Seq([Slots -> JobStates])
    BY DEF JobsType
  <2>2. /\ Len(jobsNews) \in Nat /\ Len(jobsNews) # 0 /\ DOMAIN jobsNews = 1..Len(jobsNews)
        /\ Len(jobsNews') = Len(jobsNews) - 1 /\ DOMAIN jobsNews' = 1..(Len(jobsNews) - 1)
        /\ \A i \in DOMAIN jobsNews' : jobsNews'[i] = jobsNews[i + 1]
    BY <2>1
  <2>3. Len(jobsNews') = 0 <=> jobsNews' = <<>>
    BY <2>1, EmptySeq
  <2>. QED  BY <2>1, <2>2, <2>3
<1>2. LastInv'
  <2>1. jobsNews[Len(jobsNews)] = jobs
    BY DEF LastInv
  <2>2. jobsNews' = <<>> => jobsSeen' = jobs
    BY <1>1, <2>1
  <2>3. jobsNews' # <<>> => jobsNews'[Len(jobsNews')] = jobs
    <3>1. ASSUME jobsNews' # <<>> PROVE jobsNews'[Len(jobsNews')] = jobsNews[Len(jobsNews)]
      <4>1. Len(jobsNews') \in DOMAIN jobsNews' /\ Len(jobsNews') + 1 = Len(jobsNews)
        BY <1>1, <3>1
      <4>. QED  BY <1>1, <4>1
    <3>. QED  BY <2>1, <3>1
  <2>. QED  BY <2>2, <2>3 DEF LastInv
<1>3. ASSUME NEW s \in Slots, jobs[s] = "running", NEW i \in DOMAIN jobsNews,
             jobsNews[i][s] \in {"done", "failed"}
      PROVE  \E j \in DOMAIN jobsNews' : j > i - 1 /\ jobsNews'[j][s] = "none"
  <2>1. PICK j \in DOMAIN jobsNews : j > i /\ jobsNews[j][s] = "none"
    BY <1>3 DEF EndedInv
  <2>2. j - 1 \in DOMAIN jobsNews' /\ j - 1 > i - 1 /\ jobsNews'[j - 1] = jobsNews[j]
    BY <1>1, <2>1
  <2>. QED  BY <2>1, <2>2
<1>4. EndedInv'
  <2>. SUFFICES ASSUME NEW s \in Slots, jobs[s] = "running"
                PROVE  /\ jobsSeen'[s] \in {"done", "failed"} =>
                             \E j \in DOMAIN jobsNews' : jobsNews'[j][s] = "none"
                       /\ \A i \in DOMAIN jobsNews' : jobsNews'[i][s] \in {"done", "failed"} =>
                             \E j \in DOMAIN jobsNews' : j > i /\ jobsNews'[j][s] = "none"
    BY DEF EndedInv
  <2>1. jobsSeen'[s] \in {"done", "failed"} => \E j \in DOMAIN jobsNews' : jobsNews'[j][s] = "none"
    BY <1>1, <1>3
  <2>2. ASSUME NEW i \in DOMAIN jobsNews', jobsNews'[i][s] \in {"done", "failed"}
        PROVE  \E j \in DOMAIN jobsNews' : j > i /\ jobsNews'[j][s] = "none"
    <3>1. i + 1 \in DOMAIN jobsNews /\ jobsNews[i + 1][s] \in {"done", "failed"} /\ (i + 1) - 1 = i
      BY <1>1, <2>2
    <3>. QED  BY <1>3, <3>1
  <2>. QED  BY <2>1, <2>2
<1>. QED  BY <1>2, <1>4

-----------------------------------------------------------------------------
(* What a step does to the deployments and the jobs, whoever takes it.     *)

\* Deployments are only created by a pass over a live CR.
DepChange == op.pc # "pools" => Unseen' \subseteq Unseen /\ deps' \subseteq deps

\* Jobs are only created by a pass before it waits, and only deleted at its end.
JobChange ==
    /\ LastInv' /\ EndedInv'
    /\ op.pc # "remove" =>
          Known \subseteq Known' /\ \A s \in Slots : jobs[s] # "none" => jobs'[s] # "none"
    /\ op.pc \notin {"pools", "clean"} =>
          \A s \in Slots : /\ jobs'[s] = "running" => jobs[s] = "running"
                           /\ jobs[s] = "none" => jobs'[s] = "none"

LEMMA DepsUntouched == UNCHANGED ofDeps => DepChange
BY DEF ofDeps, DepChange, Unseen

LEMMA JobsUntouched ==
    ASSUME PoolInv, UNCHANGED ofJobs
    PROVE  JobChange
BY DEF PoolInv, ofJobs, JobChange, Known, LastInv, EndedInv

LEMMA DepsDeleted ==
    ASSUME TypeOK, NEW D, DepsBecome(deps \ D)
    PROVE  DepChange
BY UnseenShrinks, TypeParts DEF DepChange, DepsBecome

LEMMA JobsCreated ==
    ASSUME PoolInv, NEW S, JobsBecome(WithJobs(S)), op.pc \in {"pools", "clean"}
    PROVE  JobChange
<1>1. JobsType /\ LastInv /\ EndedInv
  BY TypeParts DEF PoolInv
<1>2. WithJobs(S) \in [Slots -> JobStates]
  BY <1>1, WithJobsType
<1>3. ASSUME NEW s \in Slots
      PROVE  /\ jobs[s] # "none" => WithJobs(S)[s] # "none"
             /\ WithJobs(S)[s] = "running" => jobs[s] \in {"running", "none"}
  BY DEF WithJobs
<1>4. Known \subseteq Known'
  BY <1>1, <1>2, <1>3, KnownGrows
<1>5. LastInv' /\ EndedInv'
  BY <1>1, <1>2, <1>3, HistoryGrows
<1>. QED  BY <1>3, <1>4, <1>5 DEF JobChange, JobsBecome

LEMMA JobEnds ==
    ASSUME PoolInv, NEW s \in Slots, NEW st \in {"done", "failed"}, jobs[s] = "running",
           JobsBecome([jobs EXCEPT ![s] = st])
    PROVE  JobChange
<1>1. JobsType /\ LastInv /\ EndedInv
  BY TypeParts DEF PoolInv
<1>2. [jobs EXCEPT ![s] = st] \in [Slots -> JobStates]
  BY <1>1, ExceptType, StatesType
<1>3. ASSUME NEW t \in Slots
      PROVE  /\ jobs[t] # "none" => [jobs EXCEPT ![s] = st][t] # "none"
             /\ [jobs EXCEPT ![s] = st][t] = "running" => jobs[t] = "running"
             /\ jobs[t] = "none" => [jobs EXCEPT ![s] = st][t] = "none"
  BY <1>1 DEF JobsType
<1>4. Known \subseteq Known'
  BY <1>1, <1>2, <1>3, KnownGrows
<1>5. LastInv' /\ EndedInv'
  BY <1>1, <1>2, <1>3, HistoryGrows
<1>. QED  BY <1>3, <1>4, <1>5 DEF JobChange, JobsBecome

LEMMA JobDeleted ==
    ASSUME PoolInv, NEW s \in Slots, op.pc = "remove", JobsBecome([jobs EXCEPT ![s] = "none"])
    PROVE  JobChange
<1>1. JobsType /\ LastInv /\ EndedInv
  BY TypeParts DEF PoolInv
<1>2. [jobs EXCEPT ![s] = "none"] \in [Slots -> JobStates]
  BY <1>1, ExceptType, StatesType
<1>3. ASSUME NEW t \in Slots
      PROVE  /\ [jobs EXCEPT ![s] = "none"][t] = "running" => jobs[t] = "running"
             /\ jobs[t] = "none" => [jobs EXCEPT ![s] = "none"][t] = "none"
  BY <1>1 DEF JobsType
<1>4. LastInv' /\ EndedInv'
  BY <1>1, <1>2, <1>3, HistoryGrows
<1>. QED  BY <1>3, <1>4 DEF JobChange, JobsBecome

\* Events that arrive, and an operator that lists everything anew, show more.
LEMMA Delivered ==
    ASSUME PoolInv, DeliverDeployments \/ DeliverJobs \/ Restart
    PROVE  DepChange /\ JobChange
<1>0. DepsType /\ JobsType /\ LastInv /\ EndedInv
  BY TypeParts DEF PoolInv
<1>1. ASSUME DeliverDeployments PROVE DepChange /\ JobChange
  BY <1>0, <1>1, UnseenDelivered, JobsUntouched DEF DeliverDeployments, DepChange
<1>2. ASSUME DeliverJobs PROVE DepChange /\ JobChange
  BY <1>0, <1>2, KnownDelivered, HistoryDelivered, DepsUntouched DEF DeliverJobs, JobChange
<1>3. ASSUME Restart PROVE DepChange /\ JobChange
  <2>1. /\ deps' = deps /\ depsSeen' = deps /\ DOMAIN depsNews' = {}
        /\ jobs' = jobs /\ jobsSeen' = jobs /\ jobsNews' = <<>> /\ DOMAIN jobsNews' = {}
    BY <1>3 DEF Restart
  <2>2. DepChange
    BY <2>1 DEF DepChange, Unseen
  <2>3. LastInv' /\ EndedInv'
    BY <2>1 DEF LastInv, EndedInv
  <2>4. Known \subseteq Known'
    BY <2>1 DEF Known
  <2>. QED  BY <2>1, <2>2, <2>3, <2>4 DEF JobChange
<1>. QED  BY <1>1, <1>2, <1>3

\* Every step changes deployments and jobs in this way.
LEMMA Changes ==
    ASSUME PoolInv, [Next]_vars
    PROVE  DepChange /\ JobChange
<1>0. TypeOK
  BY DEF PoolInv
<1>1. ASSUME NEW s \in Slots, reconcileStoragePoolDeploymentByNode(s) PROVE DepChange /\ JobChange
  BY <1>1, JobsUntouched DEF reconcileStoragePoolDeploymentByNode, DepChange
<1>2. ASSUME NEW s \in Slots, DeleteUnused(s) PROVE DepChange /\ JobChange
  BY <1>2, JobsUntouched, JobsCreated DEF DeleteUnused, DepChange
<1>3. ASSUME NEW d \in Slots, CleanDeployment(d) PROVE DepChange /\ JobChange
  <2>1. op.pc = "clean"
    BY <1>3, Zenon DEF CleanDeployment
  <2>2. \/ DepsBecome(deps \ {d}) \/ DepsBecome(deps) \/ UNCHANGED ofDeps
        \/ \E p \in op.pool : DepsBecome(deps \ {<<p, d[2]>>})
    BY <1>3 DEF CleanDeployment
  <2>3. DepsBecome(deps) => UNCHANGED ofDeps
    BY DEF DepsBecome, ofDeps
  <2>4. DepChange
    BY <1>0, <2>2, <2>3, DepsDeleted, DepsUntouched
  <2>5. UNCHANGED ofJobs \/ \E p \in op.pool : JobsBecome(WithJobs({<<p, d[2]>>}))
    BY <1>3 DEF CleanDeployment
  <2>. QED  BY <2>1, <2>4, <2>5, JobsUntouched, JobsCreated
<1>4. ASSUME NEW s \in Slots, RemoveJob(s) PROVE DepChange /\ JobChange
  BY <1>4, JobDeleted, DepsUntouched DEF RemoveJob
<1>5. ASSUME NEW s \in Slots, unmountPath(s) \/ JobFails(s) PROVE DepChange /\ JobChange
  BY <1>5, JobEnds, JobsUntouched, DepsUntouched DEF unmountPath, JobFails
<1>6. ASSUME CollectGarbage PROVE DepChange /\ JobChange
  <2>1. deps \ deps = {}
    OBVIOUS
  <2>. QED  BY <1>0, <1>6, <2>1, DepsDeleted, JobsUntouched DEF CollectGarbage
<1>7. ASSUME DeliverDeployments \/ DeliverJobs \/ Restart PROVE DepChange /\ JobChange
  BY <1>7, Delivered
<1>8. ASSUME \/ StartPass \/ StartClean \/ CountDeployments \/ CheckJobs \/ ListJobs
             \/ FinishPass \/ Release \/ DeleteCR \/ CallFails
             \/ \E p \in Pools : cleanDeployments(p) \/ EditSpec(p)
             \/ \E n \in Nodes : CsiPod(n) \/ NodeGone(n)
             \/ \E s \in Slots : RunMounter(s) \/ StopMounter(s) \/ Mount(s)
      PROVE  DepChange /\ JobChange
  <2>1. UNCHANGED ofDeps /\ UNCHANGED ofJobs
    BY <1>8
       DEF StartPass, StartClean, CountDeployments, CheckJobs, ListJobs, FinishPass, Release,
           DeleteCR, CallFails, cleanDeployments, EditSpec, CsiPod, NodeGone, RunMounter,
           StopMounter, Mount
  <2>. QED  BY <2>1, DepsUntouched, JobsUntouched
<1>9. ASSUME UNCHANGED vars PROVE DepChange /\ JobChange
  <2>1. UNCHANGED ofDeps /\ UNCHANGED ofJobs
    BY <1>9 DEF vars, ofDeps, ofJobs
  <2>. QED  BY <2>1, DepsUntouched, JobsUntouched
<1>. QED
  BY <1>1, <1>2, <1>3, <1>4, <1>5, <1>6, <1>7, <1>8, <1>9
     DEF Next, Reconcile, NodeSide, Watches, Environment

-----------------------------------------------------------------------------
(* The pass.                                                               *)

\* A step within a pass, or beside it, which leaves what the pass waits for as it is.
SamePass ==
    /\ op'.pc = op.pc /\ op'.deleted = op.deleted /\ op'.listed = op.listed
    /\ op'.missed = op.missed /\ op'.known = op.known

LEMMA WaitingKept ==
    ASSUME PoolInv, DepChange, JobChange, SamePass
    PROVE  ShownInv' /\ KnownInv'
<1>1. ShownInv'
  BY DEF PoolInv, ListedInv, ShownInv, DepChange, SamePass
<1>2. op.known \subseteq Slots
  BY DEF PoolInv, TypeOK, Passes
<1>3. KnownInv'
  BY <1>2 DEF PoolInv, KnownInv, JobChange, SamePass
<1>. QED  BY <1>1, <1>3

\* The pass ends.
LEMMA PassEnds ==
    ASSUME op' = Idle
    PROVE  ListedInv' /\ ShownInv' /\ KnownInv'
BY IdleType DEF ListedInv, ShownInv, KnownInv

\* A pass begins.
LEMMA PassBegins ==
    ASSUME PoolInv, StartPass \/ StartClean
    PROVE  ListedInv' /\ ShownInv' /\ KnownInv'
<1>0. UNCHANGED <<phase, deps, depsSeen, depsNews, jobs, jobsSeen, jobsNews>>
  BY DEF StartPass, StartClean, cluster, ofDeps, ofJobs
<1>1. Known' = Known /\ Unseen' = Unseen
  BY <1>0 DEF Known, Unseen
<1>2. ASSUME StartPass PROVE ListedInv' /\ ShownInv' /\ KnownInv'
  <2>1. CASE csi \subseteq nodes
    <3>1. op' = [Idle EXCEPT !.pc = "pools", !.held = spec, !.used = csi,
                             !.todo = Deployments(spec, csi),
                             !.unused = currentStoragePoolDeployments, !.known = Known]
      BY <1>2, <2>1 DEF StartPass
    <3>2. /\ op'.pc = "pools" /\ op'.deleted = FALSE /\ op'.known = Known
          /\ op'.todo = Deployments(op'.held, op'.used)
      BY <3>1 DEF Idle
    <3>3. phase' # "released"
      BY <1>0, <1>2 DEF StartPass
    <3>. QED  BY <1>1, <3>2, <3>3 DEF ListedInv, ShownInv, KnownInv
  <2>2. CASE ~(csi \subseteq nodes)
    BY <1>2, <2>2, PassEnds DEF StartPass, Abort
  <2>. QED  BY <2>1, <2>2
<1>3. ASSUME StartClean PROVE ListedInv' /\ ShownInv' /\ KnownInv'
  <2>1. op'.pc = "clean" /\ op'.deleted = TRUE /\ op'.known = Known /\ op'.missed = Unseen
    BY <1>3 DEF StartClean, Idle
  <2>. QED  BY <1>1, <2>1 DEF ListedInv, ShownInv, KnownInv
<1>. QED  BY <1>2, <1>3

\* A pass over a live CR looks at its deployments.
LEMMA LiveStep ==
    ASSUME PoolInv, NEW s \in Slots, reconcileStoragePoolDeploymentByNode(s) \/ DeleteUnused(s)
    PROVE  ListedInv' /\ (op' = Idle \/ SamePass)
<1>0. op \in Passes /\ op.pc = "pools" /\ UNCHANGED phase
  BY DEF PoolInv, TypeOK, reconcileStoragePoolDeploymentByNode, DeleteUnused, cluster
<1>1. ~op.deleted /\ phase # "released"
      /\ op.unused \cap Deployments(op.held, op.used) \subseteq op.todo \cup op.made
  BY <1>0 DEF PoolInv, ListedInv
<1>2. CASE op' = Idle
  BY <1>2, PassEnds
<1>3. CASE op' = [op EXCEPT !.todo = @ \ {s}, !.unused = @ \ {s}]
  <2>1. /\ op'.pc = op.pc /\ op'.deleted = op.deleted /\ op'.held = op.held /\ op'.used = op.used
        /\ op'.todo = op.todo \ {s} /\ op'.unused = op.unused \ {s} /\ op'.made = op.made
        /\ op'.listed = op.listed /\ op'.missed = op.missed /\ op'.known = op.known
    BY <1>0, <1>3 DEF Passes
  <2>. QED  BY <1>0, <1>1, <2>1 DEF ListedInv, SamePass, Deployments
<1>4. CASE op' = [op EXCEPT !.todo = @ \ {s}, !.made = @ \cup ({s} \cap op.unused)]
  <2>1. /\ op'.pc = op.pc /\ op'.deleted = op.deleted /\ op'.held = op.held /\ op'.used = op.used
        /\ op'.todo = op.todo \ {s} /\ op'.unused = op.unused
        /\ op'.made = op.made \cup ({s} \cap op.unused)
        /\ op'.listed = op.listed /\ op'.missed = op.missed /\ op'.known = op.known
    BY <1>0, <1>4 DEF Passes
  <2>. QED  BY <1>0, <1>1, <2>1 DEF ListedInv, SamePass, Deployments
<1>5. CASE op' = [op EXCEPT !.unused = @ \ {s}]
  <2>1. /\ op'.pc = op.pc /\ op'.deleted = op.deleted /\ op'.held = op.held /\ op'.used = op.used
        /\ op'.todo = op.todo /\ op'.unused = op.unused \ {s} /\ op'.made = op.made
        /\ op'.listed = op.listed /\ op'.missed = op.missed /\ op'.known = op.known
    BY <1>0, <1>5 DEF Passes
  <2>. QED  BY <1>0, <1>1, <2>1 DEF ListedInv, SamePass, Deployments
<1>6. \/ op' = Idle
      \/ op' = [op EXCEPT !.todo = @ \ {s}, !.unused = @ \ {s}]
      \/ op' = [op EXCEPT !.todo = @ \ {s}, !.made = @ \cup ({s} \cap op.unused)]
      \/ op' = [op EXCEPT !.unused = @ \ {s}]
  BY DEF reconcileStoragePoolDeploymentByNode, DeleteUnused, Abort
<1>. QED  BY <1>2, <1>3, <1>4, <1>5, <1>6

\* A pass over a deleted CR deletes deployments.
LEMMA CleanStep ==
    ASSUME PoolInv, \/ \E p \in Pools : cleanDeployments(p)
                    \/ \E d \in Slots : CleanDeployment(d)
    PROVE  ListedInv' /\ (op' = Idle \/ SamePass)
<1>0. op \in Passes
  BY DEF PoolInv, TypeOK
<1>1. ASSUME NEW p \in Pools, cleanDeployments(p) PROVE ListedInv' /\ SamePass
  <2>1. op.pc = "clean" /\ SamePass
    BY <1>0, <1>1 DEF cleanDeployments, Passes, SamePass
  <2>. QED  BY <2>1 DEF ListedInv, SamePass
<1>2. ASSUME NEW d \in Slots, CleanDeployment(d) PROVE ListedInv' /\ (op' = Idle \/ SamePass)
  <2>1. op.pc = "clean" /\ op' \in {Idle, [op EXCEPT !.todo = @ \ {d}]}
    BY <1>2 DEF CleanDeployment, Abort
  <2>2. op' = Idle \/ SamePass
    BY <1>0, <2>1 DEF Passes, SamePass
  <2>. QED  BY <2>1, <2>2, PassEnds DEF ListedInv, SamePass
<1>. QED  BY <1>1, <1>2

LEMMA NoneCounted ==
    ASSUME TypeOK, Cardinality(depsSeen) = 0
    PROVE  depsSeen = {}
<1>1. IsFiniteSet(Slots)
  BY PoolAssumption, FS_Product DEF Slots
<1>2. IsFiniteSet(depsSeen)
  BY <1>1, FS_Subset DEF TypeOK
<1>. QED  BY <1>2, FS_EmptySet

\* Once the pass over a deleted CR has counted no deployment, only those are left that
\* the cache did not show when the pass began.
LEMMA CountStep ==
    ASSUME PoolInv, CountDeployments
    PROVE  ListedInv' /\ ShownInv' /\ KnownInv'
<1>0. op \in Passes /\ op.pc \in {"pools", "clean"} /\ UNCHANGED <<ofDeps, ofJobs>>
  BY DEF PoolInv, TypeOK, CountDeployments
<1>1. CASE op' = Idle
  BY <1>1, PassEnds
<1>2. CASE op' # Idle
  <2>1. /\ op' = [Idle EXCEPT !.pc = "jobs", !.deleted = op.deleted, !.held = op.held,
                              !.missed = op.missed, !.known = op.known]
        /\ op.deleted => Cardinality(currentStoragePoolDeployments) = 0
    BY <1>2 DEF CountDeployments, CleanupWaits
  <2>2. op'.pc = "jobs" /\ op'.deleted = op.deleted /\ op'.missed = op.missed /\ op'.known = op.known
    BY <2>1 DEF Idle
  <2>3. Known' = Known /\ Unseen' = Unseen /\ deps' = deps
    BY <1>0 DEF Known, Unseen, ofDeps, ofJobs
  <2>4. op.deleted => depsSeen = {}
    BY <2>1, NoneCounted DEF PoolInv, currentStoragePoolDeployments
  <2>5. op.deleted => deps \subseteq op.missed
    BY <2>4 DEF PoolInv, ShownInv, Unseen
  <2>6. ListedInv' /\ ShownInv'
    BY <2>2, <2>3, <2>5 DEF PoolInv, ListedInv, ShownInv
  <2>7. KnownInv'
    BY <1>0, <2>2, <2>3 DEF PoolInv, KnownInv
  <2>. QED  BY <2>6, <2>7
<1>. QED  BY <1>1, <1>2

\* A job that the cache shows all along and shows to have ended is not running.
LEMMA EndedIsEnded ==
    ASSUME PoolInv, NEW s \in Known, jobsSeen[s] \in {"none", "done"}
    PROVE  jobs[s] # "running"
<1>1. s \in Slots /\ jobsSeen[s] = "done" /\ \A j \in DOMAIN jobsNews : jobsNews[j][s] # "none"
  BY DEF Known
<1>. QED  BY <1>1 DEF PoolInv, EndedInv

LEMMA CheckStep ==
    ASSUME PoolInv, CheckJobs
    PROVE  ListedInv' /\ ShownInv' /\ KnownInv'
<1>0. op \in Passes /\ op.pc = "jobs" /\ UNCHANGED <<ofDeps, ofJobs>>
  BY DEF PoolInv, TypeOK, CheckJobs
<1>1. CASE ~hasCleanUpFinished
  BY <1>1, PassEnds DEF CheckJobs, CleanupWaits
<1>2. CASE hasCleanUpFinished
  <2>1. op' = [op EXCEPT !.pc = "list"]
    BY <1>2 DEF CheckJobs
  <2>2. op'.pc = "list" /\ op'.deleted = op.deleted /\ op'.missed = op.missed /\ op'.known = op.known
    BY <1>0, <2>1 DEF Passes
  <2>3. Known' = Known /\ Unseen' = Unseen /\ deps' = deps /\ jobs' = jobs
    BY <1>0 DEF Known, Unseen, ofDeps, ofJobs
  <2>4. op.known \subseteq Known
    BY <1>0 DEF PoolInv, KnownInv
  <2>5. \A s \in Known : jobs[s] # "running"
    <3>1. \A s \in Known : s \in Slots
      BY DEF Known
    <3>2. \A s \in Slots : jobsSeen[s] \in {"none", "done"}
      BY <1>2 DEF hasCleanUpFinished, getCleanUpJobs
    <3>. QED  BY <3>1, <3>2, EndedIsEnded
  <2>6. ListedInv' /\ ShownInv'
    BY <1>0, <2>2, <2>3 DEF PoolInv, ListedInv, ShownInv
  <2>7. KnownInv'
    BY <2>2, <2>3, <2>4, <2>5 DEF KnownInv
  <2>. QED  BY <2>6, <2>7
<1>. QED  BY <1>1, <1>2

\* The second list shows the jobs that the first one did, and each is deleted.
LEMMA RemoveStep ==
    ASSUME PoolInv, ListJobs \/ \E s \in Slots : RemoveJob(s)
    PROVE  ListedInv' /\ ShownInv' /\ KnownInv'
<1>0. op \in Passes /\ UNCHANGED ofDeps
  BY DEF PoolInv, TypeOK, ListJobs, RemoveJob
<1>1. Unseen' = Unseen /\ deps' = deps
  BY <1>0 DEF Unseen, ofDeps
<1>2. ASSUME ListJobs PROVE ListedInv' /\ ShownInv' /\ KnownInv'
  <2>1. /\ op.pc = "list" /\ UNCHANGED jobs
        /\ op' = [op EXCEPT !.pc = "remove", !.listed = {s \in Slots : jobsSeen[s] # "none"}]
    BY <1>2 DEF ListJobs, getCleanUpJobs, ofJobs
  <2>2. /\ op'.pc = "remove" /\ op'.deleted = op.deleted /\ op'.missed = op.missed
        /\ op'.known = op.known /\ op'.listed = {s \in Slots : jobsSeen[s] # "none"}
    BY <1>0, <2>1 DEF Passes
  <2>3. op.known \subseteq op'.listed
    BY <2>1, <2>2 DEF PoolInv, KnownInv, Known
  <2>4. ListedInv' /\ ShownInv'
    BY <1>1, <2>1, <2>2 DEF PoolInv, ListedInv, ShownInv
  <2>5. KnownInv'
    BY <2>1, <2>2, <2>3 DEF PoolInv, KnownInv
  <2>. QED  BY <2>4, <2>5
<1>3. ASSUME NEW s \in Slots, RemoveJob(s) PROVE ListedInv' /\ ShownInv' /\ KnownInv'
  <2>1. /\ op.pc = "remove" /\ op' = [op EXCEPT !.listed = @ \ {s}]
        /\ jobs' = [jobs EXCEPT ![s] = "none"] /\ jobs \in [Slots -> JobStates]
    BY <1>3 DEF RemoveJob, JobsBecome, PoolInv, TypeOK
  <2>2. /\ op'.pc = "remove" /\ op'.deleted = op.deleted /\ op'.missed = op.missed
        /\ op'.known = op.known /\ op'.listed = op.listed \ {s}
    BY <1>0, <2>1 DEF Passes
  <2>3. op.known \subseteq Slots
    BY <1>0 DEF Passes
  <2>4. \A t \in Slots : jobs'[t] = IF t = s THEN "none" ELSE jobs[t]
    BY <2>1
  <2>5. ListedInv' /\ ShownInv'
    BY <1>1, <2>1, <2>2 DEF PoolInv, ListedInv, ShownInv
  <2>6. KnownInv'
    BY <2>1, <2>2, <2>3, <2>4 DEF PoolInv, KnownInv
  <2>. QED  BY <2>5, <2>6
<1>. QED  BY <1>2, <1>3

\* Every step keeps the invariant.
LEMMA PoolStep == PoolInv /\ [Next]_vars => PoolInv'
<1>. SUFFICES ASSUME PoolInv, [Next]_vars PROVE PoolInv'
  OBVIOUS
<1>. DEFINE Kept == ListedInv' /\ ShownInv' /\ KnownInv'
<1>0. TypeOK' /\ DepChange /\ JobChange
  BY TypeStep, Changes DEF PoolInv
<1>1. ASSUME NEW s \in Slots, reconcileStoragePoolDeploymentByNode(s) \/ DeleteUnused(s) PROVE Kept
  BY <1>0, <1>1, LiveStep, WaitingKept, PassEnds
<1>2. ASSUME (\E p \in Pools : cleanDeployments(p)) \/ \E d \in Slots : CleanDeployment(d) PROVE Kept
  BY <1>0, <1>2, CleanStep, WaitingKept, PassEnds
<1>3. ASSUME StartPass \/ StartClean \/ CountDeployments \/ CheckJobs \/ ListJobs PROVE Kept
  BY <1>3, PassBegins, CountStep, CheckStep, RemoveStep
<1>4. ASSUME NEW s \in Slots, RemoveJob(s) PROVE Kept
  BY <1>4, RemoveStep
<1>5. ASSUME FinishPass \/ Release \/ CallFails \/ Restart PROVE Kept
  <2>1. op' = Idle
    BY <1>5 DEF FinishPass, Release, CallFails, Restart, Abort
  <2>. QED  BY <2>1, PassEnds
<1>6. ASSUME op' = op, phase' = phase \/ phase' # "released" PROVE Kept
  <2>1. ListedInv'
    BY <1>6 DEF PoolInv, ListedInv, Deployments
  <2>2. SamePass
    BY <1>6 DEF SamePass
  <2>. QED  BY <1>0, <2>1, <2>2, WaitingKept
<1>7. ASSUME \/ DeleteCR \/ CollectGarbage \/ DeliverDeployments \/ DeliverJobs
             \/ \E p \in Pools : EditSpec(p)
             \/ \E n \in Nodes : CsiPod(n) \/ NodeGone(n)
             \/ \E s \in Slots : RunMounter(s) \/ StopMounter(s) \/ Mount(s) \/ unmountPath(s) \/ JobFails(s)
             \/ UNCHANGED vars
      PROVE  op' = op /\ (phase' = phase \/ phase' # "released")
  BY <1>7 DEF DeleteCR, CollectGarbage, DeliverDeployments, DeliverJobs, EditSpec, CsiPod, NodeGone,
              RunMounter, StopMounter, Mount, unmountPath, JobFails, cluster, vars
<1>. HIDE DEF Kept
<1>8. Kept
  BY <1>1, <1>2, <1>3, <1>4, <1>5, <1>6, <1>7 DEF Next, Reconcile, NodeSide, Watches, Environment
<1>. QED  BY <1>0, <1>8 DEF PoolInv, JobChange, Kept

LEMMA PoolInvariant == Spec => []PoolInv
<1>1. Init => PoolInv
  <2>. SUFFICES ASSUME Init PROVE PoolInv
    OBVIOUS
  <2>1. LastInv /\ EndedInv
    BY DEF Init, LastInv, EndedInv, NoJobs
  <2>2. ListedInv /\ ShownInv /\ KnownInv
    BY IdleType DEF Init, ListedInv, ShownInv, KnownInv
  <2>. QED  BY <2>1, <2>2, InitType DEF PoolInv
<1>. QED  BY <1>1, PoolStep, PTL DEF Spec

-----------------------------------------------------------------------------
(* The properties.                                                         *)

\* A CR is released (the finalizer is taken away after reconcileCleanup) only when the
\* deployments and jobs are gone that the caches knew of when the pass began.  The
\* count of deployments is read from a cache that may be behind; what it can miss is
\* only what it had not shown when the pass began.
THEOREM ReleaseComesLast == Spec => ReleaseWaits
<1>1. ASSUME PoolInv, Next, phase = "deleting", phase' = "released"
      PROVE  deps \subseteq op.missed /\ \A s \in op.known : jobs[s] = "none"
  <2>1. op.pc = "remove" /\ op.listed = {} /\ op.deleted
    BY <1>1
       DEF Next, Reconcile, NodeSide, Watches, Environment, StartPass, FinishPass, ListJobs,
           reconcileStoragePoolDeploymentByNode, DeleteUnused, StartClean, CleanDeployment,
           CountDeployments, CheckJobs, RemoveJob, JobFails, Release, cleanDeployments,
           RunMounter, StopMounter, Mount, unmountPath, DeliverDeployments, DeliverJobs,
           CollectGarbage, EditSpec, DeleteCR, CsiPod, NodeGone, CallFails, Restart, cluster
  <2>. QED  BY <1>1, <2>1 DEF PoolInv, ShownInv, KnownInv
<1>2. PoolInv /\ [Next]_vars
        => [phase = "deleting" /\ phase' = "released" =>
               deps \subseteq op.missed /\ \A s \in op.known : jobs[s] = "none"]_vars
  BY <1>1
<1>. QED  BY <1>2, PoolInvariant, PTL DEF Spec, ReleaseWaits

\* A cleanup job that the cache knew of when the pass began is not deleted while it is
\* running (hasCleanUpFinished before removeCleanUpJobs), although the cache is behind
\* and the jobs are listed twice.
THEOREM JobsEnd == Spec => KnownJobsRunToEnd
<1>1. ASSUME PoolInv, [Next]_vars, NEW s \in op.known, jobs[s] = "running" PROVE jobs'[s] # "none"
  <2>1. JobChange /\ s \in Slots
    BY <1>1, Changes DEF PoolInv, TypeOK, Passes
  <2>2. op.pc # "remove"
    BY <1>1 DEF PoolInv, KnownInv
  <2>. QED  BY <1>1, <2>1, <2>2 DEF JobChange
<1>2. PoolInv /\ [Next]_vars => [\A s \in op.known : jobs[s] = "running" => jobs'[s] # "none"]_vars
  BY <1>1
<1>. QED  BY <1>2, PoolInvariant, PTL DEF Spec, KnownJobsRunToEnd

\* A pass over a live CR (reconcileStoragePools) deletes no deployment that it wants,
\* unless it created it itself after the list that it works from was read.
THEOREM WantedKept == Spec => KeepsWanted
<1>1. ASSUME PoolInv, Next, NEW s \in deps \ deps', op.pc = "pools",
             s \in Deployments(op.held, op.used)
      PROVE  s \in op.made
  <2>1. /\ phase # "released"
        /\ op.unused \cap Deployments(op.held, op.used) \subseteq op.todo \cup op.made
    BY <1>1 DEF PoolInv, ListedInv
  <2>2. ASSUME NEW t \in Slots, DeleteUnused(t) PROVE s \in op.made
    BY <1>1, <2>1, <2>2 DEF DeleteUnused, DepsBecome
  <2>3. ASSUME NEW t \in Slots, reconcileStoragePoolDeploymentByNode(t) PROVE deps \subseteq deps'
    BY <2>3 DEF reconcileStoragePoolDeploymentByNode, DepsBecome, ofDeps
  <2>4. ASSUME NEW d \in Slots, CleanDeployment(d) PROVE FALSE
    BY <1>1, <2>4 DEF CleanDeployment
  <2>5. ~CollectGarbage
    BY <2>1 DEF CollectGarbage
  <2>6. ASSUME \/ StartPass \/ StartClean \/ CountDeployments \/ CheckJobs \/ ListJobs
               \/ FinishPass \/ Release \/ DeleteCR \/ CallFails
               \/ DeliverDeployments \/ DeliverJobs \/ Restart
               \/ \E p \in Pools : cleanDeployments(p) \/ EditSpec(p)
               \/ \E n \in Nodes : CsiPod(n) \/ NodeGone(n)
               \/ \E t \in Slots : RunMounter(t) \/ StopMounter(t) \/ Mount(t) \/ unmountPath(t)
               \/ \E t \in Slots : RemoveJob(t) \/ JobFails(t)
        PROVE  deps' = deps
    BY <2>6
       DEF StartPass, StartClean, CountDeployments, CheckJobs, ListJobs, FinishPass, Release,
           DeleteCR, CallFails, DeliverDeployments, DeliverJobs, Restart, cleanDeployments,
           EditSpec, CsiPod, NodeGone, RunMounter, StopMounter, Mount, unmountPath, RemoveJob,
           JobFails, ofDeps
  <2>. QED
    BY <1>1, <2>2, <2>3, <2>4, <2>5, <2>6 DEF Next, Reconcile, NodeSide, Watches, Environment
<1>2. PoolInv /\ [Next]_vars
        => [\A s \in deps \ deps' :
               op.pc = "pools" /\ s \in Deployments(op.held, op.used) => s \in op.made]_vars
  BY <1>1
<1>. QED  BY <1>2, PoolInvariant, PTL DEF Spec, KeepsWanted

=============================================================================
