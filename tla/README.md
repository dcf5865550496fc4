# TLA+ model of the hostpath provisioner operator

The operator watches one cluster-scoped `HostPathProvisioner` (the CR) and keeps
the objects of a CSI driver that provisions directories on nodes: DaemonSets,
service accounts, RBAC, a CSIDriver, SecurityContextConstraints, Prometheus
objects and, for storage pools with a PVC template, one claim and one deployment
per pool and node. The deployment's pod, the *mounter*, mounts the claim's volume
on the node; a *cleanup job* unmounts it.

In the following, `C/` is `src/pkg/controller/hostpathprovisioner/`.

## Inventory

| Component | State | Operations | Interacts with |
|---|---|---|---|
| Reconcile loop (`C/controller.go`) | work queue, informer caches, the CR with its finalizer | `Reconcile`, `addFinalizer`, deletion path, watches, `mapFn` | API server (reads lag, writes are checked against the resource version), every other part |
| Managed objects (`C/rbac.go`, `csidriver.go`, `scc.go`, `prometheus.go`, `daemonset.go`, `serviceaccount.go`, `util.go`) | existence and content of each of 18 objects | reconcile (get, create, merge, update), delete | API server: versions, immutable fields, permissions; users who edit the objects |
| Operator roles (`src/tools/helper/*role_generated.go`) | the rules of a ClusterRole and a Role | none | decide which calls of all other parts succeed |
| Status (`C/cr.go`, `controller.go`, metrics) | conditions, three version strings, `kubevirt_hpp_cr_ready` | the five marks, `canUpgrade`, `checkDegraded`, `reconcileStatus` | DaemonSet status, claims, the CR at the API server |
| Storage pools (`C/storagepool.go`) | deployments, claims, cleanup jobs | `reconcileStoragePools`, `cleanDeployments`, `reconcileCleanup` | CSI DaemonSet pods, nodes, mounters, jobs |
| Mounter (`src/cmd/mounter`) | mounts of the node, the content of a block volume | mount loop, `unmountPath` | only through the node: the operator does not see mounts |
| Pod templates, webhook, names (`C/daemonset.go`, `util.go`, webhook) | none | validation of a CR, template of the driver's pods, names | the CR, the TLS version |
| TLS policy (`src/pkg/util/cryptopolicy`) | is the cache ready | settings of a handshake, argument of the driver | APIServer CR, environment |
| Monitoring rules, manager, generators | little or none | tables, start | see `PROJECT.json` |

What is hard: every read comes from a cache that may be behind, and each kind's
cache on its own; every write may fail, or succeed with the reply lost; the
process may stop between any two calls and be replaced by another version; users
edit and delete at any time; owned objects are garbage collected and unowned ones
are not; operator, mounter and job act on the same path without knowing of each
other. What makes the parts correct: nothing unowned outlives the CR, no edit is
undone, a deletion ends, the cluster converges to what the CR asks for; the report
is true when the operator rests and a downgrade is refused; pools that are wanted
get mounted and keep their deployments, jobs start only for pools that are not wanted
and run to their end, and the CR is released after them; what users change in an object
is put right and what they add is kept; mounts do not pile up on a path; the driver
serves every pool, with the cluster's TLS settings. `PROJECT.json` lists the hazards line by line.

## Modules

**`Lifecycle`** is the finalizer protocol. `server`, `cache` and `pending` are the
API server's CRs, the cached copy and the states whose events are on their way;
`res`, `seen`, `events` the same for the unowned objects, with one informer per
kind (`KindOf`). `op` is the pass of the single worker: its label, the CR it works
for, the copy it holds, and how far it has come. A pass is one action per call:
`ListCRs`, `GetCR`, `addFinalizer`, `MarkDeploying`, `ReconcileOwned`,
`ReconcileNext` (object by object in `CreateOrder`: `SkipUnserved`, `DeleteUnwanted`, `KeepFound` or `CreateMissing`), `FinishPass`; for a deleted CR
`reconcileCleanup`, `DeleteNext` (in `DeleteOrder`), `RemoveFinalizer`. `Reply`
lets a call take effect and its reply be lost, `CallFails` lets it fail, `Restart`
stops the operator. `Update` is the API server's optimistic concurrency. Objects
that are created and deleted together are one: the Role with its RoleBinding, the
five Prometheus objects. What is in an object is left out.

**`Status`** is what the operator reports about a live CR. `stored` is the status
at the API server, `cached` the copy, `current` whether it is the latest version.
A pass is `StartPass` (gauge, downgrade check), `Mark`, `reconcileUpdate`,
`reconcileStatus`, `FinishPass`, with a write after `Mark` and at the end; the objects
may fail (`reconcileUpdateFails`), or the DaemonSets may not be readable
(`checkDegradedFails`). The
DaemonSets (`ds`, `dsSeen`) change under it, claims bind or not, other writers make
its copy stale, and `Restart` installs any version at any moment. The conditions
carry times in seconds: a repeated mark is a new version of the CR or none.

**`StoragePools`** has the deployments, jobs, mounters and mounts of the pools of
one CR, and the operator's view of them: `depsSeen` and `jobsSeen` are its caches,
`depsNews` and `jobsNews` the states that watch events will bring, in order, and every
read of the operator is one of a cache. A pool on a node is a slot. A pass over a live
CR is `StartPass` (which lists the deployments), `reconcileStoragePoolDeploymentByNode`,
`DeleteUnused`; over a deleted one `StartClean`, `cleanDeployments` (a list per pool),
`CleanDeployment` (per deployment: the job, then the deployment). Both end in
`reconcileCleanup`, call by call: `CountDeployments`, `CheckJobs`, `ListJobs` (a list of
its own), `RemoveJob` job by job, then `FinishPass` or `Release`; `CleanupWaits` is its
other outcome. Of the update of a deployment that exists it is modelled that it may fail
while the cache is behind, not what is updated. On the nodes `RunMounter`, `StopMounter`,
`Mount` and `unmountPath`; `JobFails` is a job that has used up the default backoffLimit.
`PrefixOf` is what the operator's guess of a deployment's pool by its name amounts to.
`op.made`, `op.missed` and `op.known` are kept for the properties: what the pass has
created, what a cache had not shown when it began, and the jobs that it had. `Lifecycle`
sees of all this only that the wait for the cleanup ends.

**`Lease`** says what the finalizer promises: an object appears only while some CR
holds the lease, and a CR lets go only when there is no object. `Lifecycle`
implements it (`ImplementsLease`): the holders are the CRs that the server shows
with the finalizer, the objects are `res`.

**`ManagedObjects`** is about content. Each of the 18 objects is a record: for which
version of the operator and which setting of the gate `Snapshotting` its fields are
right, whether its immutable fields are the operator's, whether it has the
last-applied annotation, an owner or label that leads to the CR, and a label of some
user. A pass visits them in `Order`: `DeleteDuplicates`, then per object
`DeleteUnwanted`, or `Get` and `Create`, `DeleteJunk` or `Merge`; a created service
account is followed by `deleteRunningPodsWithSa`. For a deleted CR it is `RemoveNext`
in `RemovalOrder` and `Release`. `merge` is what the three-way merge amounts to:
since the annotation is replaced before the merge reads it, nothing counts as
dropped, so fields of an earlier version stay except in DaemonSets. That a read may
be old is here the same as a user's change between read and write (`op.stale`);
caches as such are `Lifecycle`'s subject. **`Permissions`** has the rules of the
operator's roles, rule by rule from the generated manifests, and the rules it writes
into the roles it creates; a call that no rule allows fails (`May`), and so does
writing or binding a role with rules the operator lacks (`MayGrant`). For objects of the
whole cluster only the rules of the operator's ClusterRole count (`RulesFor`).

**`Mounter`** is one pool on one node: the mount table on the pool's path as a stack,
the volume's content, up to `Pods` pods of the deployment, each at a place in its
loop, and the cleanup job. Every command (`findmnt`, `blkid`, `mkfs.xfs`, `mount`,
`umount`) is a step, and every one may fail. `blame` records what has got in the way
of the job. The operator may create the job before or after it deletes the deployment
(`CreateJob`, `DeleteDeployment`), as its two paths do. `Mount` and `unmountPath` of `StoragePools` are these loops as one step.

**`Names`** keeps a name as the parts between its dashes with a length, so that the
limit of 63 characters and the hash can be computed without strings; the hash is
taken to be free of collisions. **`CryptoPolicy`** has the APIServer's profile, the
cached copy, the overrides, and the settings of the last handshake. **`Driver`**
composes both with the webhook (the guard of `EditCR`) and a pass that builds the pod
templates: volumes, mounts, the directories the driver is told of, the TLS argument.

`MCLifecycle`, `MCStatus`, `MCStoragePools`, `MCManagedObjects`, `MCMounter` and
`MCDriver` give the constants values for TLC. The modules called `...Proofs` hold the
theorems about the module they are named after; `NamesProofs` has the lemmas that
`DriverProofs` builds on. Definitions whose comment says *mutant* are wrong on purpose: a
run with the mutant in place of the definition it names violates the property it is
listed with.

## Runs

| Run | Result | Shows |
|---|---|---|
| `lifecycle_one` | pass, 3.2 million states | one CR, created, edited, deleted, recreated: `NoOrphans`, `ReleasedClean`, `NoLostEdits`, `RestsConverged`, `ImplementsLease` |
| `lifecycle_live` | pass, 0.5 million | `DeletionCompletes`, `Settles` |
| `status_safe` | pass, 3.6 million | `RestsTruthful`, `DowngradeWritesNothing` |
| `status_live` | pass, 0.2 million | `BecomesHealthy`, `ReportsNotReady`, `GaugeAlerts` |
| `pools_stale` | pass, 3.7 million | two pools, lagging caches: `KeepsWanted`, `ReleaseWaits`, `KnownJobsRunToEnd` |
| `pools_live` | pass, 0.1 million | one pool, lagging caches: `PoolsMountedOnceCleaned`, `DeletionFinishesUnlessStuck` |
| `pools_prefix` | violation | `CleansOnlyUnused`: the wrong pool is unmounted if one name starts the other |
| `objects` | pass, 0.2 million | drift and upgrades: `Settles`, `StopsWriting`, `UsersLabelsSurvive`, `PodsAuthenticated`, `DeletionClean` |
| `objects_dups` | violation | the operator may not delete the leftovers it means to delete |
| `objects_rule` | violation | the PrometheusRule is compared with itself |
| `mounter` | pass, 0.8 million | two pods and a job: `NoPileUp`, `JobLeavesNothing`, `Mounts`, `JobEnds` |
| `driver` | pass, 0.5 million | `PoolsServed`, `NamesApart`, `DriverAtLeast`, `EndpointsFollow` |

The violations are disagreements between the code and a comment of the repository;
`PROJECT.json` quotes each. They are not repaired in the models.

Some properties are as weak as they are for a reason.

- `NoOrphans` and the lease speak of any number of CRs, not of one. The check for a
  single CR and the Get after it are two reads of a cache, and a second CR that
  arrives in between is given the finalizer too.
- `RestsConverged` and `Settles` of `Lifecycle` are run, and the former is proved, with
  one CR: while there are two, `mapFn` drops the events of managed objects. When an
  object is deleted by hand, its event arrives while the cache has two CRs, and then the
  second CR goes away, the first is not reconciled again; nothing but the resync of the
  cache makes up for it.
- `GaugeAlerts` leaves out a CR that is progressing: a claim that never binds keeps
  the CR unavailable, degraded and progressing (`reconcileStatus` marks it
  FailedHealing), so the gauge keeps its last value and `HPPNotReady` never fires.
- `PoolsMountedOnceCleaned` leaves out a pool with a running cleanup job: when a
  DaemonSet pod is replaced the operator deletes the deployment, creates the job, and
  on the next pass the deployment again, without stopping the job, and mounter and
  job may undo each other for ever. `Mounts` and `JobEnds` of `Mounter` leave out the
  same case from either side.
- `DeletionFinishesUnlessStuck` leaves out a deployment of a pool that was taken from
  the CR before the CR was deleted, which nothing removes, and a job that cannot
  succeed any more, because its node is gone or it has failed too often: nothing
  replaces it.
- `KeepsWanted` allows a pass to delete what it has created itself. The list of
  deployments and the look-up of each are two reads of a cache: if the event of a
  deletion arrives in between, the deployment is created again and then deleted, since
  it is still on the list. The next pass makes up for it.
- `ReleaseWaits` says what may be left when a deleted CR is released: a deployment whose
  creation the cache had not shown when the pass began (the garbage collector removes it,
  and nothing unmounts its path), and jobs that it had not shown either.
- `KnownJobsRunToEnd` protects the jobs that the cache had shown when the pass began. A
  job that the pass has created, or that appears between the two lists of jobs, may be
  deleted while it runs. A finished job that was never removed stands in for the next
  one of its name.
- `JobLeavesNothing` excuses a job whose umount was refused because the path is in
  use: nothing has changed, which `unmountPath` takes for success.
- `Mounts` asks that the host shows the device under the name the mounter expects, or
  under one other mount; otherwise the mounter exits in every round.
- `Settles` of `ManagedObjects` leaves out what comes after a binding with another
  roleRef or a PrometheusRule without the annotation, which no pass gets past
  (`Blocked`), and a DaemonSet that somebody else created under the operator's name,
  which is updated but never adopted (`Disowned`).
- `PodsAuthenticated` speaks of pods that still count as available when the account
  is created again, and of the time after the last fault: a crash between the two
  calls leaves the pods with dead credentials until they fail.
- `NamesApart` exempts pool and node names of together 53 characters: the name of
  their cleanup job begins with a dash. It also lets pool `a` on node `b-c` and pool
  `a-b` on node `c` share names, as they do.
- `DriverAtLeast` exempts an override of the cipher suites alone, which leaves the
  operator's lowest version to Go; `EndpointsFollow` exempts profiles of a type without
  settings, at which every handshake and every pass panics.

Bounds. `MaxUserOps` = 2 lets a CR be created and edited, or created twice, or
created and lose an object (deletions are not counted); that two CRs leave nothing
behind is proved and not run. `MaxFaults` = 1 puts one failure,
lost reply or restart at every place of every pass. `lifecycle_one` has two groups
of informers, RBAC and the rest, which is enough for an object to be seen and another
not; the others have one. Prometheus and SCC objects behave alike: only the latter
are switched on. In `Status` one pod per DaemonSet is enough: readiness
compares two numbers with each other and with 0. Four changes of the environment and
two faults allow an upgrade, a downgrade and a change of both DaemonSets within a
pass. In `StoragePools` two pools on one node are the least for a pass to delete one
deployment and create another, or to be taken for each other; which of the two it is
does not matter in `pools_stale`, where they are symmetric and one edit (a pool added or
removed, a DaemonSet pod or a node that goes) and one fault meet any order of events.
`MaxLag` events on their way per cache, two there and three in `pools_live`, are enough
for a deletion and a new creation to be both unseen; without such a bound one cached job
could be any number of events behind. In `pools_live` two edits let a DaemonSet pod go
and come back; liveness with two pools is not checked.
In `ManagedObjects` users touch six objects, one of each way of merging and of each
kind of owner, and `MaxEvents` = 2 lets an upgrade, a failure or an edit of the CR
meet a change by a user, or one user delete and another recreate an object. In
`Mounter` two pods are the least for a look to be followed by another's mount; three
changes let the deployment go and come back with a rollout in between, two failing
commands hit look and mount, and the stack is bounded by five, more than `NoPileUp`
allows. In `Driver` the specs sit at the limits (names of up to 51 characters, nodes
of up to 60, paths of 255 and 256, legacy and pools, snapshots, shared); one edit, one change of the
profile, one restart and one failed pass meet in every order.
Deadlock is not checked: the systems may rest.

Fairness. The work queue is served while it has a request (one worker, retries with
back-off), watches deliver, kubelets run and stop pods, and mounters and jobs take
their next turn: weak fairness. In `Lifecycle` the wait for the storage pools ends if
it is tried again and again: strong fairness of `reconcileCleanup(TRUE)`, which
`StoragePools` shows to fail for a deployment that nothing removes. In `StoragePools` it is also assumed that
again and again no pass runs and no event is on its way: passes that fail are spaced out
by the back-off, and events take no longer than a watch does. Without it TLC finds passes that for ever list a deployment
whose deletion arrives before the look-up, and so create and delete it. In `Mounter` the
loops, the kubelet and the CSI driver, which creates the pool's directory, go on. In
`Driver` the cache is resynced every ten hours and Prometheus scrapes, that is shakes
hands, for ever. Users, failures,
restarts, pods becoming ready and claims being bound are never forced.

## Proofs

`LifecycleProofs` proves for every non-empty set of CRs, all kinds, both switches
and any bounds: `TypeCorrect`, `NothingOrphaned` (`NoOrphans`),
`AlwaysReleasedClean` (`ReleasedClean`) and `EditsAreNotLost` (`NoLostEdits`), from
the assumptions on the constants that `Lifecycle` names.

`NoOrphans` alone is not inductive. A pass creates objects because *its copy* of the
CR has the finalizer; that the server's has it too must follow from what copies can
be like. `LifecycleInv` adds
- `VersionsOrdered`: from the cache through the pending events to the server,
  versions grow object by object, and one version has one content; so an `Update`
  that is accepted was made from the latest content;
- `FinalizerStays`: if any known state shows a live CR with the finalizer, the
  server still has the finalizer, because only a pass that has *seen* the deletion
  removes it, and by then the cache is past every live copy;
- `PassKnows`: what the label of the pass says about its copy: with the finalizer
  before it creates, with the deletion timestamp before it deletes;
- `PassDone`: in the deletion path what is left is what is still to be deleted, and
  nothing is left when the finalizer is to be removed.

`InvHolds` shows that every action keeps `LifecycleInv`, with one lemma per conjunct
and, for the writes of the CR, lemmas about `Update`. The action properties follow
from it in one step.

`LifecycleImplementsLease` shows that the initial states map to the lease's and that
every step is a step of the lease or leaves it unchanged: a write of the CR is an
`Acquire`, a `Release` or neither, which needs `PassDone` for the release, and a
created object is a `Put`, which needs `FinalizerStays`.

`MounterProofs` proves for any finite number of pods and any bounds `MounterTypes`,
`CleanedPath` (`JobLeavesNothing`) and `MountsBounded` (`NoPileUp`).
`CleanedPath` rests on `JobInv`: while nothing is to blame there is at most one mount
on the path of a running job, and none once it has unmounted. `MountsBounded` rests
on `PileInv`, which counts a pod that is about to mount as if it had mounted: the
room was reserved when it looked, because the volume was not on the path then, or
because its lookup failed and that fault is counted. The step where a pod looks
needs to know that a path with no volume seen by the lookup has no volume at all:
`BlockInv` (nothing but the volume is mounted on a block volume's path, so the oldest
mount tells) and `FileInv` (pods of a file system volume never get to the places of a
block volume).

`RestIsConverged` (`RestsConverged`) is about one CR. That nothing is left to do says
nothing about what has been done, so `RestInv` relates both at every moment: every
difference between cache and server has an event on its way, for CRs (`CachesInv`) and
for managed objects (`SeenInv`); a pass that creates works for a CR without deletion
timestamp (`LiveInv`); and if there is neither a request nor an event of the CR, the
pass at work has the server's CR in its hands, and every object it has come past is
what that CR asks for, or an event of its kind is on its way (`WorkInv`). A pass that
ends because a call failed has queued the request again; one that ends because the CR
was not there, or more than one was, has read a cache with which the next event will
not agree.

`StatusProofs` proves for all versions with any precedence, any pods and any bounds
`StatusTypes`, `DowngradeNeverWrites` (`DowngradeWritesNothing`) and `RestIsTruthful`
(`RestsTruthful`). `PassInv` says that a pass was admitted against the version that its
copy has reached, and that this is the stored one for as long as its copy is the latest:
so an operator that replaces another in the middle of a pass cannot write with what the
other was allowed. `ReportInv` adds that, unless another pass is due, the stored CR is
what the pass started from, and what the pass is about to write is true of the
DaemonSets that the cache shows.

`StoragePoolsProofs` proves for any finite sets of pools and nodes, any names, any bounds
and caches that are behind by any number of events: `PoolTypes`, `WantedKept`
(`KeepsWanted`), `ReleaseComesLast` (`ReleaseWaits`) and `JobsEnd` (`KnownJobsRunToEnd`).
What the operator decides from a cache says nothing about the server unless the events on
their way are known, so `PoolInv` relates the two: the last event on its way tells of the
jobs as they are (`LastInv`); a job that some copy shows as ended and that runs was
deleted in between, and an event says so (`EndedInv`), so that a job which was known
throughout and is seen to have ended has ended; a wanted deployment is on the list of
unused ones only before the pass has come to it, or if the pass has created it
(`ListedInv`); during a pass over a deleted CR no deployment becomes an unseen one, and
after a count of zero all that are left are (`ShownInv`); and the known jobs are shown
until the pass deletes them, have ended once the check has passed, and are all on the
second list (`KnownInv`).

`ManagedObjectsProofs` proves `ObjectTypes`, which needs to know in which of the two
lists of objects a pass is, and `LabelsSurvive` (`UsersLabelsSurvive`) from `LabelsInv`:
the copy that a pass has read is the object unless somebody has changed it, and then the
write is refused.

`NamesProofs` has, for names and nodes of any length, the three shapes a name can have (it
fits, all of it is hashed, or its base is), that the suffix can be read off each, and so
that different suffixes under one base, or different bases under one suffix, give
different names; and which names are valid. `DriverProofs` proves from this, for any
specs, nodes and profiles, `DriverTypes`, `DriverNotOlder` (`DriverAtLeast`),
`NamesKeptApart` (`NamesApart`) and `PoolsAlwaysServed` (`PoolsServed`). The invariant is
that the CR and the copy of a pass went through the webhook (`AdmittedInv`); without
its rules two pools could have one mount. What the constants are assumed to be: records
of the shape the modules use (`SpecShape`, `ProfileShape`, where the API admits only the
TLS versions 1.0 to 1.3 in a profile), texts that are spelled alike are equally long
(`LengthAssumption`: a text is kept as parts and length), and the first CR is one that
the webhook admits (`FirstAssumption`).

With this every invariant and every action property that a passing run checks is also a
theorem. Only model-checked are the liveness properties (`DeletionCompletes`, `Settles`,
`BecomesHealthy`, `ReportsNotReady`, `GaugeAlerts`, `DeletionFinishesUnlessStuck`,
`PoolsMountedOnceCleaned`, `StopsWriting`, `PodsAuthenticated`, `DeletionClean`, `Mounts`,
`JobEnds`, `EndpointsFollow`): the proof system has no rules for fairness and `ENABLED`
that the installed provers can use.

## Not modelled

What a storage pool deployment contains, and so what the update of one that exists changes
(`C/storagepool.go` 291-309; that it may fail and end the pass is modelled); how many of
its attempts a job has used before it fails (in `StoragePools` it may fail at any time, in
`Mounter` it is restarted after every failed command); fields that the API server fills in
with defaults, so differences that come from them do not occur in `ManagedObjects`; what
`mkfs.xfs` does other than refuse a device that has a file system.

The claims other than whether they are bound, and the backend StorageClass, which is
created once and never changed (two shared pools without a class name share one);
deployments that `deleteDeploymentsWithSa` deletes with the DaemonSets;
leader election (two operators at work at once); images, resources, environment and
probes of the pods; namespaces; monitoring rules other than `HPPNotReady`; generated
code (deep copies, OpenAPI, CRD, client) and the generators of manifests, which have
no state and no control flow of their own.

## Plan

1. `Lifecycle` and its proofs, `Status`, `StoragePools` (done).
2. `Mounter` and its proofs, `Permissions` and `ManagedObjects`, `Names`,
   `CryptoPolicy` and `Driver`, `Lease` and the refinement (done).
3. Proofs about `Status`, `StoragePools`, `ManagedObjects`, `Names` and `Driver`, and
   `RestsConverged` of `Lifecycle` (done).
4. `StoragePools` with caches that lag in every property and every theorem, its cleanup
   call by call, and failing jobs (done).
5. Liveness of `StoragePools` with two pools, and safety facts behind the liveness properties that can be proved: that a pass over a
   live CR without faults ends with every object restored (`ManagedObjects`), that an
   idle operator with dead credentials in a pod has had a fault (`PodsAuthenticated`),
   and that the TLS settings agree once cache and profile do (`EndpointsFollow`).
