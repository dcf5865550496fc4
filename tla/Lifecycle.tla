----------------------------- MODULE Lifecycle -----------------------------
(***************************************************************************)
(* The finalizer protocol of the operator: how one reconcile pass after    *)
(* another creates the objects that no owner reference protects            *)
(* (ClusterRoles, bindings, CSIDriver, SCCs, Prometheus objects) and takes *)
(* them away before it lets a deleted HostPathProvisioner go.              *)
(*                                                                         *)
(* The operator reads from an informer cache that lags behind the API      *)
(* server and writes to the API server, where an Update only succeeds on   *)
(* the latest resource version; it has one worker, any call may fail, the  *)
(* reply of a call may be lost, and the process may stop between any two   *)
(* calls.  Status conditions and versions are the subject of module        *)
(* Status.  Storage pools are the subject of module StoragePools: here the *)
(* wait for their cleanup ends, or goes on, as it likes.                   *)
(***************************************************************************)
EXTENDS Integers, Sequences, FiniteSets

CONSTANTS
    CRs,        \* names of HostPathProvisioner objects
    SccUsed,    \* the cluster serves SecurityContextConstraints
    PromUsed,   \* the cluster serves the Prometheus operator's API
    KindOf,     \* the kind of each managed object, one informer per kind
    MaxUserOps, \* bound: creations, edits and drifts made by users
    MaxFaults   \* bound: failed calls, lost replies and operator crashes

ASSUME SwitchAssumption == SccUsed \in BOOLEAN /\ PromUsed \in BOOLEAN
ASSUME BoundAssumption == MaxUserOps \in Nat /\ MaxFaults \in Nat
ASSUME NameAssumption == CRs # {}

VARIABLES
    server,   \* the API server's HostPathProvisioners: a version and the objects
    cache,    \* the informer cache's copy of them, an earlier server state
    pending,  \* server states whose watch events are not yet delivered
    res,      \* unowned managed objects that exist in the cluster
    seen,     \* unowned managed objects the informer caches hold
    events,   \* kinds of managed objects with undelivered watch events
    queue,    \* reconcile requests in the work queue
    op,       \* the pass the single worker is executing
    userOps,  \* number of user operations so far
    faults    \* number of faults so far

vars == <<server, cache, pending, res, seen, events, queue, op, userOps, faults>>

-----------------------------------------------------------------------------
(* The managed objects without an owner reference.  The names without a    *)
(* suffix belong to the legacy provisioner and exist only for a CR with a  *)
(* pathConfig; "RoleCsi" stands for the Role and its RoleBinding and       *)
(* "Prometheus" for the rule, role, binding, service and monitor, which    *)
(* are created and deleted together.                                       *)

LegacyResources == {"ClusterRole", "ClusterRoleBinding", "SCC"}

\* The order in which reconcileUpdate visits them.
CreateOrder ==
    <<"ClusterRole", "ClusterRoleCsi", "ClusterRoleBindingCsi", "ClusterRoleBinding",
      "RoleCsi", "CSIDriver", "SCC", "SCCCsi", "Prometheus">>

\* Mutant of DeleteOrder: the CSIDriver is forgotten.
DeleteOrderForgets ==
    <<"SCC", "SCCCsi", "Prometheus", "ClusterRoleBindingCsi", "ClusterRoleCsi",
      "RoleCsi", "ClusterRoleBinding", "ClusterRole">>

\* The order in which a pass over a deleted CR removes them: deleteSCC twice,
\* deletePrometheusResources, deleteAllRbac name by name, deleteCSIDriver.
DeleteOrder ==
    <<"SCC", "SCCCsi", "Prometheus", "ClusterRoleBindingCsi", "ClusterRoleCsi",
      "RoleCsi", "ClusterRoleBinding", "ClusterRole", "CSIDriver">>

Resources ==
    LegacyResources \cup {"ClusterRoleCsi", "ClusterRoleBindingCsi", "RoleCsi",
                          "CSIDriver", "SCCCsi", "Prometheus"}

\* checkSCCUsed and checkPrometheusUsed: is the kind of r served at all?
Served(r) == CASE r \in {"SCC", "SCCCsi"} -> SccUsed
               [] r = "Prometheus"        -> PromUsed
               [] OTHER                   -> TRUE

\* One informer per kind: its events arrive in order, those of two kinds do not.
ASSUME KindAssumption == KindOf \in [Resources -> STRING]

Kinds == {KindOf[r] : r \in Resources}

OfKind(kind) == {r \in Resources : KindOf[r] = kind}

\* What a CR asks for.
Desired(legacy) ==
    {r \in Resources : Served(r) /\ (legacy \/ r \notin LegacyResources)}

-----------------------------------------------------------------------------
(* HostPathProvisioner objects.  rv is the resource version, fin the       *)
(* operator's finalizer, del the deletion timestamp, legacy whether        *)
(* spec.pathConfig is set, dep whether the CR has been marked deploying,   *)
(* obs whether status.observedVersion is set.                              *)

Objects == [rv : Nat, exists : BOOLEAN, fin : BOOLEAN, del : BOOLEAN,
            legacy : BOOLEAN, dep : BOOLEAN, obs : BOOLEAN]

Snapshots == [ver : Nat, objs : [CRs -> Objects]]

Gone(rv) == [rv |-> rv, exists |-> FALSE, fin |-> FALSE, del |-> FALSE,
             legacy |-> FALSE, dep |-> FALSE, obs |-> FALSE]

\* The server state after object o has been stored under name c.
Stored(c, o) ==
    [ver  |-> server.ver + 1,
     objs |-> [server.objs EXCEPT ![c] = [o EXCEPT !.rv = server.ver + 1]]]

\* Store o under name c and tell the watchers.
Write(c, o) == /\ server' = Stored(c, o)
               /\ pending' = pending \cup {Stored(c, o)}

\* The managed objects become rs, and the informer of r will hear of it.
SetRes(rs, r) == /\ res' = rs
                 /\ events' = IF rs = res THEN events ELSE events \cup {KindOf[r]}

Existing(s) == {c \in CRs : s.objs[c].exists}

Passes == [pc : {"idle", "get", "finalizer", "mark", "owned", "reconcile", "status",
                 "cleanup", "delete", "remove"},
           cr : CRs, held : Objects, k : Nat]

Idle == [pc |-> "idle", cr |-> CHOOSE c \in CRs : TRUE, held |-> Gone(0), k |-> 0]

\* The pass goes on at label pc, or ends.
Goto(pc) == IF pc = "idle" THEN Idle ELSE [op EXCEPT !.pc = pc]

\* The pass returns an error and the request comes back.
Abort == op' = Idle /\ queue' = queue \cup {op.cr}

\* A call has been made: the pass goes on, or it gets an error although the
\* call took effect (the reply was lost).
Reply(next) ==
    \/ op' = next /\ UNCHANGED <<queue, faults>>
    \/ Abort /\ faults < MaxFaults /\ faults' = faults + 1

-----------------------------------------------------------------------------
Init ==
    /\ server = [ver |-> 0, objs |-> [c \in CRs |-> Gone(0)]]
    /\ cache = server
    /\ pending = {}
    /\ res = {} /\ seen = {} /\ events = {}
    /\ queue = {}
    /\ op = Idle
    /\ userOps = 0 /\ faults = 0

-----------------------------------------------------------------------------
(* Users.                                                                  *)

UserOp == userOps < MaxUserOps /\ userOps' = userOps + 1

CreateCR(c, legacy) ==
    /\ UserOp
    /\ ~server.objs[c].exists
    /\ Write(c, [Gone(0) EXCEPT !.exists = TRUE, !.legacy = legacy])
    /\ UNCHANGED <<cache, res, seen, events, queue, op, faults>>

\* spec.pathConfig is added or removed.
EditCR(c) ==
    /\ UserOp
    /\ server.objs[c].exists
    /\ Write(c, [server.objs[c] EXCEPT !.legacy = ~@])
    /\ UNCHANGED <<cache, res, seen, events, queue, op, faults>>

\* The API server removes an object without finalizers at once and marks
\* one that has a finalizer.
DeleteCR(c) ==
    /\ server.objs[c].exists /\ ~server.objs[c].del
    /\ Write(c, IF server.objs[c].fin THEN [server.objs[c] EXCEPT !.del = TRUE] ELSE Gone(0))
    /\ UNCHANGED <<cache, res, seen, events, queue, op, userOps, faults>>

\* Somebody deletes a managed object.
Drift(r) ==
    /\ UserOp
    /\ r \in res
    /\ SetRes(res \ {r}, r)
    /\ UNCHANGED <<server, cache, pending, seen, queue, op, faults>>

-----------------------------------------------------------------------------
(* Watches.                                                                *)

\* The next HostPathProvisioner event reaches the cache and the work queue.
DeliverCR ==
    \E s \in pending :
        /\ \A t \in pending : s.ver <= t.ver
        /\ cache' = s
        /\ pending' = pending \ {s}
        /\ queue' = queue \cup {c \in CRs : s.objs[c] # cache.objs[c]}
        /\ UNCHANGED <<server, res, seen, events, op, userOps, faults>>

\* Mutants of mapFn: the request carries the name of the object's kind, and
\* the event is dropped.
mapFnObjectName == Kinds
mapFnDrops == {}

\* mapFn: an event of an unowned object becomes a request for the CR if the
\* cache holds exactly one.
mapFn == IF Cardinality(Existing(cache)) = 1 THEN Existing(cache) ELSE {}

\* The events of one kind of managed object reach the cache.
DeliverKind(kind) ==
    /\ kind \in events
    /\ events' = events \ {kind}
    /\ seen' = (seen \ OfKind(kind)) \cup (res \cap OfKind(kind))
    /\ queue' = queue \cup mapFn
    /\ UNCHANGED <<server, cache, pending, res, op, userOps, faults>>

-----------------------------------------------------------------------------
(* One reconcile pass.                                                     *)

\* The worker takes a request and lists the CRs; with more than one the pass
\* fails, which leaves the request in the queue.
ListCRs(c) ==
    /\ op.pc = "idle"
    /\ c \in queue
    /\ Cardinality(Existing(cache)) <= 1
    /\ queue' = queue \ {c}
    /\ op' = [Idle EXCEPT !.pc = "get", !.cr = c]
    /\ UNCHANGED <<server, cache, pending, res, seen, events, userOps, faults>>

\* Fetch the CR from the cache; a deletion timestamp decides which way to go.
GetCR ==
    /\ op.pc = "get"
    /\ LET o == cache.objs[op.cr] IN
         op' = IF ~o.exists THEN Idle
               ELSE [op EXCEPT !.pc = IF o.del THEN "cleanup" ELSE "finalizer", !.held = o]
    /\ UNCHANGED <<server, cache, pending, res, seen, events, queue, userOps, faults>>

\* Mutant of Update: no optimistic concurrency, the last writer wins.
UpdateUnchecked(o, pc) ==
    IF ~server.objs[op.cr].exists
    THEN Abort /\ UNCHANGED <<server, pending, faults>>
    ELSE /\ Write(op.cr, o)
         /\ Reply(IF pc = "idle" THEN Idle
                  ELSE [op EXCEPT !.pc = pc, !.held = Stored(op.cr, o).objs[op.cr]])

\* client.Update of the CR with the content o, going on at label pc.  The API
\* server refuses a stale version; a write that changes nothing is not stored.
Update(o, pc) ==
    LET current == server.objs[op.cr] IN
    IF ~current.exists \/ current.rv # op.held.rv
    THEN Abort /\ UNCHANGED <<server, pending, faults>>
    ELSE IF o = current
    THEN Reply(Goto(pc)) /\ UNCHANGED <<server, pending>>
    ELSE /\ Write(op.cr, o)
         /\ Reply(IF pc = "idle" THEN Idle
                  ELSE [op EXCEPT !.pc = pc, !.held = Stored(op.cr, o).objs[op.cr]])

\* Mutant of addFinalizer: the finalizer is set on the copy and not written
\* before the pass goes on.
addFinalizerUnwritten ==
    /\ op.pc = "finalizer"
    /\ op' = Goto("mark")
    /\ UNCHANGED <<server, cache, pending, res, seen, events, queue, userOps, faults>>

addFinalizer ==
    /\ op.pc = "finalizer"
    /\ IF op.held.fin
       THEN op' = Goto("mark") /\ UNCHANGED <<server, pending, queue, faults>>
       ELSE Update([op.held EXCEPT !.fin = TRUE], "mark")
    /\ UNCHANGED <<cache, res, seen, events, userOps>>

\* A CR without an observed version is marked deploying and written; to mark
\* it again changes no more than a time stamp.
MarkDeploying ==
    /\ op.pc = "mark"
    /\ IF op.held.obs
       THEN op' = Goto("owned") /\ UNCHANGED <<server, pending, queue, faults>>
       ELSE Update([op.held EXCEPT !.dep = TRUE], "owned")
    /\ UNCHANGED <<cache, res, seen, events, userOps>>

\* reconcileUpdate begins with the objects the CR owns (DaemonSets, storage
\* pools, service accounts), which are garbage collected with it.
ReconcileOwned ==
    /\ op.pc = "owned"
    /\ Reply([op EXCEPT !.pc = "reconcile", !.k = 1])
    /\ UNCHANGED <<server, cache, pending, res, seen, events, userOps>>

\* What reconcileUpdate does about the object r: nothing if its kind is not
\* served;
SkipUnserved(r, next) ==
    /\ ~Served(r)
    /\ op' = next
    /\ UNCHANGED <<res, events, queue, faults>>

\* delete it if a CSI-only CR does not want it;
DeleteUnwanted(r, next) ==
    /\ Served(r) /\ r \in LegacyResources /\ ~op.held.legacy
    /\ SetRes(res \ {r}, r)
    /\ Reply(next)

\* leave it if the cache has it (what is in it, and whether it is updated, is
\* not modelled);
KeepFound(r, next) ==
    /\ r \in Desired(op.held.legacy) /\ r \in seen
    /\ op' = next
    /\ UNCHANGED <<res, events, queue, faults>>

\* else create it, which fails if the cache is behind and it exists.
CreateMissing(r, next) ==
    /\ r \in Desired(op.held.legacy) /\ r \notin seen
    /\ \/ /\ r \notin res
          /\ SetRes(res \cup {r}, r)
          /\ Reply(next)
       \/ /\ r \in res
          /\ Abort
          /\ UNCHANGED <<res, events, faults>>

\* reconcileUpdate visits the next managed object.
ReconcileNext ==
    LET r    == CreateOrder[op.k]
        next == [op EXCEPT !.pc = IF op.k = Len(CreateOrder) THEN "status" ELSE @,
                           !.k = @ + 1]
    IN
    /\ op.pc = "reconcile"
    /\ \/ SkipUnserved(r, next) \/ DeleteUnwanted(r, next)
       \/ KeepFound(r, next) \/ CreateMissing(r, next)
    /\ UNCHANGED <<server, cache, pending, seen, userOps>>

\* The end of a pass over a live CR: the observed version is set once the
\* DaemonSets are ready, and a changed CR is written.
FinishPass(ready) ==
    /\ op.pc = "status"
    /\ IF ready /\ ~op.held.obs
       THEN Update([op.held EXCEPT !.obs = TRUE], "idle")
       ELSE op' = Idle /\ UNCHANGED <<server, pending, queue, faults>>
    /\ UNCHANGED <<cache, res, seen, events, userOps>>

\* Mutant of reconcileCleanup: it does not put the request back while it waits.
reconcileCleanupForgets(finished) ==
    /\ op.pc = "cleanup"
    /\ IF finished
       THEN Reply([op EXCEPT !.pc = "delete", !.k = 1])
       ELSE op' = Idle /\ UNCHANGED <<queue, faults>>
    /\ UNCHANGED <<server, cache, pending, res, seen, events, userOps>>

\* cleanDeployments and reconcileCleanup: the request is put back until the
\* storage pools are cleaned up.
reconcileCleanup(finished) ==
    /\ op.pc = "cleanup"
    /\ IF finished
       THEN Reply([op EXCEPT !.pc = "delete", !.k = 1])
       ELSE Abort /\ UNCHANGED faults
    /\ UNCHANGED <<server, cache, pending, res, seen, events, userOps>>

\* Delete the next managed object; one that is not served is not touched.
DeleteNext ==
    /\ op.pc = "delete"
    /\ LET r == DeleteOrder[op.k] IN SetRes(IF Served(r) THEN res \ {r} ELSE res, r)
    /\ Reply([op EXCEPT !.pc = IF op.k = Len(DeleteOrder) THEN "remove" ELSE @, !.k = @ + 1])
    /\ UNCHANGED <<server, cache, pending, seen, userOps>>

\* RemoveFinalizer and Update: the API server then removes the object.
RemoveFinalizer ==
    /\ op.pc = "remove"
    /\ Update(Gone(0), "idle")
    /\ UNCHANGED <<cache, res, seen, events, userOps>>

\* A call fails without effect and the pass returns its error.
CallFails ==
    /\ op.pc \notin {"idle", "get"}
    /\ faults < MaxFaults /\ faults' = faults + 1
    /\ Abort
    /\ UNCHANGED <<server, cache, pending, res, seen, events, userOps>>

\* The operator process stops and a new one starts: its caches are filled by
\* a list, and every CR listed is a request.
Restart ==
    /\ faults < MaxFaults /\ faults' = faults + 1
    /\ op' = Idle
    /\ cache' = server /\ pending' = {} /\ seen' = res /\ events' = {}
    /\ queue' = Existing(server)
    /\ UNCHANGED <<server, res, userOps>>

-----------------------------------------------------------------------------
Reconcile ==
    \/ \E c \in CRs : ListCRs(c)
    \/ GetCR
    \/ addFinalizer \/ MarkDeploying \/ ReconcileOwned \/ ReconcileNext
    \/ FinishPass(TRUE) \/ FinishPass(FALSE)
    \/ reconcileCleanup(TRUE) \/ reconcileCleanup(FALSE) \/ DeleteNext \/ RemoveFinalizer

Watches == DeliverCR \/ \E kind \in Kinds : DeliverKind(kind)

Users == \/ \E c \in CRs : \/ \E legacy \in BOOLEAN : CreateCR(c, legacy)
                           \/ EditCR(c) \/ DeleteCR(c)
         \/ \E r \in Resources : Drift(r)

Next == Reconcile \/ Watches \/ Users \/ CallFails \/ Restart

Spec == Init /\ [][Next]_vars

\* The work queue is served, watch events arrive and the cleanup of the
\* storage pools does not take for ever; nothing makes users act, calls fail
\* or the operator stop.
Fairness ==
    /\ WF_vars(Reconcile)
    /\ WF_vars(DeliverCR)
    /\ \A kind \in Kinds : WF_vars(DeliverKind(kind))
    /\ SF_vars(reconcileCleanup(TRUE))

FairSpec == Spec /\ Fairness

-----------------------------------------------------------------------------
(* Properties.                                                             *)

\* Every variable has its type.
TypeOK ==
    /\ server \in Snapshots /\ cache \in Snapshots /\ pending \subseteq Snapshots
    /\ res \subseteq Resources /\ seen \subseteq Resources /\ events \subseteq Kinds
    /\ queue \subseteq CRs
    /\ op \in Passes
    /\ userOps \in Nat /\ faults \in Nat

\* An object that no owner reference protects exists only while some CR
\* carries the operator's finalizer: whatever the cache shows, whichever call
\* fails and wherever the operator stops, deleting the CR leaves no
\* ClusterRole, binding, SCC, CSIDriver or Prometheus object behind.
NoOrphans == res # {} => \E c \in CRs : server.objs[c].exists /\ server.objs[c].fin

\* A CR that carries the finalizer disappears only when no unowned object is
\* left, not even one that was made for another CR.
ReleasedClean ==
    [][\A c \in CRs : server.objs[c].fin /\ ~server'.objs[c].exists => res = {}]_vars

\* The protocol implements the lease of module Lease: the CRs with the
\* finalizer are the holders.
Protection == INSTANCE Lease WITH
    Clients <- CRs, Things <- Resources,
    holders <- {c \in CRs : server.objs[c].fin}, objs <- res

\* Every step of the operator, its caches, users and faults is a step of the
\* lease or leaves it alone: an object is created only under a holder, one
\* object and one holder change at a time, and a finalizer goes only when
\* nothing is left.
ImplementsLease == Protection!Spec

\* No write of the operator undoes what a user wrote meanwhile: neither an
\* edit of the spec nor a deletion timestamp, and it brings no object back.
NoLostEdits ==
    [][Reconcile => \A c \in CRs :
          server'.objs[c].exists =>
              /\ server.objs[c].exists
              /\ server'.objs[c].legacy = server.objs[c].legacy
              /\ server'.objs[c].del = server.objs[c].del]_vars

\* Nothing is left to do: no request, no undelivered event, no pass.
Quiescent == op = Idle /\ queue = {} /\ pending = {} /\ events = {}

\* The cluster is what the CR, or its absence, asks for.
InDesiredState ==
    LET E == Existing(server) IN
    \/ E = {} /\ res = {}
    \/ \E c \in CRs : E = {c} /\ res = Desired(server.objs[c].legacy)

\* When the operator comes to rest the cluster is what the CR asks for: no
\* event that mattered was dropped, however the passes, the two caches and
\* the users' changes interleaved.
RestsConverged == Quiescent => InDesiredState

\* A deleted CR goes away in the end.
DeletionCompletes == \A c \in CRs : server.objs[c].del ~> ~server.objs[c].exists

\* Once users and faults have stopped, the cluster reaches and keeps what the
\* CR asks for.
Settles == <>[]InDesiredState

-----------------------------------------------------------------------------
(* The inductive invariant behind NoOrphans, ReleasedClean and NoLostEdits *)

Known == pending \cup {cache, server}

\* Versions grow, object by object, from the cache to the server, and one
\* version of an object has one content.
VersionsOrdered ==
    /\ \A s \in Known : s.ver <= server.ver /\ \A c \in CRs : s.objs[c].rv <= s.ver
    /\ \A s \in pending : cache.ver <= s.ver
    /\ \A s, t \in Known : s.ver <= t.ver => \A c \in CRs : s.objs[c].rv <= t.objs[c].rv
    /\ \A s \in Known : \A c \in CRs :
          s.objs[c].rv = server.objs[c].rv => s.objs[c] = server.objs[c]

\* Whoever has ever seen a live CR with the finalizer may rely on it until
\* the deletion has been seen: no copy of such a CR outlives the finalizer.
FinalizerStays ==
    \A s \in Known : \A c \in CRs :
        /\ s.objs[c].fin => s.objs[c].exists
        /\ s.objs[c].del => s.objs[c].fin
        /\ s.objs[c].fin /\ ~s.objs[c].del => server.objs[c].fin

\* What the pass in progress knows of its CR.
PassKnows ==
    /\ op.pc \notin {"idle", "get"} =>
          /\ op.held.exists
          /\ op.held.rv <= server.ver
          /\ op.held.rv = server.objs[op.cr].rv => op.held = server.objs[op.cr]
    /\ op.pc = "finalizer" => ~op.held.del /\ (op.held.fin => server.objs[op.cr].fin)
    /\ op.pc \in {"mark", "owned", "reconcile", "status"} =>
          op.held.fin /\ server.objs[op.cr].fin
    /\ op.pc \in {"cleanup", "delete", "remove"} =>
          op.held.del /\ op.held.rv <= cache.objs[op.cr].rv

\* How far the pass in progress has come.
PassDone ==
    /\ \A r \in res : Served(r)
    /\ op.pc = "reconcile" => op.k \in 1..Len(CreateOrder)
    /\ op.pc = "delete" =>
          /\ op.k \in 1..Len(DeleteOrder)
          /\ \A r \in res : \E j \in op.k..Len(DeleteOrder) : DeleteOrder[j] = r
    /\ op.pc = "remove" => res = {}

LifecycleInv ==
    TypeOK /\ VersionsOrdered /\ FinalizerStays /\ PassKnows /\ PassDone /\ NoOrphans
=============================================================================
