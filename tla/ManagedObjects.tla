--------------------------- MODULE ManagedObjects ---------------------------
(***************************************************************************)
(* What is in the objects the operator manages, and how it is kept there.  *)
(* A pass visits the objects in a fixed order: it gets one, creates what   *)
(* is missing, merges what has drifted and writes the result if it differs *)
(* from what was read.  Users edit, delete and recreate objects at any     *)
(* time, also between the Get and the write; the CR is edited and deleted; *)
(* the operator is upgraded, fails and restarts.  The API server refuses a *)
(* write to another version than the one that was read, a change of an     *)
(* immutable field and a call that the operator's rules do not allow.      *)
(*                                                                         *)
(* That a Get may be answered from a cache that is behind is the same as a *)
(* user's change right after it.  The storage pools, which a pass handles  *)
(* between the DaemonSets and the service accounts, are left out.          *)
(***************************************************************************)
EXTENDS Permissions, Naturals, Sequences

CONSTANTS
    Touched,     \* objects that users change
    Duplicates,  \* kinds of leftovers of a version that named them after the CR
    MaxEvents    \* bound: changes made by users, failed calls, restarts, upgrades

CRName == "hpp"  \* the name of the CR

ASSUME DuplicateAssumption == Duplicates \subseteq {"daemonsets", "serviceaccounts"}
ASSUME TouchedAssumption == Touched \subseteq STRING
ASSUME EventAssumption == MaxEvents \in Nat

VARIABLES
    stored,   \* the managed objects at the API server
    dups,     \* leftovers of a version that named its objects after the CR
    pods,     \* pods of each DaemonSet: their credentials, and are they available
    cr,       \* the CR
    version,  \* version of the running operator
    request,  \* a reconcile request is in the work queue
    op,       \* the pass of the single worker
    events    \* number of changes made by users and of faults

vars == <<stored, dups, pods, cr, version, request, op, events>>

-----------------------------------------------------------------------------
(* The managed objects.                                                    *)

\* The order in which reconcileUpdate visits them.
Order ==
    <<"DaemonSet", "DaemonSetCsi", "ServiceAccount", "ServiceAccountCsi",
      "ClusterRole", "ClusterRoleCsi", "ClusterRoleBindingCsi", "ClusterRoleBinding",
      "Role", "RoleBinding", "CSIDriver", "SCC", "SCCCsi",
      "PrometheusRule", "PrometheusRole", "PrometheusRoleBinding", "PrometheusService",
      "ServiceMonitor">>

\* Mutant of RemovalOrder: the monitoring role and its binding are forgotten.
RemovalOrderForgets ==
    <<"SCC", "SCCCsi", "PrometheusRule", "ServiceMonitor", "PrometheusService",
      "ClusterRoleBindingCsi", "ClusterRoleCsi", "RoleBinding", "Role",
      "ClusterRoleBinding", "ClusterRole", "CSIDriver">>

\* The order in which a pass over a deleted CR removes those without an owner.
RemovalOrder ==
    <<"SCC", "SCCCsi", "PrometheusRule", "PrometheusRole", "PrometheusRoleBinding",
      "ServiceMonitor", "PrometheusService", "ClusterRoleBindingCsi", "ClusterRoleCsi",
      "RoleBinding", "Role", "ClusterRoleBinding", "ClusterRole", "CSIDriver">>

Objs        == {Order[i] : i \in 1..Len(Order)}
DaemonSets  == {"DaemonSet", "DaemonSetCsi"}
Accounts    == {"ServiceAccount", "ServiceAccountCsi"}
Owned       == DaemonSets \cup Accounts
Legacy      == {"DaemonSet", "ServiceAccount", "ClusterRole", "ClusterRoleBinding", "SCC"}
Clusterwide == {"ClusterRole", "ClusterRoleCsi", "ClusterRoleBinding", "ClusterRoleBindingCsi",
                "CSIDriver", "SCC", "SCCCsi"}
\* Objects whose content depends on the feature gate Snapshotting.
Gated       == {"DaemonSetCsi", "ClusterRoleCsi"}

\* Resource and name of an object, as the operator's rules know them.
Resource(o) ==
    CASE o \in DaemonSets                           -> "daemonsets"
      [] o \in Accounts                             -> "serviceaccounts"
      [] o \in {"ClusterRole", "ClusterRoleCsi"}    -> "clusterroles"
      [] o \in {"ClusterRoleBinding", "ClusterRoleBindingCsi"} -> "clusterrolebindings"
      [] o \in {"Role", "PrometheusRole"}           -> "roles"
      [] o \in {"RoleBinding", "PrometheusRoleBinding"} -> "rolebindings"
      [] o = "CSIDriver"                            -> "csidrivers"
      [] o \in {"SCC", "SCCCsi"}                    -> "securitycontextconstraints"
      [] o = "PrometheusRule"                       -> "prometheusrules"
      [] o = "PrometheusService"                    -> "services"
      [] o = "ServiceMonitor"                       -> "servicemonitors"

Name(o) ==
    CASE o \in {"DaemonSet", "ClusterRole", "ClusterRoleBinding", "SCC"} ->
             MultiPurposeHostPathProvisionerName
      [] o \in {"DaemonSetCsi", "SCCCsi"}                    -> CsiName
      [] o = "ServiceAccount"                                -> ProvisionerServiceAccountName
      [] o \in {"ServiceAccountCsi", "ClusterRoleCsi", "ClusterRoleBindingCsi",
                "Role", "RoleBinding"}                       -> ProvisionerServiceAccountNameCsi
      [] o = "CSIDriver"                                     -> driverName
      [] o = "PrometheusRule"                                -> "prometheus-hpp-rules"
      [] o \in {"PrometheusRole", "PrometheusRoleBinding"}   -> rbacName
      [] o = "PrometheusService"                             -> PrometheusServiceName
      [] o = "ServiceMonitor"                                -> "service-monitor-hpp"

\* The role that a binding refers to.
RoleRef == [b \in {"ClusterRoleBinding", "ClusterRoleBindingCsi", "RoleBinding",
                   "PrometheusRoleBinding"} |->
              CASE b = "ClusterRoleBinding"    -> "ClusterRole"
                [] b = "ClusterRoleBindingCsi" -> "ClusterRoleCsi"
                [] b = "RoleBinding"           -> "Role"
                [] b = "PrometheusRoleBinding" -> "PrometheusRole"]

Bindings == DOMAIN RoleRef

\* The rules in the roles.
Grants(o, snapshotting) ==
    CASE o = "ClusterRole"    -> createClusterRoleObjectProvisioner
      [] o = "ClusterRoleCsi" -> createCsiClusterRoleObjectProvisioner(snapshotting)
      [] o = "Role"           -> createRoleObjectProvisioner
      [] o = "PrometheusRole" -> createPrometheusRole
      [] OTHER                -> {}

\* The service account a DaemonSet's pods run under.
AccountOf(d) == IF d = "DaemonSet" THEN "ServiceAccount" ELSE "ServiceAccountCsi"

(* The content of an object: ver and snap tell for which version of the    *)
(* operator and which setting of the gate the fields and labels the        *)
(* operator sets are right (ver = 0: for none); old whether fields are     *)
(* there that only version 1 sets; imm whether the immutable fields        *)
(* (selector, roleRef, the four of the CSIDriver) are the operator's; anno *)
(* whether it has the last-applied annotation; tied whether it points to   *)
(* the CR, by an owner reference or by the label k8s-app; mine whether it  *)
(* has a label of some user.                                               *)
Contents == [ex : BOOLEAN, ver : 0..2, snap : BOOLEAN, old : BOOLEAN, imm : BOOLEAN,
             anno : BOOLEAN, tied : BOOLEAN, mine : BOOLEAN]

Absent == [ex |-> FALSE, ver |-> 0, snap |-> FALSE, old |-> FALSE, imm |-> FALSE,
           anno |-> FALSE, tied |-> FALSE, mine |-> FALSE]

HasImmutable == DaemonSets \cup Bindings \cup {"CSIDriver"}

\* What the operator creates for a CR c: the objects of create...Object with
\* the annotation of setLastAppliedConfiguration and the owner reference.
Desired(o, c) ==
    [ex |-> TRUE, ver |-> version, snap |-> c.snap /\ o \in Gated, old |-> version = 1,
     imm |-> TRUE, anno |-> TRUE, tied |-> TRUE, mine |-> FALSE]

Wanted(o, c) == c.legacy \/ o \notin Legacy

-----------------------------------------------------------------------------
(* Merging.                                                                *)

\* copyImmutableFields of the CSIDriver: what cannot be changed is not asked for.
copyImmutableFields(desired, found) == [desired EXCEPT !.imm = found.imm]

\* mergeLabelsAndAnnotations: the operator's labels and annotations replace
\* those found, among them the last-applied configuration; others stay.
mergeLabelsAndAnnotations(desired, found) == [found EXCEPT !.anno = desired.anno]

\* Mutant of mergeObject: what is not desired is taken away.
mergeObjectReplaces(desired, found) == [desired EXCEPT !.old = found.old \/ @]

\* mergeObject: a three-way merge of the last-applied configuration, the
\* desired object and the one found.  As the annotation has been replaced
\* before, nothing counts as dropped since it was last applied.
mergeObject(desired, found) ==
    [desired EXCEPT !.old = found.old \/ @, !.mine = found.mine, !.tied = found.tied \/ @]

\* Mutant of merge: the CSIDriver is treated like any other object.
mergePlain(o, desired, found) ==
    CASE o \in DaemonSets -> [desired EXCEPT !.mine = found.mine, !.tied = found.tied]
      [] o = "PrometheusRule" -> found
      [] OTHER -> mergeObject(desired, mergeLabelsAndAnnotations(desired, found))

\* What a pass writes in place of the object found.  A DaemonSet gets the
\* desired spec and keeps its owner; the PrometheusRule is passed both as the
\* desired and as the found object, so that what is found is desired.
merge(o, desired, found) ==
    CASE o \in DaemonSets -> [desired EXCEPT !.mine = found.mine, !.tied = found.tied]
      [] o = "PrometheusRule" -> found
      [] o = "CSIDriver" ->
             mergeObject(copyImmutableFields(desired, found), mergeLabelsAndAnnotations(desired, found))
      [] OTHER -> mergeObject(desired, mergeLabelsAndAnnotations(desired, found))

-----------------------------------------------------------------------------
Passes == [pc : {"idle", "dups", "get", "put", "pods", "remove", "release"},
           k : 1..Len(Order), cr : [ex : BOOLEAN, del : BOOLEAN, legacy : BOOLEAN, snap : BOOLEAN],
           held : Contents, stale : BOOLEAN]

NoCR == [ex |-> FALSE, del |-> FALSE, legacy |-> FALSE, snap |-> FALSE]

Idle == [pc |-> "idle", k |-> 1, cr |-> NoCR, held |-> Absent, stale |-> FALSE]

\* An installation that version 1 has brought up.
Init ==
    /\ version = 1
    /\ \E legacy \in BOOLEAN : cr = [NoCR EXCEPT !.ex = TRUE, !.legacy = legacy]
    /\ stored = [o \in Objs |-> IF Wanted(o, cr) THEN Desired(o, cr) ELSE Absent]
    /\ dups = Duplicates
    /\ pods = [d \in DaemonSets |->
                 IF Wanted(d, cr) THEN [cred |-> "live", avail |-> TRUE]
                 ELSE [cred |-> "none", avail |-> FALSE]]
    /\ request = TRUE
    /\ op = Idle
    /\ events = 0

\* The watches of add: changes of DaemonSets and service accounts reach the CR
\* through their owner reference, those of the others through mapFn, which
\* looks at the label.
Watched(before, after) == cr.ex /\ (before.tied \/ after.tied)

\* The pods after object o has become s: they go with their DaemonSet, and lose
\* their credentials with their service account.
PodsAfter(o, s) ==
    [d \in DaemonSets |->
        CASE o = d /\ ~s.ex -> [cred |-> "none", avail |-> FALSE]
          [] o = AccountOf(d) /\ ~s.ex /\ pods[d].cred = "live" -> [pods[d] EXCEPT !.cred = "dead"]
          [] OTHER -> pods[d]]

\* Object o becomes s at the API server.
Store(o, s) ==
    /\ stored' = [stored EXCEPT ![o] = s]
    /\ pods' = PodsAfter(o, s)

\* The request after the operator has changed o to s.
Noticed(o, s) == request \/ (s # stored[o] /\ Watched(stored[o], s))

-----------------------------------------------------------------------------
(* Users, nodes and the garbage collector.                                 *)

UserChanges(o, s) ==
    /\ events < MaxEvents /\ events' = events + 1
    /\ Store(o, s)
    /\ request' = (request \/ Watched(stored[o], s))
    /\ op' = [op EXCEPT !.stale = @ \/ (op.pc = "put" /\ Order[op.k] = o)]
    /\ UNCHANGED <<dups, cr, version>>

\* Somebody changes what the operator has set, takes the annotation away, or
\* adds a label of his own.
Edit(o) ==
    /\ stored[o].ex
    /\ \/ stored[o].ver # 0 /\ UserChanges(o, [stored[o] EXCEPT !.ver = 0])
       \/ stored[o].anno /\ UserChanges(o, [stored[o] EXCEPT !.anno = FALSE])
       \/ ~stored[o].mine /\ UserChanges(o, [stored[o] EXCEPT !.mine = TRUE])

Delete(o) == stored[o].ex /\ UserChanges(o, Absent)

\* Somebody creates an object under the operator's name, with the operator's
\* immutable fields or with others.
Recreate(o) ==
    /\ ~stored[o].ex
    /\ \E imm \in (IF o \in HasImmutable THEN BOOLEAN ELSE {TRUE}) :
          UserChanges(o, [Absent EXCEPT !.ex = TRUE, !.imm = imm, !.mine = TRUE])

\* The legacy provisioner or the feature gate is switched on or off.
EditCR ==
    /\ cr.ex /\ events < MaxEvents /\ events' = events + 1
    /\ cr' \in {[cr EXCEPT !.legacy = ~@], [cr EXCEPT !.snap = ~@]}
    /\ request' = TRUE
    /\ UNCHANGED <<stored, dups, pods, version, op>>

DeleteCR ==
    /\ cr.ex /\ ~cr.del
    /\ cr' = [cr EXCEPT !.del = TRUE]
    /\ request' = TRUE
    /\ UNCHANGED <<stored, dups, pods, version, op, events>>

CollectGarbage(o) ==
    /\ ~cr.ex /\ stored[o].ex /\ stored[o].tied
    /\ Store(o, Absent)
    /\ UNCHANGED <<dups, cr, version, request, op, events>>

\* The DaemonSet controller starts pods, which needs the service account.
PodsStart(d) ==
    /\ stored[d].ex /\ stored[AccountOf(d)].ex /\ pods[d].cred = "none"
    /\ pods' = [pods EXCEPT ![d] = [cred |-> "live", avail |-> FALSE]]
    /\ UNCHANGED <<stored, dups, cr, version, request, op, events>>

PodsReady(d) ==
    /\ pods[d] = [cred |-> "live", avail |-> FALSE]
    /\ pods' = [pods EXCEPT ![d].avail = TRUE]
    /\ request' = (request \/ Watched(stored[d], stored[d]))
    /\ UNCHANGED <<stored, dups, cr, version, op, events>>

\* Pods that are no longer authenticated fail.
PodsFail(d) ==
    /\ pods[d] = [cred |-> "dead", avail |-> TRUE]
    /\ pods' = [pods EXCEPT ![d].avail = FALSE]
    /\ request' = (request \/ Watched(stored[d], stored[d]))
    /\ UNCHANGED <<stored, dups, cr, version, op, events>>

-----------------------------------------------------------------------------
(* One pass.                                                               *)

\* The operator's rules that count for an object: for one of the whole cluster those of
\* its ClusterRole only, for one of its namespace those of its Role too.
RulesFor(o) == IF o \in Clusterwide THEN HppOperatorClusterRules ELSE HppOperatorRules

\* The calls the operator may make, and the roles whose rules it has.
Permitted == {call \in {"create", "update", "delete"} \X Objs :
                 Allowed(RulesFor(call[2]), call[1], Resource(call[2]), Name(call[2]))}

Grantable == {role \in Objs \X BOOLEAN : Covers(RulesFor(role[1]), Grants(role[1], role[2]))}

May(verb, o) == <<verb, o>> \in Permitted

\* The API server lets the operator write a role if the operator has its rules,
\* and a binding if the role exists and the operator has its rules.
MayGrant(o) ==
    /\ <<o, op.cr.snap>> \in Grantable
    /\ o \in Bindings =>
          LET role == stored[RoleRef[o]] IN
          role.ex /\ role.ver # 0 /\ <<RoleRef[o], role.snap>> \in Grantable

Abort == op' = Idle /\ request' = TRUE

\* Mutant of NextObject: the end of the list is missed.
NextObjectPast ==
    IF op.k > Len(Order) THEN Idle
    ELSE [op EXCEPT !.k = @ + 1, !.pc = IF op.k = 2 THEN "dups" ELSE "get",
                    !.held = Absent, !.stale = FALSE]

\* The pass goes on to the next object; duplicates of service accounts are
\* looked for before the first service account.
NextObject ==
    IF op.k = Len(Order) THEN Idle
    ELSE [op EXCEPT !.k = @ + 1, !.pc = IF op.k = 2 THEN "dups" ELSE "get",
                    !.held = Absent, !.stale = FALSE]

\* The pass begins with the CR.
GetCR ==
    /\ op.pc = "idle" /\ request
    /\ request' = FALSE
    /\ op' = IF ~cr.ex THEN Idle
             ELSE [Idle EXCEPT !.pc = IF cr.del THEN "remove" ELSE "dups", !.cr = cr]
    /\ UNCHANGED <<stored, dups, pods, cr, version, events>>

\* getDuplicateDaemonSet and getDuplicateServiceAccount, and what is done about
\* what they find.
DeleteDuplicates ==
    LET kind == IF op.k = 1 THEN "daemonsets" ELSE "serviceaccounts" IN
    /\ op.pc = "dups"
    /\ IF kind \in dups /\ ~Allowed(HppOperatorRules, "delete", kind, CRName)
       THEN Abort /\ UNCHANGED dups
       ELSE /\ dups' = dups \ {kind}
            /\ op' = [op EXCEPT !.pc = "get"]
            /\ UNCHANGED request
    /\ UNCHANGED <<stored, pods, cr, version, events>>

\* A CSI-only CR does not want the object, which is deleted unseen.
DeleteUnwanted(o) ==
    /\ op.pc = "get" /\ ~Wanted(o, op.cr)
    /\ IF May("delete", o)
       THEN Store(o, Absent) /\ op' = NextObject /\ request' = Noticed(o, Absent)
       ELSE Abort /\ UNCHANGED <<stored, pods>>

Get(o) ==
    /\ op.pc = "get" /\ Wanted(o, op.cr)
    /\ op' = [op EXCEPT !.pc = "put", !.held = stored[o]]
    /\ UNCHANGED <<stored, pods, request>>

\* Mutant of Create: the pods of a lost service account are left alone.
CreateOnly(o) ==
    /\ op.pc = "put" /\ ~op.held.ex
    /\ IF stored[o].ex \/ ~May("create", o) \/ ~MayGrant(o)
       THEN Abort /\ UNCHANGED <<stored, pods>>
       ELSE /\ Store(o, Desired(o, op.cr))
            /\ op' = NextObject
            /\ request' = Noticed(o, Desired(o, op.cr))

\* The object was not found and is created; after a service account the pods
\* that ran under the old one are looked for.
Create(o) ==
    /\ op.pc = "put" /\ ~op.held.ex
    /\ IF stored[o].ex \/ ~May("create", o) \/ ~MayGrant(o)
       THEN Abort /\ UNCHANGED <<stored, pods>>
       ELSE /\ Store(o, Desired(o, op.cr))
            /\ op' = IF o \in Accounts THEN [op EXCEPT !.pc = "pods", !.held = Absent] ELSE NextObject
            /\ request' = Noticed(o, Desired(o, op.cr))

\* deleteRunningPodsWithSa: a DaemonSet with available pods is deleted, so that
\* it is created again with pods that have the new account's credentials.
deleteRunningPodsWithSa(o) ==
    /\ op.pc = "pods"
    /\ \E d \in DaemonSets :
          /\ AccountOf(d) = o
          /\ IF stored[d].ex /\ pods[d].avail
             THEN Store(d, Absent) /\ request' = Noticed(d, Absent)
             ELSE UNCHANGED <<stored, pods, request>>
    /\ op' = NextObject

\* A DaemonSet with another selector is deleted and the pass fails.
DeleteJunk(o) ==
    /\ op.pc = "put" /\ op.held.ex
    /\ o \in DaemonSets /\ ~op.held.imm
    /\ IF May("delete", o) THEN Store(o, Absent) ELSE UNCHANGED <<stored, pods>>
    /\ Abort

\* The object was found: it is merged, and written if that changes it.
Merge(o) ==
    LET merged == merge(o, Desired(o, op.cr), op.held) IN
    /\ op.pc = "put" /\ op.held.ex
    /\ o \in DaemonSets => op.held.imm
    /\ \/ /\ ~merged.anno
          /\ Abort
          /\ UNCHANGED <<stored, pods>>
       \/ /\ merged.anno /\ merged = op.held
          /\ op' = NextObject
          /\ UNCHANGED <<stored, pods, request>>
       \/ /\ merged.anno /\ merged # op.held
          /\ IF op.stale \/ merged.imm # op.held.imm \/ ~May("update", o) \/ ~MayGrant(o)
             THEN Abort /\ UNCHANGED <<stored, pods>>
             ELSE Store(o, merged) /\ op' = NextObject /\ request' = Noticed(o, merged)

\* One visit of an object.
Visit ==
    LET o == Order[op.k] IN
    /\ \/ DeleteUnwanted(o) \/ Get(o) \/ Create(o) \/ deleteRunningPodsWithSa(o)
       \/ DeleteJunk(o) \/ Merge(o)
    /\ UNCHANGED <<dups, cr, version, events>>

\* The next object of a deleted CR is removed.
RemoveNext ==
    LET o == RemovalOrder[op.k] IN
    /\ op.pc = "remove"
    /\ IF May("delete", o)
       THEN /\ Store(o, Absent)
            /\ request' = Noticed(o, Absent)
            /\ op' = IF op.k = Len(RemovalOrder) THEN [op EXCEPT !.pc = "release"]
                     ELSE [op EXCEPT !.k = @ + 1]
       ELSE Abort /\ UNCHANGED <<stored, pods>>
    /\ UNCHANGED <<dups, cr, version, events>>

\* The finalizer is taken from the CR, unless it was edited meanwhile.
Release ==
    /\ op.pc = "release"
    /\ IF op.cr = cr
       THEN cr' = NoCR /\ op' = Idle /\ request' = TRUE
       ELSE Abort /\ UNCHANGED cr
    /\ UNCHANGED <<stored, dups, pods, version, events>>

Reconcile == GetCR \/ DeleteDuplicates \/ Visit \/ RemoveNext \/ Release

CallFails ==
    /\ op.pc # "idle"
    /\ events < MaxEvents /\ events' = events + 1
    /\ Abort
    /\ UNCHANGED <<stored, dups, pods, cr, version>>

\* The operator is restarted, or replaced by version 2.
Restart ==
    /\ events < MaxEvents /\ events' = events + 1
    /\ version' \in {version, 2}
    /\ op' = Idle /\ request' = cr.ex
    /\ UNCHANGED <<stored, dups, pods, cr>>

-----------------------------------------------------------------------------
Users == EditCR \/ DeleteCR \/ \E o \in Touched \cap Objs : Edit(o) \/ Delete(o) \/ Recreate(o)

Cluster == \/ \E o \in Owned : CollectGarbage(o)
           \/ \E d \in DaemonSets : PodsStart(d) \/ PodsReady(d) \/ PodsFail(d)

Next == Reconcile \/ Users \/ Cluster \/ CallFails \/ Restart

Spec == Init /\ [][Next]_vars

\* The work queue is served, and the cluster's controllers do their work.
Fairness ==
    /\ WF_vars(Reconcile)
    /\ WF_vars(\E o \in Owned : CollectGarbage(o))
    /\ WF_vars(\E d \in DaemonSets : PodsStart(d) \/ PodsReady(d))

FairSpec == Spec /\ Fairness

-----------------------------------------------------------------------------
(* Properties.                                                             *)

\* Every variable has its type.
TypeOK ==
    /\ stored \in [Objs -> Contents] /\ dups \subseteq Duplicates
    /\ pods \in [DaemonSets -> [cred : {"none", "live", "dead"}, avail : BOOLEAN]]
    /\ cr \in [ex : BOOLEAN, del : BOOLEAN, legacy : BOOLEAN, snap : BOOLEAN]
    /\ version \in 1..2 /\ request \in BOOLEAN /\ op \in Passes
    /\ events \in 0..MaxEvents

\* "allow users to add new annotations (but not change ours)": no write of the
\* operator takes a user's label from an object, not even one that was added
\* after the object was read.
UsersLabelsSurvive ==
    [][Reconcile => \A o \in Objs :
          stored[o].mine /\ stored'[o].ex => stored'[o].mine]_vars

\* A pass cannot get past the object: a binding with another roleRef, which the
\* API server lets nobody change, or a rule without the annotation.
Blocked(o) == /\ stored[o].ex /\ Wanted(o, cr)
              /\ \/ o \in Bindings /\ ~stored[o].imm
                 \/ o = "PrometheusRule" /\ ~stored[o].anno

\* A DaemonSet of the right name and selector that somebody else created: it is
\* updated when a pass happens to run, but its events cause none.
Disowned(o) == o \in DaemonSets /\ stored[o].ex /\ ~stored[o].tied

\* The object is what the CR and the version of the operator ask for; one that
\* is not wanted is gone, or somebody else's.
Restored(o) ==
    LET s == stored[o] IN
    IF Wanted(o, cr)
    THEN /\ s.ex /\ s.anno /\ s.ver = version /\ s.snap = Desired(o, cr).snap
         /\ s.imm \/ o = "CSIDriver"
         /\ o \in DaemonSets => s.old = (version = 1)
         /\ o \in Accounts => s.tied
    ELSE ~s.ex \/ ~s.tied

\* Whatever users change, delete or replace, also while a pass is at work, and
\* through an upgrade, a failure or an edit of the CR: every object but the
\* PrometheusRule is put right for good, no call that this takes is forbidden,
\* and what is not put right is an object behind one that blocks the pass.
Settles ==
    <>[](cr.ex /\ ~cr.del =>
           \A i \in 1..Len(Order) :
              \/ Restored(Order[i]) \/ Order[i] = "PrometheusRule" \/ Disowned(Order[i])
              \/ \E j \in 1..i : Blocked(Order[j]))

\* The operator stops writing: no pair of passes undoes each other's work, and
\* unless an object blocks it, it comes to rest.
StopsWriting == <>[](op = Idle /\ ~request) \/ <>[](\E o \in Objs : Blocked(o))

\* Pods that lost their service account get one with live credentials: when the
\* account is created again their DaemonSet is replaced, if they still counted
\* as available and no crash comes between the two.
PodsAuthenticated ==
    \A d \in DaemonSets :
        (~stored[AccountOf(d)].ex /\ cr.ex /\ ~cr.del /\ events = MaxEvents)
        ~> (pods[d].cred # "dead" \/ ~pods[d].avail \/ cr.del)

\* Once the CR is deleted the operator may delete, and does delete, all it has
\* made; what users have put in the place of a deleted object may stay.
DeletionClean ==
    cr.del ~> (/\ ~cr.ex
               /\ \A o \in Objs : \/ ~stored[o].ex \/ Disowned(o)
                                  \/ stored[o].ver = 0 /\ ~stored[o].anno)

\* "We will remove those and have the next loop create the resources with fixed
\* names": DaemonSets and service accounts named after the CR go away.
DuplicatesGo == dups # {} ~> (dups = {} \/ cr.del)

\* "allow users to add new annotations (but not change ours)": a PrometheusRule
\* that users changed, or an older version created, is put right.
RuleRestored == <>[](cr.ex /\ ~cr.del => Restored("PrometheusRule"))
=============================================================================
