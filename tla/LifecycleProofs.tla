-------------------------- MODULE LifecycleProofs --------------------------
(***************************************************************************)
(* Proofs about the finalizer protocol, for every set of CR names, every   *)
(* choice of served API groups and any number of user operations and       *)
(* faults.                                                                 *)
(***************************************************************************)
EXTENDS Lifecycle, FiniteSetTheorems, TLAPS

\* The objects a pass over a deleted CR visits are all the managed objects.
LEMMA DeleteOrderComplete ==
    /\ Len(DeleteOrder) = 9
    /\ \A j \in 1..9 : DeleteOrder[j] \in Resources
    /\ \A r \in Resources : \E j \in 1..9 : DeleteOrder[j] = r
<1>1. Len(DeleteOrder) = 9
  BY DEF DeleteOrder
<1>2. \A j \in 1..9 : DeleteOrder[j] \in Resources
  BY DEF DeleteOrder, Resources, LegacyResources
<1>3. \A r \in Resources : \E j \in 1..9 : DeleteOrder[j] = r
  <2>1. /\ DeleteOrder[1] = "SCC" /\ DeleteOrder[2] = "SCCCsi"
        /\ DeleteOrder[3] = "Prometheus" /\ DeleteOrder[4] = "ClusterRoleBindingCsi"
        /\ DeleteOrder[5] = "ClusterRoleCsi" /\ DeleteOrder[6] = "RoleCsi"
        /\ DeleteOrder[7] = "ClusterRoleBinding" /\ DeleteOrder[8] = "ClusterRole"
        /\ DeleteOrder[9] = "CSIDriver"
    BY DEF DeleteOrder
  <2> QED
    BY <2>1 DEF Resources, LegacyResources
<1> QED
  BY <1>1, <1>2, <1>3

\* The objects a pass over a live CR visits are managed objects.
LEMMA CreateOrderType ==
    /\ Len(CreateOrder) = 9
    /\ \A j \in 1..9 : CreateOrder[j] \in Resources
  BY DEF CreateOrder, Resources, LegacyResources

\* An object that does not exist carries nothing.
LEMMA GoneType == \A n \in Nat : Gone(n) \in Objects /\ Gone(n).rv = n /\ ~Gone(n).exists
                                 /\ ~Gone(n).fin /\ ~Gone(n).del
  BY DEF Gone, Objects

\* The idle pass is a pass.
LEMMA IdleType == Idle \in Passes /\ Idle.pc = "idle"
  BY NameAssumption, GoneType DEF Idle, Passes

\* Storing an object yields a well-typed server state with a new version, in
\* which only that object has changed.
LEMMA StoredType ==
    ASSUME server \in Snapshots, NEW c \in CRs, NEW o \in Objects
    PROVE  /\ Stored(c, o) \in Snapshots
           /\ Stored(c, o).ver = server.ver + 1
           /\ Stored(c, o).objs[c] = [o EXCEPT !.rv = server.ver + 1]
           /\ \A d \in CRs \ {c} : Stored(c, o).objs[d] = server.objs[d]
  BY DEF Stored, Snapshots, Objects

\* A new resource version leaves the rest of an object alone.
LEMMA ObjectUpdate ==
    ASSUME NEW o \in Objects, NEW n \in Nat
    PROVE  /\ [o EXCEPT !.rv = n] \in Objects
           /\ [o EXCEPT !.rv = n].rv = n
           /\ [o EXCEPT !.rv = n].exists = o.exists
           /\ [o EXCEPT !.rv = n].fin = o.fin
           /\ [o EXCEPT !.rv = n].del = o.del
           /\ [o EXCEPT !.rv = n].legacy = o.legacy
           /\ [o EXCEPT !.rv = n].dep = o.dep
           /\ [o EXCEPT !.rv = n].obs = o.obs
  BY DEF Objects

\* The fields of a stored object.
LEMMA StoredFields ==
    ASSUME server \in Snapshots, NEW c \in CRs, NEW o \in Objects
    PROVE  /\ server.ver \in Nat
           /\ Stored(c, o).objs[c].rv = server.ver + 1
           /\ Stored(c, o).objs[c].exists = o.exists
           /\ Stored(c, o).objs[c].fin = o.fin
           /\ Stored(c, o).objs[c].del = o.del
           /\ Stored(c, o).objs[c].legacy = o.legacy
<1>1. server.ver \in Nat /\ server.ver + 1 \in Nat
  BY DEF Snapshots
<1>2. Stored(c, o).objs[c] = [o EXCEPT !.rv = server.ver + 1]
  BY StoredType
<1> QED
  BY <1>1, <1>2, ObjectUpdate

\* A write of an object keeps the versions in order.
LEMMA WriteOrdered ==
    ASSUME TypeOK, VersionsOrdered, NEW c \in CRs, NEW o \in Objects,
           Write(c, o), cache' = cache
    PROVE  VersionsOrdered'
<1> DEFINE S == Stored(c, o)
<1>1. /\ server' = S /\ pending' = pending \cup {S}
  BY DEF Write
<1>2. /\ S \in Snapshots /\ S.ver = server.ver + 1 /\ S.objs[c].rv = server.ver + 1
      /\ \A d \in CRs \ {c} : S.objs[d] = server.objs[d]
      /\ server.ver \in Nat
  <2>1. server \in Snapshots /\ server.ver \in Nat /\ server.ver + 1 \in Nat
    BY DEF TypeOK, Snapshots
  <2>2. S.objs[c] = [o EXCEPT !.rv = server.ver + 1]
    BY <2>1, StoredType
  <2>3. \A d \in CRs \ {c} : S.objs[d] = server.objs[d]
    BY <2>1, StoredType
  <2>4. S \in Snapshots /\ S.ver = server.ver + 1
    BY <2>1, StoredType
  <2> QED
    BY <2>1, <2>2, <2>3, <2>4, ObjectUpdate
<1> HIDE DEF S
<1>3. Known' \subseteq Known \cup {S} /\ Known \subseteq Snapshots
  BY <1>1 DEF Known, TypeOK
<1>4. \A s \in Known : /\ s.ver \in Nat /\ s.ver <= server.ver
                       /\ \A d \in CRs : s.objs[d].rv \in Nat /\ s.objs[d].rv <= s.ver
  BY <1>3 DEF VersionsOrdered, Snapshots, Objects
<1>5. /\ \A d \in CRs : S.objs[d].rv \in Nat /\ S.objs[d].rv <= S.ver
      /\ server \in Known /\ cache \in Known /\ pending \subseteq Known
  BY <1>2, <1>4 DEF Known
<1>6. \A s \in Known' : s.ver <= server'.ver /\ \A d \in CRs : s.objs[d].rv <= s.ver
  BY <1>1, <1>2, <1>3, <1>4, <1>5
<1>7. \A s \in pending' : cache'.ver <= s.ver
  BY <1>1, <1>2, <1>4, <1>5 DEF VersionsOrdered
<1>8. \A s \in Known : \A d \in CRs : s.objs[d].rv <= server.objs[d].rv
  BY <1>4, <1>5 DEF VersionsOrdered
<1>9. \A s \in Known : \A d \in CRs : s.objs[d].rv <= S.objs[d].rv
  BY <1>2, <1>4, <1>8
<1>10. \A s, t \in Known' : s.ver <= t.ver => \A d \in CRs : s.objs[d].rv <= t.objs[d].rv
  <2> SUFFICES ASSUME NEW s \in Known', NEW t \in Known', s.ver <= t.ver, NEW d \in CRs
               PROVE  s.objs[d].rv <= t.objs[d].rv
    OBVIOUS
  <2>1. CASE s \in Known /\ t \in Known
    BY <2>1 DEF VersionsOrdered
  <2>2. CASE t = S
    BY <2>2, <1>3, <1>5, <1>9
  <2>3. CASE s = S /\ t \in Known
    BY <2>3, <1>2, <1>4
  <2> QED
    BY <2>1, <2>2, <2>3, <1>3
<1>11. \A s \in Known' : \A d \in CRs :
          s.objs[d].rv = server'.objs[d].rv => s.objs[d] = server'.objs[d]
  <2> SUFFICES ASSUME NEW s \in Known', NEW d \in CRs, s.objs[d].rv = server'.objs[d].rv
               PROVE  s.objs[d] = server'.objs[d]
    OBVIOUS
  <2>1. CASE s = S
    BY <2>1, <1>1
  <2>2. CASE s \in Known /\ d = c
    BY <2>2, <1>1, <1>2, <1>4
  <2>3. CASE s \in Known /\ d # c
    BY <2>3, <1>1, <1>2 DEF VersionsOrdered
  <2> QED
    BY <2>1, <2>2, <2>3, <1>3
<1> QED
  BY <1>6, <1>7, <1>10, <1>11 DEF VersionsOrdered

\* A write keeps FinalizerStays if it stores a well-formed object and takes the
\* finalizer only from a CR of which no copy without deletion timestamp is left.
LEMMA WriteKeepsFinalizer ==
    ASSUME TypeOK, FinalizerStays, NEW c \in CRs, NEW o \in Objects,
           Write(c, o), cache' = cache,
           o.fin => o.exists, o.del => o.fin,
           o.fin \/ \A s \in Known : ~(s.objs[c].fin /\ ~s.objs[c].del)
    PROVE  FinalizerStays'
<1> DEFINE S == Stored(c, o)
<1>1. /\ server' = S /\ pending' = pending \cup {S}
  BY DEF Write
<1>2. /\ S.objs[c].fin = o.fin /\ S.objs[c].del = o.del /\ S.objs[c].exists = o.exists
      /\ \A d \in CRs \ {c} : S.objs[d] = server.objs[d]
  <2>1. server \in Snapshots /\ server.ver + 1 \in Nat
    BY DEF TypeOK, Snapshots
  <2>2. S.objs[c] = [o EXCEPT !.rv = server.ver + 1]
    BY <2>1, StoredType
  <2>3. \A d \in CRs \ {c} : S.objs[d] = server.objs[d]
    BY <2>1, StoredType
  <2>4. S \in Snapshots /\ S.ver = server.ver + 1
    BY <2>1, StoredType
  <2> QED
    BY <2>1, <2>2, <2>3, <2>4, ObjectUpdate
<1> HIDE DEF S
<1>3. Known' \subseteq Known \cup {S} /\ server \in Known
  BY <1>1 DEF Known
<1> SUFFICES ASSUME NEW s \in Known', NEW d \in CRs
             PROVE  /\ s.objs[d].fin => s.objs[d].exists
                    /\ s.objs[d].del => s.objs[d].fin
                    /\ s.objs[d].fin /\ ~s.objs[d].del => server'.objs[d].fin
  BY DEF FinalizerStays
<1>4. CASE d # c
  BY <1>4, <1>1, <1>2, <1>3 DEF FinalizerStays
<1>5. CASE d = c /\ s = S
  BY <1>5, <1>1, <1>2
<1>6. CASE d = c /\ s \in Known
  BY <1>6, <1>1, <1>2 DEF FinalizerStays
<1> QED
  BY <1>3, <1>4, <1>5, <1>6

-----------------------------------------------------------------------------
\* What an Update of the CR can do: it is refused, it changes nothing, or it
\* stores the object it was given.
LEMMA UpdateCases ==
    ASSUME TypeOK, NEW o \in Objects, NEW pc \in {"mark", "owned", "idle"}, Update(o, pc)
    PROVE  /\ queue' \subseteq CRs /\ faults' \in Nat
           /\ op' \in Passes
           /\ \/ /\ UNCHANGED <<server, pending>>
                 /\ op' = Idle
              \/ /\ UNCHANGED <<server, pending>>
                 /\ o = server.objs[op.cr] /\ o.rv = op.held.rv
                 /\ op' = [op EXCEPT !.pc = pc]
              \/ /\ Write(op.cr, o)
                 /\ server.objs[op.cr].exists /\ server.objs[op.cr].rv = op.held.rv
                 /\ \/ op' = Idle
                    \/ /\ pc # "idle"
                       /\ op' = [op EXCEPT !.pc = pc, !.held = Stored(op.cr, o).objs[op.cr]]
<1> USE IdleType
<1>1. op.cr \in CRs /\ op \in Passes /\ faults + 1 \in Nat /\ faults \in Nat /\ queue \subseteq CRs
  BY DEF TypeOK, Passes
<1>2. [op EXCEPT !.pc = pc] \in Passes
  BY <1>1 DEF Passes
<1>3. [op EXCEPT !.pc = pc, !.held = Stored(op.cr, o).objs[op.cr]] \in Passes
  <2>1. Stored(op.cr, o) \in Snapshots
    BY <1>1, StoredType DEF TypeOK
  <2>2. Stored(op.cr, o).objs[op.cr] \in Objects
    BY <1>1, <2>1 DEF Snapshots
  <2> QED
    BY <1>1, <2>2 DEF Passes
<1>4. CASE ~server.objs[op.cr].exists \/ server.objs[op.cr].rv # op.held.rv
  BY <1>1, <1>4 DEF Update, Abort
<1>5. CASE /\ ~(~server.objs[op.cr].exists \/ server.objs[op.cr].rv # op.held.rv)
           /\ o = server.objs[op.cr]
  BY <1>1, <1>2, <1>5 DEF Update, Reply, Abort, Goto
<1>6. CASE /\ ~(~server.objs[op.cr].exists \/ server.objs[op.cr].rv # op.held.rv)
           /\ o # server.objs[op.cr]
  BY <1>1, <1>3, <1>6 DEF Update, Reply, Abort
<1> QED
  BY <1>4, <1>5, <1>6

\* A write keeps the types.
LEMMA WriteType ==
    ASSUME TypeOK, NEW c \in CRs, NEW o \in Objects, Write(c, o)
    PROVE  server' \in Snapshots /\ pending' \subseteq Snapshots
  BY StoredType DEF Write, TypeOK

\* The same for a whole Update.
LEMMA UpdateType ==
    ASSUME TypeOK, NEW o \in Objects, NEW pc \in {"mark", "owned", "idle"}, Update(o, pc),
           UNCHANGED <<cache, res, seen, events, userOps>>
    PROVE  TypeOK'
<1>1. op.cr \in CRs
  BY DEF TypeOK, Passes
<1>2. server' \in Snapshots /\ pending' \subseteq Snapshots
  BY <1>1, UpdateCases, WriteType DEF TypeOK
<1>3. queue' \subseteq CRs /\ faults' \in Nat /\ op' \in Passes
  BY UpdateCases
<1> QED
  BY <1>2, <1>3 DEF TypeOK

\* The objects that Updates write are objects.
LEMMA HeldType ==
    ASSUME TypeOK
    PROVE  /\ op.cr \in CRs /\ op.held \in Objects /\ op.k \in Nat
           /\ [op.held EXCEPT !.fin = TRUE] \in Objects
           /\ [op.held EXCEPT !.dep = TRUE] \in Objects
           /\ [op.held EXCEPT !.obs = TRUE] \in Objects
           /\ \A c \in CRs : server.objs[c] \in Objects /\ cache.objs[c] \in Objects
  BY DEF TypeOK, Passes, Objects, Snapshots

\* A call that is answered, or not, keeps the types.
LEMMA ReplyType ==
    ASSUME TypeOK, NEW next \in Passes, Reply(next)
    PROVE  op' \in Passes /\ queue' \subseteq CRs /\ faults' \in Nat
  BY IdleType, HeldType DEF Reply, Abort, TypeOK

\* Steps of a pass only move its label and its index.
Labels == {"idle", "get", "finalizer", "mark", "owned", "reconcile", "status",
           "cleanup", "delete", "remove"}

\* A pass with another label, or index, is a pass.
LEMMA MoveType ==
    ASSUME TypeOK
    PROVE  /\ op.pc \in Labels
           /\ \A pc \in Labels : [op EXCEPT !.pc = pc] \in Passes
           /\ \A pc \in Labels, k \in Nat : [op EXCEPT !.pc = pc, !.k = k] \in Passes
  BY DEF TypeOK, Passes, Labels

\* The next label and index of a pass that walks through n objects.
LEMMA WalkType ==
    ASSUME TypeOK, NEW n, NEW pc \in Labels
    PROVE  [op EXCEPT !.pc = IF op.k = n THEN pc ELSE @, !.k = @ + 1] \in Passes
<1>1. op.pc \in Labels /\ op.k + 1 \in Nat
  BY DEF TypeOK, Passes, Labels
<1>2. CASE op.k = n
  BY <1>1, <1>2, MoveType
<1>3. CASE op.k # n
  BY <1>1, <1>3, MoveType
<1> QED
  BY <1>2, <1>3

\* Changing one managed object keeps the types.
LEMMA SetResType ==
    ASSUME TypeOK, NEW r \in Resources, NEW rs \in SUBSET Resources, SetRes(rs, r)
    PROVE  res' \subseteq Resources /\ events' \subseteq Kinds
  BY DEF SetRes, TypeOK, Kinds

\* Types are preserved by every step.
LEMMA TypeStep == TypeOK /\ [Next]_vars => TypeOK'
<1> SUFFICES ASSUME TypeOK, [Next]_vars PROVE TypeOK'
  OBVIOUS
<1> USE IdleType, GoneType
<1>1. ASSUME NEW c \in CRs, NEW legacy \in BOOLEAN, CreateCR(c, legacy) PROVE TypeOK'
  <2>1. [Gone(0) EXCEPT !.exists = TRUE, !.legacy = legacy] \in Objects
    BY DEF Objects, Gone
  <2> QED
    BY <1>1, <2>1, WriteType DEF CreateCR, UserOp, TypeOK
<1>2. ASSUME NEW c \in CRs, EditCR(c) PROVE TypeOK'
  <2>1. [server.objs[c] EXCEPT !.legacy = ~@] \in Objects
    BY HeldType DEF Objects
  <2> QED
    BY <1>2, <2>1, WriteType DEF EditCR, UserOp, TypeOK
<1>3. ASSUME NEW c \in CRs, DeleteCR(c) PROVE TypeOK'
  <2>1. (IF server.objs[c].fin THEN [server.objs[c] EXCEPT !.del = TRUE] ELSE Gone(0)) \in Objects
    <3>1. server.objs[c] \in Objects
      BY HeldType
    <3>2. [server.objs[c] EXCEPT !.del = TRUE] \in Objects
      BY <3>1 DEF Objects
    <3> QED
      BY <3>2, GoneType
  <2> QED
    BY <1>3, <2>1, WriteType DEF DeleteCR, TypeOK
<1>4. ASSUME NEW r \in Resources, Drift(r) PROVE TypeOK'
  <2>1. res \ {r} \in SUBSET Resources
    BY DEF TypeOK
  <2> QED
    BY <1>4, <2>1, SetResType DEF Drift, UserOp, TypeOK
<1>5. CASE DeliverCR
  BY <1>5 DEF DeliverCR, TypeOK
<1>6. ASSUME NEW kind \in Kinds, DeliverKind(kind) PROVE TypeOK'
  BY <1>6 DEF DeliverKind, TypeOK, OfKind, mapFn, Existing
<1>8. ASSUME NEW c \in CRs, ListCRs(c) PROVE TypeOK'
  BY <1>8 DEF ListCRs, TypeOK, Passes
<1>9. CASE GetCR
  <2>1. \A pc \in {"cleanup", "finalizer"} : \A o \in Objects : [op EXCEPT !.pc = pc, !.held = o] \in Passes
    BY DEF TypeOK, Passes
  <2>2. op' \in Passes
    BY <1>9, <2>1, HeldType DEF GetCR
  <2> QED
    BY <1>9, <2>2 DEF GetCR, TypeOK
<1>10. CASE addFinalizer
  <2>1. CASE op.held.fin
    BY <1>10, <2>1, MoveType DEF Labels, addFinalizer, Goto, TypeOK
  <2>2. CASE ~op.held.fin
    BY <1>10, <2>2, HeldType, UpdateType DEF addFinalizer
  <2> QED
    BY <2>1, <2>2
<1>11. CASE MarkDeploying
  <2>1. CASE op.held.obs
    BY <1>11, <2>1, MoveType DEF Labels, MarkDeploying, Goto, TypeOK
  <2>2. CASE ~op.held.obs
    BY <1>11, <2>2, HeldType, UpdateType DEF MarkDeploying
  <2> QED
    BY <2>1, <2>2
<1>12. CASE ReconcileOwned
  <2>1. op' \in Passes /\ queue' \subseteq CRs /\ faults' \in Nat
    BY <1>12, MoveType, ReplyType DEF Labels, ReconcileOwned
  <2> QED
    BY <1>12, <2>1 DEF ReconcileOwned, TypeOK
<1>13. CASE ReconcileNext
  <2> DEFINE r == CreateOrder[op.k]
             next == [op EXCEPT !.pc = IF op.k = Len(CreateOrder) THEN "status" ELSE @,
                                !.k = @ + 1]
  <2>1. next \in Passes
    BY WalkType DEF Labels
  <2>2. LegacyResources \subseteq Resources /\ \A b \in BOOLEAN : Desired(b) \subseteq Resources
    BY DEF Resources, Desired
  <2>3. op.held.legacy \in BOOLEAN
    BY HeldType DEF Objects
  <2>4. /\ op' \in Passes /\ queue' \subseteq CRs /\ faults' \in Nat
        /\ res' \subseteq Resources /\ events' \subseteq Kinds
    <3> HIDE DEF r, next
    <3> USE <2>1, <2>2, <2>3
    <3>1. CASE op' = next /\ UNCHANGED <<res, events, queue, faults>>
      BY <3>1 DEF TypeOK
    <3>2. CASE r \in LegacyResources /\ SetRes(res \ {r}, r) /\ Reply(next)
      BY <3>2, ReplyType, SetResType DEF TypeOK
    <3>3. CASE r \in Desired(op.held.legacy) /\ SetRes(res \cup {r}, r) /\ Reply(next)
      BY <3>3, ReplyType, SetResType DEF TypeOK
    <3>4. CASE Abort /\ UNCHANGED <<res, events, faults>>
      BY <3>4, HeldType DEF Abort, TypeOK
    <3> QED
      BY <1>13, <3>1, <3>2, <3>3, <3>4 DEF ReconcileNext, SkipUnserved, DeleteUnwanted, KeepFound, CreateMissing, r, next
  <2> QED
    BY <1>13, <2>4 DEF ReconcileNext, TypeOK
<1>14. ASSUME NEW ready \in BOOLEAN, FinishPass(ready) PROVE TypeOK'
  <2>1. CASE ready /\ ~op.held.obs
    BY <1>14, <2>1, HeldType, UpdateType DEF FinishPass
  <2>2. CASE ~(ready /\ ~op.held.obs)
    BY <1>14, <2>2 DEF FinishPass, TypeOK
  <2> QED
    BY <2>1, <2>2
<1>16. ASSUME NEW finished \in BOOLEAN, reconcileCleanup(finished) PROVE TypeOK'
  <2>1. op' \in Passes /\ queue' \subseteq CRs /\ faults' \in Nat
    <3>1. CASE finished
      BY <1>16, <3>1, MoveType, ReplyType DEF Labels, reconcileCleanup
    <3>2. CASE ~finished
      BY <1>16, <3>2, HeldType DEF reconcileCleanup, Abort, TypeOK
    <3> QED
      BY <3>1, <3>2
  <2> QED
    BY <1>16, <2>1 DEF reconcileCleanup, TypeOK
<1>17. CASE DeleteNext
  <2> DEFINE r == DeleteOrder[op.k]
             next == [op EXCEPT !.pc = IF op.k = Len(DeleteOrder) THEN "remove" ELSE @,
                                !.k = @ + 1]
  <2>1. next \in Passes
    BY WalkType DEF Labels
  <2>2. op' \in Passes /\ queue' \subseteq CRs /\ faults' \in Nat
    BY <1>17, <2>1, ReplyType DEF DeleteNext
  <2>3. res' \subseteq Resources /\ events' \subseteq Kinds
    BY <1>17 DEF DeleteNext, SetRes, TypeOK, Kinds
  <2> QED
    BY <1>17, <2>2, <2>3 DEF DeleteNext, TypeOK
<1>18. CASE RemoveFinalizer
  BY <1>18, UpdateType DEF RemoveFinalizer
<1>19. CASE CallFails
  BY <1>19, HeldType DEF CallFails, Abort, TypeOK
<1>20. CASE Restart
  BY <1>20 DEF Restart, TypeOK, Existing
<1>21. CASE UNCHANGED vars
  BY <1>21 DEF vars, TypeOK
<1> QED
  BY <1>1, <1>2, <1>3, <1>4, <1>5, <1>6, <1>8, <1>9, <1>10, <1>11, <1>12, <1>13,
     <1>14, <1>16, <1>17, <1>18, <1>19, <1>20, <1>21
     DEF Next, Reconcile, Watches, Users

-----------------------------------------------------------------------------
\* A write that keeps the invariant: what it stores is well formed, and the
\* finalizer is taken only by the last step of a pass over a deleted CR, when
\* every copy of the CR that is still around shows the deletion.
GoodWrite(c, o) ==
    /\ Write(c, o) /\ cache' = cache
    /\ o.fin => o.exists
    /\ o.del => o.fin
    /\ o.fin \/ \A s \in Known : ~(s.objs[c].fin /\ ~s.objs[c].del)
    /\ server.objs[c].fin /\ ~o.fin => op.pc = "remove" /\ op' = Idle

\* An Update of a CR that the pass knows to carry the finalizer is a good write
\* or leaves the server alone.
LEMMA UpdateGood ==
    ASSUME LifecycleInv, NEW o \in Objects, NEW pc \in {"mark", "owned", "idle"},
           Update(o, pc), cache' = cache, o.fin, o.exists
    PROVE  UNCHANGED <<server, cache, pending>> \/ GoodWrite(op.cr, o)
  BY UpdateCases DEF GoodWrite, LifecycleInv

\* Every step leaves the CRs and their cached copies alone, delivers an event,
\* restarts the operator or makes a good write.
LEMMA ServerSteps ==
    ASSUME LifecycleInv, [Next]_vars
    PROVE  \/ UNCHANGED <<server, cache, pending>>
           \/ DeliverCR
           \/ Restart
           \/ \E c \in CRs, o \in Objects : GoodWrite(c, o)
<1> DEFINE Goal == \/ UNCHANGED <<server, cache, pending>>
                   \/ DeliverCR
                   \/ Restart
                   \/ \E c \in CRs, o \in Objects : GoodWrite(c, o)
<1> USE DEF LifecycleInv
<1>0. /\ server \in Known /\ cache \in Known
      /\ \A c \in CRs : server.objs[c] \in Objects
      /\ op.cr \in CRs /\ op.held \in Objects
  BY HeldType DEF Known
<1>1. ASSUME NEW c \in CRs, NEW legacy \in BOOLEAN, CreateCR(c, legacy) PROVE Goal
  <2> DEFINE o == [Gone(0) EXCEPT !.exists = TRUE, !.legacy = legacy]
  <2>1. o \in Objects /\ o.exists /\ ~o.fin /\ ~o.del
    BY DEF Objects, Gone
  <2>2. ~server.objs[c].fin /\ \A s \in Known : ~(s.objs[c].fin /\ ~s.objs[c].del)
    BY <1>0, <1>1 DEF CreateCR, FinalizerStays
  <2>3. Write(c, o) /\ cache' = cache
    BY <1>1 DEF CreateCR
  <2> HIDE DEF o
  <2> QED
    BY <2>1, <2>2, <2>3 DEF GoodWrite
<1>2. ASSUME NEW c \in CRs, EditCR(c) PROVE Goal
  <2> DEFINE o == [server.objs[c] EXCEPT !.legacy = ~@]
  <2>1. /\ o \in Objects /\ o.exists = server.objs[c].exists
        /\ o.fin = server.objs[c].fin /\ o.del = server.objs[c].del
    BY <1>0 DEF Objects
  <2>2. Write(c, o) /\ cache' = cache
    BY <1>2 DEF EditCR
  <2> HIDE DEF o
  <2> QED
    BY <1>0, <2>1, <2>2 DEF GoodWrite, FinalizerStays
<1>3. ASSUME NEW c \in CRs, DeleteCR(c) PROVE Goal
  <2>1. CASE server.objs[c].fin
    <3> DEFINE o == [server.objs[c] EXCEPT !.del = TRUE]
    <3>1. o \in Objects /\ o.exists = server.objs[c].exists /\ o.fin = server.objs[c].fin
      BY <1>0 DEF Objects
    <3>2. Write(c, o) /\ cache' = cache /\ server.objs[c].exists
      BY <1>3, <2>1 DEF DeleteCR
    <3> HIDE DEF o
    <3> QED
      BY <1>0, <2>1, <3>1, <3>2 DEF GoodWrite, FinalizerStays
  <2>2. CASE ~server.objs[c].fin
    <3>1. Write(c, Gone(0)) /\ cache' = cache
      BY <1>3, <2>2 DEF DeleteCR
    <3> QED
      BY <1>0, <2>2, <3>1, GoneType DEF GoodWrite, FinalizerStays
  <2> QED
    BY <2>1, <2>2
<1>4. CASE addFinalizer
  <2>1. CASE op.held.fin
    BY <1>4, <2>1 DEF addFinalizer
  <2>2. CASE ~op.held.fin
    <3> DEFINE o == [op.held EXCEPT !.fin = TRUE]
    <3>1. o \in Objects /\ o.fin /\ o.exists
      BY <1>0, <1>4 DEF Objects, addFinalizer, PassKnows
    <3>2. Update(o, "mark") /\ cache' = cache
      BY <1>4, <2>2 DEF addFinalizer
    <3> HIDE DEF o
    <3> QED
      BY <1>0, <3>1, <3>2, UpdateGood
  <2> QED
    BY <2>1, <2>2
<1>5. CASE MarkDeploying
  <2> DEFINE o == [op.held EXCEPT !.dep = TRUE]
  <2>1. o \in Objects /\ o.fin /\ o.exists
    BY <1>0, <1>5 DEF Objects, MarkDeploying, PassKnows
  <2>2. cache' = cache /\ (Update(o, "owned") \/ UNCHANGED <<server, pending>>)
    BY <1>5 DEF MarkDeploying
  <2> HIDE DEF o
  <2> QED
    BY <1>0, <2>1, <2>2, UpdateGood
<1>6. ASSUME NEW ready \in BOOLEAN, FinishPass(ready) PROVE Goal
  <2> DEFINE o == [op.held EXCEPT !.obs = TRUE]
  <2>1. o \in Objects /\ o.fin /\ o.exists
    BY <1>0, <1>6 DEF Objects, FinishPass, PassKnows
  <2>2. cache' = cache /\ (Update(o, "idle") \/ UNCHANGED <<server, pending>>)
    BY <1>6 DEF FinishPass
  <2> HIDE DEF o
  <2> QED
    BY <1>0, <2>1, <2>2, UpdateGood
<1>7. CASE RemoveFinalizer
  <2>1. Update(Gone(0), "idle") /\ cache' = cache /\ op.pc = "remove"
    BY <1>7 DEF RemoveFinalizer
  <2>2. CASE UNCHANGED <<server, pending>>
    BY <2>1, <2>2
  <2>3. CASE /\ Write(op.cr, Gone(0)) /\ server.objs[op.cr].rv = op.held.rv
             /\ op' = Idle
    <3>1. op.held = server.objs[op.cr] /\ op.held.del /\ op.held.rv <= cache.objs[op.cr].rv
      BY <2>1, <2>3 DEF PassKnows
    <3>2. ASSUME NEW s \in Known PROVE s.objs[op.cr].del
      <4>1. /\ s.objs[op.cr].rv \in Nat /\ cache.objs[op.cr].rv \in Nat
            /\ server.objs[op.cr].rv \in Nat
        BY <1>0 DEF Known, TypeOK, Snapshots, Objects
      <4>2. cache.ver <= s.ver /\ s.ver <= server.ver
        BY <1>0 DEF Known, VersionsOrdered, TypeOK, Snapshots
      <4>3. /\ cache.objs[op.cr].rv <= s.objs[op.cr].rv
            /\ s.objs[op.cr].rv <= server.objs[op.cr].rv
        BY <1>0, <4>2 DEF VersionsOrdered
      <4>4. s.objs[op.cr].rv = server.objs[op.cr].rv
        BY <2>3, <3>1, <4>1, <4>3
      <4> QED
        BY <1>0, <3>1, <4>4 DEF VersionsOrdered
    <3> QED
      BY <1>0, <2>1, <2>3, <3>2, GoneType DEF GoodWrite
  <2> QED
    BY <2>1, <2>2, <2>3, UpdateCases, GoneType
<1>8. CASE \/ \E r \in Resources : Drift(r)
           \/ \E kind \in Kinds : DeliverKind(kind)
           \/ \E c \in CRs : ListCRs(c)
           \/ GetCR
           \/ ReconcileOwned \/ ReconcileNext
           \/ (\E finished \in BOOLEAN : reconcileCleanup(finished)) \/ DeleteNext
           \/ CallFails
           \/ UNCHANGED vars
  BY <1>8 DEF Drift, DeliverKind, ListCRs, GetCR, ReconcileOwned,
              ReconcileNext, reconcileCleanup, DeleteNext, CallFails, vars
<1> QED
  BY <1>1, <1>2, <1>3, <1>4, <1>5, <1>6, <1>7, <1>8 DEF Next, Reconcile, Watches, Users

\* VersionsOrdered and FinalizerStays are preserved.
LEMMA VersionsStep ==
    ASSUME LifecycleInv, [Next]_vars
    PROVE  VersionsOrdered' /\ FinalizerStays'
<1> USE DEF LifecycleInv
<1>1. CASE UNCHANGED <<server, cache, pending>>
  BY <1>1 DEF VersionsOrdered, FinalizerStays, Known
<1>2. CASE DeliverCR
  <2>1. PICK s \in pending : /\ \A t \in pending : s.ver <= t.ver
                             /\ cache' = s
                             /\ pending' = pending \ {s}
                             /\ server' = server
    BY <1>2 DEF DeliverCR
  <2>2. Known' \subseteq Known
    BY <2>1 DEF Known
  <2>3. FinalizerStays'
    BY <2>1, <2>2 DEF FinalizerStays
  <2>4. VersionsOrdered'
    BY <2>1, <2>2 DEF VersionsOrdered
  <2> QED
    BY <2>3, <2>4
<1>3. CASE Restart
  <2>1. Known' = {server} /\ server' = server /\ cache' = server /\ pending' = {}
    BY <1>3 DEF Restart, Known
  <2>2. server \in Known
    BY DEF Known
  <2> QED
    BY <2>1, <2>2 DEF VersionsOrdered, FinalizerStays
<1>4. ASSUME NEW c \in CRs, NEW o \in Objects, GoodWrite(c, o)
      PROVE  VersionsOrdered' /\ FinalizerStays'
  BY <1>4, WriteOrdered, WriteKeepsFinalizer DEF GoodWrite
<1> QED
  BY <1>1, <1>2, <1>3, <1>4, ServerSteps

-----------------------------------------------------------------------------
\* While a pass stands still, writes of users and the delivery of events do not
\* disturb what it knows.
LEMMA KnowsStays ==
    ASSUME LifecycleInv, [Next]_vars, op' = op
    PROVE  PassKnows'
<1> USE DEF LifecycleInv
<1>0. op.cr \in CRs /\ op.held \in Objects /\ server \in Known /\ cache \in Known
  BY HeldType DEF Known
<1>1. CASE UNCHANGED <<server, cache, pending>>
  BY <1>1 DEF PassKnows
<1>2. CASE DeliverCR
  <2>1. PICK s \in pending : cache' = s /\ server' = server
    BY <1>2 DEF DeliverCR
  <2>2. s \in Known /\ cache.ver <= s.ver
    BY <2>1 DEF VersionsOrdered, Known
  <2>3. cache.objs[op.cr].rv <= s.objs[op.cr].rv
    BY <1>0, <2>2 DEF VersionsOrdered
  <2>4. /\ op.held.rv \in Nat /\ cache.objs[op.cr].rv \in Nat /\ s.objs[op.cr].rv \in Nat
    BY <1>0 DEF TypeOK, Snapshots, Objects
  <2> QED
    BY <2>1, <2>3, <2>4 DEF PassKnows
<1>3. CASE Restart
  BY <1>3, IdleType DEF Restart, PassKnows
<1>4. ASSUME NEW c \in CRs, NEW o \in Objects, GoodWrite(c, o)
      PROVE  PassKnows'
  <2>1. /\ server'.ver = server.ver + 1 /\ server'.objs[c].rv = server.ver + 1
        /\ server'.objs[c].fin = o.fin
        /\ \A d \in CRs \ {c} : server'.objs[d] = server.objs[d]
        /\ server.ver \in Nat /\ op.held.rv \in Nat
    <3>1. server \in Snapshots /\ server.ver \in Nat /\ server.ver + 1 \in Nat
      BY DEF TypeOK, Snapshots
    <3>2. server' = Stored(c, o)
      BY <1>4 DEF GoodWrite, Write
    <3>3. op.held.rv \in Nat
      BY <1>0 DEF Objects
    <3>4. \A d \in CRs \ {c} : server'.objs[d] = server.objs[d]
      <4>1. \A d \in CRs \ {c} : Stored(c, o).objs[d] = server.objs[d]
        BY <3>1, StoredType
      <4> QED
        BY <3>2, <4>1
    <3>5. server'.ver = server.ver + 1
      BY <3>1, <3>2, StoredType
    <3> QED
      BY <3>1, <3>2, <3>3, <3>4, <3>5, StoredFields
  <2>2. cache' = cache /\ (server.objs[c].fin /\ ~o.fin => op.pc = "remove" /\ op' = Idle)
    BY <1>4 DEF GoodWrite
  <2>3. op.pc # "idle" => (server.objs[c].fin => o.fin)
    BY <2>2, IdleType
  <2>4. op.pc \notin {"idle", "get"} =>
          /\ op.held.rv <= server'.ver
          /\ op.held.rv = server'.objs[op.cr].rv => op.held = server'.objs[op.cr]
    BY <1>0, <2>1 DEF PassKnows
  <2>5. op.pc # "idle" /\ server.objs[op.cr].fin => server'.objs[op.cr].fin
    BY <1>0, <2>1, <2>3
  <2> QED
    BY <2>2, <2>4, <2>5 DEF PassKnows
<1> QED
  BY <1>1, <1>2, <1>3, <1>4, ServerSteps

\* An Update of a live CR that ends at label pc tells the pass what it wrote.
LEMMA KnowsUpdate ==
    ASSUME LifecycleInv, NEW o \in Objects, NEW pc \in {"mark", "owned", "idle"},
           Update(o, pc), cache' = cache, o.fin, o.exists, op.pc \notin {"idle", "get"}
    PROVE  PassKnows'
<1> USE DEF LifecycleInv
<1>0. op.cr \in CRs /\ op.held \in Objects /\ server.objs[op.cr] \in Objects /\ op \in Passes
  BY HeldType DEF TypeOK
<1>1. CASE op' = Idle
  BY <1>1, IdleType DEF PassKnows
<1>2. CASE /\ UNCHANGED <<server, pending>>
           /\ o = server.objs[op.cr] /\ o.rv = op.held.rv
           /\ op' = [op EXCEPT !.pc = pc]
  <2>1. op'.pc = pc /\ op'.cr = op.cr /\ op'.held = op.held
    BY <1>0, <1>2 DEF Passes
  <2>2. op.held = server.objs[op.cr] /\ op.held.rv <= server.ver
    BY <1>2 DEF PassKnows
  <2> QED
    BY <1>2, <2>1, <2>2 DEF PassKnows
<1>3. CASE /\ Write(op.cr, o)
           /\ op' = [op EXCEPT !.pc = pc, !.held = Stored(op.cr, o).objs[op.cr]]
  <2>1. op'.pc = pc /\ op'.cr = op.cr /\ op'.held = Stored(op.cr, o).objs[op.cr]
    BY <1>0, <1>3 DEF Passes
  <2>2. /\ server \in Snapshots /\ server.ver \in Nat /\ server.ver + 1 \in Nat
        /\ server' = Stored(op.cr, o)
    BY <1>3 DEF TypeOK, Snapshots, Write
  <2>3. /\ op'.held.exists = o.exists /\ op'.held.fin = o.fin
        /\ op'.held.rv = server.ver + 1 /\ server'.ver = server.ver + 1
    <3>1. server'.ver = server.ver + 1
      BY <1>0, <2>2, StoredType
    <3>2. /\ Stored(op.cr, o).objs[op.cr].exists = o.exists
          /\ Stored(op.cr, o).objs[op.cr].fin = o.fin
          /\ Stored(op.cr, o).objs[op.cr].rv = server.ver + 1
      BY <1>0, <2>2, StoredFields
    <3> QED
      BY <2>1, <3>1, <3>2
  <2> QED
    BY <2>1, <2>2, <2>3 DEF PassKnows
<1> QED
  BY <1>1, <1>2, <1>3, UpdateCases

\* A pass that moves on without touching its copy or the server keeps what it
\* knows, as long as it stays on its side: live CR or deleted CR.
LEMMA KnowsMoves ==
    ASSUME LifecycleInv, UNCHANGED <<server, cache>>,
           op'.cr = op.cr, op'.held = op.held,
           \/ op.pc = "finalizer" /\ op.held.fin /\ op'.pc = "mark"
           \/ /\ op.pc \in {"mark", "owned", "reconcile", "status"}
              /\ op'.pc \in {"owned", "reconcile", "status"}
           \/ /\ op.pc \in {"cleanup", "delete", "remove"}
              /\ op'.pc \in {"cleanup", "delete", "remove"}
    PROVE  PassKnows'
  BY DEF LifecycleInv, PassKnows

\* The label and index after a call that was answered or not.
LEMMA ReplyMoves ==
    ASSUME TypeOK, NEW pc \in Labels, NEW k \in Nat, Reply([op EXCEPT !.pc = pc, !.k = k])
    PROVE  op' = Idle \/ (op'.cr = op.cr /\ op'.held = op.held /\ op'.pc = pc /\ op'.k = k)
<1>1. op \in Passes
  BY DEF TypeOK
<1> QED
  BY <1>1 DEF Reply, Abort, Passes

\* PassKnows is preserved.
LEMMA KnowsStep ==
    ASSUME LifecycleInv, [Next]_vars
    PROVE  PassKnows'
<1> USE DEF LifecycleInv
<1>0. /\ op \in Passes /\ op.cr \in CRs /\ op.held \in Objects /\ op.k \in Nat
      /\ cache \in Known /\ server \in Known
  BY HeldType DEF TypeOK, Known
<1>1. CASE op' = op
  BY <1>1, KnowsStays
<1>2. CASE op' = Idle
  BY <1>2, IdleType DEF PassKnows
<1>3. ASSUME NEW c \in CRs, ListCRs(c) PROVE PassKnows'
  <2>1. op'.pc = "get"
    BY <1>3, IdleType DEF ListCRs, Passes
  <2> QED
    BY <2>1 DEF PassKnows
<1>4. CASE GetCR
  <2> DEFINE o == cache.objs[op.cr]
  <2>1. CASE ~o.exists
    BY <1>2, <1>4, <2>1 DEF GetCR
  <2>2. CASE o.exists
    <3>1. /\ op'.pc = (IF o.del THEN "cleanup" ELSE "finalizer")
          /\ op'.held = o /\ op'.cr = op.cr /\ UNCHANGED <<server, cache>>
      BY <1>0, <1>4, <2>2 DEF GetCR, Passes
    <3>2. /\ o.rv <= cache.ver /\ cache.ver <= server.ver
          /\ o.rv = server.objs[op.cr].rv => o = server.objs[op.cr]
      BY <1>0 DEF VersionsOrdered
    <3>3. o.rv \in Nat /\ cache.ver \in Nat /\ server.ver \in Nat
      BY <1>0 DEF TypeOK, Snapshots, Objects
    <3>4. o.rv <= server.ver /\ o.rv <= o.rv
      BY <3>2, <3>3
    <3>5. o.fin /\ ~o.del => server.objs[op.cr].fin
      BY <1>0 DEF FinalizerStays
    <3> HIDE DEF o
    <3>6. CASE o.del
      BY <2>2, <3>1, <3>2, <3>4, <3>6 DEF PassKnows, o
    <3>7. CASE ~o.del
      BY <2>2, <3>1, <3>2, <3>4, <3>5, <3>7 DEF PassKnows
    <3> QED
      BY <3>6, <3>7
  <2> QED
    BY <2>1, <2>2
<1>5. CASE addFinalizer
  <2>1. CASE op.held.fin
    <3>1. op' = [op EXCEPT !.pc = "mark"] /\ UNCHANGED <<server, cache>> /\ op.pc = "finalizer"
      BY <1>5, <2>1 DEF addFinalizer, Goto
    <3>2. op'.pc = "mark" /\ op'.cr = op.cr /\ op'.held = op.held
      BY <1>0, <3>1 DEF Passes
    <3> QED
      BY <2>1, <3>1, <3>2, KnowsMoves
  <2>2. CASE ~op.held.fin
    <3> DEFINE o == [op.held EXCEPT !.fin = TRUE]
    <3>1. o \in Objects /\ o.fin /\ o.exists
      BY <1>0, <1>5 DEF Objects, addFinalizer, PassKnows
    <3>2. Update(o, "mark") /\ cache' = cache /\ op.pc = "finalizer"
      BY <1>5, <2>2 DEF addFinalizer
    <3> HIDE DEF o
    <3> QED
      BY <3>1, <3>2, KnowsUpdate
  <2> QED
    BY <2>1, <2>2
<1>6. CASE MarkDeploying
  <2>0. op.pc = "mark" /\ op.held.fin /\ op.held.exists
    BY <1>6 DEF MarkDeploying, PassKnows
  <2>1. CASE op.held.obs
    <3>1. op' = [op EXCEPT !.pc = "owned"] /\ UNCHANGED <<server, cache>>
      BY <1>6, <2>1 DEF MarkDeploying, Goto
    <3>2. op'.pc = "owned" /\ op'.cr = op.cr /\ op'.held = op.held
      BY <1>0, <3>1 DEF Passes
    <3> QED
      BY <2>0, <3>1, <3>2, KnowsMoves
  <2>2. CASE ~op.held.obs
    <3> DEFINE o == [op.held EXCEPT !.dep = TRUE]
    <3>1. o \in Objects /\ o.fin /\ o.exists
      BY <1>0, <2>0 DEF Objects
    <3>2. Update(o, "owned") /\ cache' = cache
      BY <1>6, <2>2 DEF MarkDeploying
    <3> HIDE DEF o
    <3> QED
      BY <2>0, <3>1, <3>2, KnowsUpdate
  <2> QED
    BY <2>1, <2>2
<1>7. ASSUME NEW ready \in BOOLEAN, FinishPass(ready) PROVE PassKnows'
  <2>1. CASE ready /\ ~op.held.obs
    <3> DEFINE o == [op.held EXCEPT !.obs = TRUE]
    <3>1. o \in Objects /\ o.fin /\ o.exists
      BY <1>0, <1>7 DEF Objects, FinishPass, PassKnows
    <3>2. Update(o, "idle") /\ cache' = cache /\ op.pc = "status"
      BY <1>7, <2>1 DEF FinishPass
    <3> HIDE DEF o
    <3> QED
      BY <3>1, <3>2, KnowsUpdate
  <2>2. CASE ~(ready /\ ~op.held.obs)
    BY <1>2, <1>7, <2>2 DEF FinishPass
  <2> QED
    BY <2>1, <2>2
<1>8. CASE RemoveFinalizer
  <2>1. op' = Idle \/ op' = [op EXCEPT !.pc = "idle"]
    BY <1>8, UpdateCases, GoneType DEF RemoveFinalizer
  <2>2. CASE op' = [op EXCEPT !.pc = "idle"]
    <3>1. op'.pc = "idle"
      BY <1>0, <2>2 DEF Passes
    <3> QED
      BY <3>1 DEF PassKnows
  <2> QED
    BY <1>2, <2>1, <2>2
<1>9. CASE ReconcileOwned
  <2>1. Reply([op EXCEPT !.pc = "reconcile", !.k = 1]) /\ UNCHANGED <<server, cache>> /\ op.pc = "owned"
    BY <1>9 DEF ReconcileOwned
  <2> QED
    BY <1>2, <2>1, ReplyMoves, KnowsMoves DEF Labels
<1>10. CASE ReconcileNext
  <2> DEFINE next == [op EXCEPT !.pc = IF op.k = Len(CreateOrder) THEN "status" ELSE @,
                                !.k = @ + 1]
  <2>1. op' = next \/ op' = Idle
    BY <1>10 DEF ReconcileNext, SkipUnserved, DeleteUnwanted, KeepFound, CreateMissing,
       Reply, Abort
  <2>2. op.pc = "reconcile" /\ UNCHANGED <<server, cache>>
    BY <1>10 DEF ReconcileNext
  <2>3. CASE op' = next
    <3>1. op'.cr = op.cr /\ op'.held = op.held /\ op'.pc \in {"reconcile", "status"}
      BY <1>0, <2>2, <2>3 DEF Passes
    <3> QED
      BY <2>2, <3>1, KnowsMoves
  <2> QED
    BY <1>2, <2>1, <2>3
<1>12. ASSUME NEW finished \in BOOLEAN, reconcileCleanup(finished) PROVE PassKnows'
  <2>1. \/ Reply([op EXCEPT !.pc = "delete", !.k = 1])
        \/ op' = Idle
    BY <1>12 DEF reconcileCleanup, Abort
  <2>2. UNCHANGED <<server, cache>> /\ op.pc = "cleanup"
    BY <1>12 DEF reconcileCleanup
  <2> QED
    BY <1>2, <2>1, <2>2, ReplyMoves, KnowsMoves DEF Labels
<1>13. CASE DeleteNext
  <2> DEFINE next == [op EXCEPT !.pc = IF op.k = Len(DeleteOrder) THEN "remove" ELSE @,
                                !.k = @ + 1]
  <2>1. op' = next \/ op' = Idle
    BY <1>13 DEF DeleteNext, Reply, Abort
  <2>2. op.pc = "delete" /\ UNCHANGED <<server, cache>>
    BY <1>13 DEF DeleteNext
  <2>3. CASE op' = next
    <3>1. op'.cr = op.cr /\ op'.held = op.held /\ op'.pc \in {"delete", "remove"}
      BY <1>0, <2>2, <2>3 DEF Passes
    <3> QED
      BY <2>2, <3>1, KnowsMoves
  <2> QED
    BY <1>2, <2>1, <2>3
<1>14. CASE CallFails \/ Restart
  BY <1>2, <1>14 DEF CallFails, Restart, Abort
<1>15. CASE \/ UNCHANGED vars \/ DeliverCR
            \/ \E kind \in Kinds : DeliverKind(kind)
            \/ Users
  <2>1. op' = op
    BY <1>15 DEF vars, DeliverCR, DeliverKind, Users, CreateCR, EditCR, DeleteCR, Drift
  <2> QED
    BY <1>1, <2>1
<1> QED
  BY <1>3, <1>4, <1>5, <1>6, <1>7, <1>8, <1>9, <1>10, <1>12, <1>13, <1>14, <1>15
     DEF Next, Reconcile, Watches

-----------------------------------------------------------------------------
\* How a step changes the managed objects: only reconcileUpdate adds one, and
\* only one that is served, for a CR that carries the finalizer.
LEMMA ResSteps ==
    ASSUME LifecycleInv, [Next]_vars
    PROVE  \/ res' \subseteq res
           \/ /\ op.pc = "reconcile" /\ server' = server
              /\ \A r \in res' : r \in res \/ Served(r)
<1>1. CASE ReconcileNext
  <2> DEFINE r == CreateOrder[op.k]
  <2>1. \A b : \A x \in Desired(b) : Served(x)
    BY DEF Desired
  <2>2. \/ res' = res
        \/ res' = res \ {r}
        \/ r \in Desired(op.held.legacy) /\ res' = res \cup {r}
    BY <1>1 DEF ReconcileNext, SkipUnserved, DeleteUnwanted, KeepFound, CreateMissing, SetRes
  <2>3. op.pc = "reconcile" /\ server' = server
    BY <1>1 DEF ReconcileNext
  <2> HIDE DEF r
  <2> QED
    BY <2>1, <2>2, <2>3
<1>2. CASE DeleteNext
  BY <1>2 DEF DeleteNext, SetRes
<1>3. ASSUME NEW r \in Resources, Drift(r) PROVE res' \subseteq res
  BY <1>3 DEF Drift, SetRes
<1>4. CASE ~ReconcileNext /\ ~DeleteNext /\ ~\E r \in Resources : Drift(r)
  <2>1. res' = res
    BY <1>4 DEF Next, Reconcile, Watches, Users, vars, CreateCR, EditCR, DeleteCR,
       DeliverCR, DeliverKind, ListCRs, GetCR, addFinalizer, MarkDeploying,
       ReconcileOwned, FinishPass, reconcileCleanup, RemoveFinalizer,
       CallFails, Restart
  <2> QED
    BY <2>1
<1> QED
  BY <1>1, <1>2, <1>3, <1>4

\* NoOrphans is preserved.
LEMMA OrphansStep ==
    ASSUME LifecycleInv, [Next]_vars
    PROVE  NoOrphans'
<1> USE DEF LifecycleInv
<1> SUFFICES ASSUME res' # {}
             PROVE  \E c \in CRs : server'.objs[c].exists /\ server'.objs[c].fin
  BY DEF NoOrphans
<1>0. /\ op.cr \in CRs /\ server \in Known
      /\ \A c \in CRs : server.objs[c].fin => server.objs[c].exists
      /\ \A c \in CRs : server'.objs[c].fin => server'.objs[c].exists
  <2>1. op.cr \in CRs
    BY HeldType
  <2>2. FinalizerStays' /\ server' \in Known' /\ server \in Known
    BY VersionsStep DEF Known
  <2> QED
    BY <2>1, <2>2 DEF FinalizerStays
<1>1. PICK c \in CRs : server.objs[c].fin
  <2>1. CASE res' \subseteq res
    BY <2>1 DEF NoOrphans
  <2>2. CASE op.pc = "reconcile"
    BY <1>0, <2>2 DEF PassKnows
  <2> QED
    BY <2>1, <2>2, ResSteps
<1>2. CASE server' = server
  BY <1>0, <1>1, <1>2
<1>3. ASSUME NEW d \in CRs, NEW o \in Objects, GoodWrite(d, o), server' # server
      PROVE  \E e \in CRs : server'.objs[e].fin
  <2>1. server' = Stored(d, o) /\ server \in Snapshots
    BY <1>3 DEF GoodWrite, Write, TypeOK
  <2>2. Stored(d, o).objs[d].fin = o.fin
    BY <2>1, StoredFields
  <2>3. \A e \in CRs \ {d} : Stored(d, o).objs[e] = server.objs[e]
    BY <2>1, StoredType
  <2>4. CASE o.fin \/ c # d
    BY <1>1, <2>1, <2>2, <2>3, <2>4
  <2>5. CASE ~o.fin /\ c = d
    <3>1. op.pc = "remove"
      BY <1>1, <1>3, <2>5 DEF GoodWrite
    <3>2. res = {}
      BY <3>1 DEF PassDone
    <3> QED
      BY <1>3, <3>1, <3>2, ResSteps
  <2> QED
    BY <2>4, <2>5
<1>4. CASE DeliverCR \/ Restart
  BY <1>2, <1>4 DEF DeliverCR, Restart
<1> QED
  BY <1>0, <1>2, <1>3, <1>4, ServerSteps

\* A step that leaves the pass alone and adds no
\* managed object keeps PassDone.
LEMMA DoneStays ==
    ASSUME LifecycleInv, op' = op, res' \subseteq res
    PROVE  PassDone'
  BY DEF LifecycleInv, PassDone

\* PassDone is preserved.
LEMMA DoneStep ==
    ASSUME LifecycleInv, [Next]_vars
    PROVE  PassDone'
<1> USE DEF LifecycleInv
<1>0. op \in Passes /\ op.k \in Nat /\ res \subseteq Resources
  BY HeldType DEF TypeOK
<1>1. \A r \in res' : Served(r)
  BY ResSteps DEF PassDone
<1>2. CASE op'.pc \in {"idle", "get", "finalizer", "mark", "owned", "status", "cleanup"}
  BY <1>1, <1>2 DEF PassDone
<1>3. CASE op' = Idle
  BY <1>2, <1>3, IdleType
<1>4. CASE ListCRs(op'.cr) \/ \E c \in CRs : ListCRs(c)
  <2>1. op'.pc = "get"
    BY <1>4, IdleType DEF ListCRs, Passes
  <2> QED
    BY <1>2, <2>1
<1>5. CASE GetCR
  <2>1. op'.pc \in {"idle", "cleanup", "finalizer"}
    BY <1>0, <1>5, IdleType DEF GetCR, Passes
  <2> QED
    BY <1>2, <2>1
<1>6. CASE addFinalizer \/ MarkDeploying \/ RemoveFinalizer \/ \E b \in BOOLEAN : FinishPass(b)
  <2>1. \A pc \in {"mark", "owned", "idle"} : \A o \in Objects :
           Update(o, pc) => op'.pc \in {"mark", "owned", "idle"}
    <3> SUFFICES ASSUME NEW pc \in {"mark", "owned", "idle"}, NEW o \in Objects, Update(o, pc)
                 PROVE  op'.pc \in {"mark", "owned", "idle"}
      OBVIOUS
    <3> QED
      BY <1>0, UpdateCases, IdleType DEF Passes
  <2>2. op' = Goto("mark") \/ op' = Goto("owned") => op'.pc \in {"mark", "owned"}
    BY <1>0 DEF Goto, Passes
  <2>3. op'.pc \in {"mark", "owned", "idle"}
    BY <1>6, <2>1, <2>2, HeldType, GoneType, IdleType
       DEF addFinalizer, MarkDeploying, RemoveFinalizer, FinishPass
  <2> QED
    BY <1>2, <2>3
<1>7. CASE ReconcileOwned
  <2>1. op' = Idle \/ (op'.pc = "reconcile" /\ op'.k = 1)
    BY <1>7, ReplyMoves DEF ReconcileOwned, Labels
  <2> QED
    BY <1>1, <1>3, <2>1, CreateOrderType DEF PassDone
<1>8. CASE ReconcileNext
  <2> DEFINE next == [op EXCEPT !.pc = IF op.k = Len(CreateOrder) THEN "status" ELSE @,
                                !.k = @ + 1]
  <2>1. op' = next \/ op' = Idle
    BY <1>8 DEF ReconcileNext, SkipUnserved, DeleteUnwanted, KeepFound, CreateMissing,
       Reply, Abort
  <2>2. op.pc = "reconcile" /\ op.k \in 1..Len(CreateOrder)
    BY <1>8 DEF ReconcileNext, PassDone
  <2>3. CASE op' = next
    <3>1. \/ op'.pc = "status"
          \/ op'.pc = "reconcile" /\ op'.k = op.k + 1 /\ op.k # Len(CreateOrder)
      BY <1>0, <2>2, <2>3 DEF Passes
    <3>2. op'.pc = "reconcile" => op'.k \in 1..Len(CreateOrder)
      BY <1>0, <2>2, <3>1, CreateOrderType
    <3> QED
      BY <1>1, <3>1, <3>2 DEF PassDone
  <2> QED
    BY <1>3, <2>1, <2>3
<1>10. ASSUME NEW finished \in BOOLEAN, reconcileCleanup(finished) PROVE PassDone'
  <2>1. CASE finished
    <3>1. /\ Reply([op EXCEPT !.pc = "delete", !.k = 1])
          /\ res' = res
      BY <1>10, <2>1 DEF reconcileCleanup
    <3>2. op' = Idle \/ (op'.pc = "delete" /\ op'.k = 1)
      BY <3>1, ReplyMoves DEF Labels
    <3>3. \A r \in res' : \E j \in 1..Len(DeleteOrder) : DeleteOrder[j] = r
      BY <1>0, <3>1, DeleteOrderComplete
    <3> QED
      BY <1>1, <1>3, <3>1, <3>2, <3>3, DeleteOrderComplete DEF PassDone
  <2>2. CASE ~finished
    BY <1>3, <1>10, <2>2 DEF reconcileCleanup, Abort
  <2> QED
    BY <2>1, <2>2
<1>11. CASE DeleteNext
  <2> DEFINE next == [op EXCEPT !.pc = IF op.k = Len(DeleteOrder) THEN "remove" ELSE @,
                                !.k = @ + 1]
  <2>1. op' = next \/ op' = Idle
    BY <1>11 DEF DeleteNext, Reply, Abort
  <2>2. /\ op.pc = "delete" /\ op.k \in 1..9
        /\ \A r \in res : \E j \in op.k..9 : DeleteOrder[j] = r
    BY <1>11, DeleteOrderComplete DEF DeleteNext, PassDone
  <2>3. res' \subseteq res /\ DeleteOrder[op.k] \notin res'
    BY <1>11 DEF DeleteNext, SetRes, PassDone
  <2>4. \A r \in res' : \E j \in (op.k + 1)..9 : DeleteOrder[j] = r
    <3> SUFFICES ASSUME NEW r \in res' PROVE \E j \in (op.k + 1)..9 : DeleteOrder[j] = r
      OBVIOUS
    <3>1. PICK j \in op.k..9 : DeleteOrder[j] = r
      BY <2>2, <2>3
    <3>2. j # op.k
      BY <2>3, <3>1
    <3> QED
      BY <2>2, <3>1, <3>2
  <2>5. CASE op' = next
    <3>1. CASE op.k = 9
      <4>1. op'.pc = "remove"
        BY <1>0, <2>5, <3>1, DeleteOrderComplete DEF Passes
      <4>2. res' = {}
        BY <2>4, <3>1
      <4> QED
        BY <1>1, <2>2, <4>1, <4>2 DEF PassDone
    <3>2. CASE op.k # 9
      <4>1. op'.pc = "delete" /\ op'.k = op.k + 1
        BY <1>0, <2>2, <2>5, <3>2, DeleteOrderComplete DEF Passes
      <4>2. op'.k \in 1..9
        BY <2>2, <3>2, <4>1
      <4> QED
        BY <1>1, <2>2, <2>4, <4>1, <4>2, DeleteOrderComplete DEF PassDone
    <3> QED
      BY <3>1, <3>2
  <2> QED
    BY <1>3, <2>1, <2>5
<1>12. CASE CallFails \/ Restart
  BY <1>3, <1>12 DEF CallFails, Restart, Abort
<1>13. CASE \/ UNCHANGED vars \/ DeliverCR
            \/ \E kind \in Kinds : DeliverKind(kind)
            \/ Users
  <2>1. op' = op
    BY <1>13 DEF vars, DeliverCR, DeliverKind, Users, CreateCR, EditCR, DeleteCR, Drift
  <2>2. res' \subseteq res
    BY <1>13 DEF vars, DeliverCR, DeliverKind, Users, CreateCR, EditCR, DeleteCR,
                 Drift, SetRes
  <2> QED
    BY <2>1, <2>2, DoneStays
<1> QED
  BY <1>4, <1>5, <1>6, <1>7, <1>8, <1>10, <1>11, <1>12, <1>13
     DEF Next, Reconcile, Watches

-----------------------------------------------------------------------------
\* The inductive invariant holds initially.
LEMMA InitInv == Init => LifecycleInv
<1> SUFFICES ASSUME Init PROVE LifecycleInv
  OBVIOUS
<1> USE GoneType, IdleType, BoundAssumption DEF Init
<1>1. server \in Snapshots /\ server.ver = 0 /\ \A c \in CRs : server.objs[c] = Gone(0)
  BY DEF Snapshots
<1>2. Known = {server}
  BY DEF Known
<1>3. TypeOK
  BY <1>1 DEF TypeOK
<1>4. VersionsOrdered
  BY <1>1, <1>2 DEF VersionsOrdered
<1>5. FinalizerStays
  BY <1>1, <1>2 DEF FinalizerStays
<1>6. PassKnows /\ PassDone /\ NoOrphans
  BY DEF PassKnows, PassDone, NoOrphans
<1> QED
  BY <1>3, <1>4, <1>5, <1>6 DEF LifecycleInv

\* The inductive invariant is preserved by every step.
LEMMA StepInv == LifecycleInv /\ [Next]_vars => LifecycleInv'
  BY TypeStep, VersionsStep, KnowsStep, DoneStep, OrphansStep DEF LifecycleInv

\* Every reachable state satisfies the inductive invariant of the finalizer
\* protocol.
THEOREM InvHolds == Spec => []LifecycleInv
  BY InitInv, StepInv, PTL DEF Spec

\* Every variable of the finalizer protocol keeps its type.
THEOREM TypeCorrect == Spec => []TypeOK
<1>1. LifecycleInv => TypeOK
  BY DEF LifecycleInv
<1> QED
  BY <1>1, InvHolds, PTL

\* No ClusterRole, binding, SCC, CSIDriver or Prometheus object outlives the
\* last CR with the finalizer: for any number of CRs, user operations, failed
\* calls, lost replies, stale reads and restarts of the operator.
THEOREM NothingOrphaned == Spec => []NoOrphans
<1>1. LifecycleInv => NoOrphans
  BY DEF LifecycleInv
<1> QED
  BY <1>1, InvHolds, PTL

\* A CR with the finalizer disappears only when no unowned object is left, not
\* even one that was made for another CR.
THEOREM AlwaysReleasedClean == Spec => ReleasedClean
<1> DEFINE Clean == \A c \in CRs :
          server.objs[c].fin /\ ~server'.objs[c].exists => res = {}
<1>1. LifecycleInv /\ [Next]_vars => [Clean]_vars
  <2> SUFFICES ASSUME LifecycleInv, [Next]_vars, NEW c \in CRs,
                      server.objs[c].fin, ~server'.objs[c].exists
               PROVE  res = {}
    OBVIOUS
  <2>0. server.objs[c].exists /\ server \in Snapshots
    BY DEF LifecycleInv, TypeOK, FinalizerStays, Known
  <2>1. PICK d \in CRs, o \in Objects : GoodWrite(d, o)
    <3>1. server' # server
      BY <2>0
    <3> QED
      BY <3>1, ServerSteps DEF DeliverCR, Restart
  <2>2. server' = Stored(d, o)
    BY <2>1 DEF GoodWrite, Write
  <2>3. Stored(d, o).objs[d].exists = o.exists
    BY <2>0, StoredFields
  <2>4. \A e \in CRs \ {d} : Stored(d, o).objs[e] = server.objs[e]
    BY <2>0, StoredType
  <2>5. c = d /\ ~o.exists
    BY <2>0, <2>2, <2>3, <2>4
  <2>6. op.pc = "remove"
    BY <2>1, <2>5 DEF GoodWrite
  <2> QED
    BY <2>6 DEF LifecycleInv, PassDone
<1> QED
  BY <1>1, InvHolds, PTL DEF Spec, ReleasedClean

\* An Update that keeps the spec and the deletion timestamp of the copy it was
\* read from keeps those of the stored object.
LEMMA UpdateKeeps ==
    ASSUME LifecycleInv, NEW o \in Objects, NEW pc \in {"mark", "owned", "idle"}, Update(o, pc),
           op.pc \notin {"idle", "get"},
           o.exists => o.legacy = op.held.legacy /\ o.del = op.held.del,
           NEW c \in CRs, server'.objs[c].exists
    PROVE  /\ server.objs[c].exists
           /\ server'.objs[c].legacy = server.objs[c].legacy
           /\ server'.objs[c].del = server.objs[c].del
<1>0. server \in Snapshots /\ op.cr \in CRs
  BY HeldType DEF LifecycleInv, TypeOK
<1>1. CASE server' = server
  BY <1>1
<1>2. CASE /\ Write(op.cr, o)
           /\ server.objs[op.cr].exists /\ server.objs[op.cr].rv = op.held.rv
  <2>1. server' = Stored(op.cr, o) /\ op.held = server.objs[op.cr]
    BY <1>2 DEF Write, LifecycleInv, PassKnows
  <2>2. \A e \in CRs \ {op.cr} : Stored(op.cr, o).objs[e] = server.objs[e]
    BY <1>0, StoredType
  <2>3. /\ Stored(op.cr, o).objs[op.cr].exists = o.exists
        /\ Stored(op.cr, o).objs[op.cr].legacy = o.legacy
        /\ Stored(op.cr, o).objs[op.cr].del = o.del
    BY <1>0, StoredFields
  <2>4. CASE c = op.cr
    BY <1>2, <2>1, <2>3, <2>4
  <2>5. CASE c # op.cr
    BY <2>1, <2>2, <2>5
  <2> QED
    BY <2>4, <2>5
<1> QED
  BY <1>1, <1>2, UpdateCases DEF LifecycleInv

\* The operator never undoes a user's edit or deletion of a CR and never brings
\* a CR back, although it works on copies that may be stale.
THEOREM EditsAreNotLost == Spec => NoLostEdits
<1> DEFINE Keeps == \A c \in CRs :
          server'.objs[c].exists =>
              /\ server.objs[c].exists
              /\ server'.objs[c].legacy = server.objs[c].legacy
              /\ server'.objs[c].del = server.objs[c].del
<1>1. LifecycleInv /\ [Next]_vars => [Reconcile => Keeps]_vars
  <2> SUFFICES ASSUME LifecycleInv, Reconcile, NEW c \in CRs, server'.objs[c].exists
               PROVE  /\ server.objs[c].exists
                      /\ server'.objs[c].legacy = server.objs[c].legacy
                      /\ server'.objs[c].del = server.objs[c].del
    OBVIOUS
  <2>0. op.held \in Objects
    BY HeldType DEF LifecycleInv
  <2>1. CASE server' = server
    BY <2>1
  <2>2. CASE addFinalizer /\ server' # server
    <3> DEFINE o == [op.held EXCEPT !.fin = TRUE]
    <3>1. o \in Objects /\ o.legacy = op.held.legacy /\ o.del = op.held.del
      BY <2>0 DEF Objects
    <3>2. Update(o, "mark") /\ op.pc = "finalizer"
      BY <2>2 DEF addFinalizer
    <3> HIDE DEF o
    <3> QED
      BY <3>1, <3>2, UpdateKeeps
  <2>3. CASE MarkDeploying /\ server' # server
    <3> DEFINE o == [op.held EXCEPT !.dep = TRUE]
    <3>1. o \in Objects /\ o.legacy = op.held.legacy /\ o.del = op.held.del
      BY <2>0 DEF Objects
    <3>2. Update(o, "owned") /\ op.pc = "mark"
      BY <2>3 DEF MarkDeploying
    <3> HIDE DEF o
    <3> QED
      BY <3>1, <3>2, UpdateKeeps
  <2>4. ASSUME NEW ready \in BOOLEAN, FinishPass(ready), server' # server
        PROVE  /\ server.objs[c].exists
               /\ server'.objs[c].legacy = server.objs[c].legacy
               /\ server'.objs[c].del = server.objs[c].del
    <3> DEFINE o == [op.held EXCEPT !.obs = TRUE]
    <3>1. o \in Objects /\ o.legacy = op.held.legacy /\ o.del = op.held.del
      BY <2>0 DEF Objects
    <3>2. Update(o, "idle") /\ op.pc = "status"
      BY <2>4 DEF FinishPass
    <3> HIDE DEF o
    <3> QED
      BY <3>1, <3>2, UpdateKeeps
  <2>5. CASE RemoveFinalizer
    <3>1. Update(Gone(0), "idle") /\ op.pc = "remove"
      BY <2>5 DEF RemoveFinalizer
    <3> QED
      BY <3>1, GoneType, UpdateKeeps
  <2>6. CASE \/ \E d \in CRs : ListCRs(d)
             \/ GetCR \/ ReconcileOwned \/ ReconcileNext
             \/ (\E finished \in BOOLEAN : reconcileCleanup(finished)) \/ DeleteNext
    <3>1. server' = server
      BY <2>6 DEF ListCRs, GetCR, ReconcileOwned, ReconcileNext,
                  reconcileCleanup, DeleteNext
    <3> QED
      BY <2>1, <3>1
  <2> QED
    BY <2>1, <2>2, <2>3, <2>4, <2>5, <2>6 DEF Reconcile
<1> QED
  BY <1>1, InvHolds, PTL DEF Spec, NoLostEdits
-----------------------------------------------------------------------------
\* A step changes at most one managed object, and then no CR; it adds one only
\* in a pass over a live CR.
LEMMA ResOneByOne ==
    ASSUME LifecycleInv, [Next]_vars
    PROVE  \/ res' = res
           \/ /\ server' = server
              /\ \E r \in Resources :
                    \/ res' = res \ {r}
                    \/ op.pc = "reconcile" /\ res' = res \cup {r}
<1> DEFINE Goal == \E r \in Resources :
                      \/ res' = res \ {r}
                      \/ op.pc = "reconcile" /\ res' = res \cup {r}
<1>1. CASE ReconcileNext
  <2> DEFINE r == CreateOrder[op.k]
  <2>1. op.pc = "reconcile" /\ server' = server
    BY <1>1 DEF ReconcileNext
  <2>2. r \in Resources
    BY <2>1, CreateOrderType DEF LifecycleInv, PassDone
  <2>3. res' = res \/ res' = res \ {r} \/ res' = res \cup {r}
    BY <1>1 DEF ReconcileNext, SkipUnserved, DeleteUnwanted, KeepFound, CreateMissing, SetRes
  <2> HIDE DEF r
  <2> QED
    BY <2>1, <2>2, <2>3
<1>2. CASE DeleteNext
  <2> DEFINE r == DeleteOrder[op.k]
  <2>1. op.pc = "delete" /\ server' = server
    BY <1>2 DEF DeleteNext
  <2>2. r \in Resources
    BY <2>1, DeleteOrderComplete DEF LifecycleInv, PassDone
  <2>3. res' = res \/ res' = res \ {r}
    BY <1>2 DEF DeleteNext, SetRes
  <2> HIDE DEF r
  <2> QED
    BY <2>1, <2>2, <2>3
<1>3. ASSUME NEW r \in Resources, Drift(r) PROVE server' = server /\ res' = res \ {r}
  BY <1>3 DEF Drift, SetRes
<1>4. CASE ~ReconcileNext /\ ~DeleteNext /\ ~\E r \in Resources : Drift(r)
  BY <1>4 DEF Next, Reconcile, Watches, Users, vars, CreateCR, EditCR, DeleteCR,
     DeliverCR, DeliverKind, ListCRs, GetCR, addFinalizer, MarkDeploying,
     ReconcileOwned, FinishPass, reconcileCleanup, RemoveFinalizer, CallFails, Restart
<1> QED
  BY <1>1, <1>2, <1>3, <1>4

\* A step changes the finalizer of at most one CR, and takes one away only when
\* no managed object is left.
LEMMA HoldersOneByOne ==
    ASSUME LifecycleInv, [Next]_vars, server' # server
    PROVE  \E d \in CRs :
               /\ \A e \in CRs \ {d} : server'.objs[e].fin = server.objs[e].fin
               /\ server'.objs[d].fin \in BOOLEAN
               /\ server.objs[d].fin /\ ~server'.objs[d].fin => res = {}
<1>0. server \in Snapshots
  BY DEF LifecycleInv, TypeOK
<1>1. PICK d \in CRs, o \in Objects : GoodWrite(d, o)
  BY ServerSteps DEF DeliverCR, Restart
<1>2. server' = Stored(d, o)
  BY <1>1 DEF GoodWrite, Write
<1>3. Stored(d, o).objs[d].fin = o.fin /\ o.fin \in BOOLEAN
  BY <1>0, StoredFields DEF Objects
<1>4. \A e \in CRs \ {d} : Stored(d, o).objs[e] = server.objs[e]
  BY <1>0, StoredType
<1>5. server.objs[d].fin /\ ~o.fin => res = {}
  BY <1>1 DEF GoodWrite, LifecycleInv, PassDone
<1> QED
  BY <1>2, <1>3, <1>4, <1>5

\* The finalizer protocol, with its caches, stale copies, lost replies and
\* restarts, implements the lease: unowned objects are created one by one under
\* a CR with the finalizer, and a finalizer goes only when nothing is left.
THEOREM LifecycleImplementsLease == Spec => ImplementsLease
<1> DEFINE H == {c \in CRs : server.objs[c].fin}
<1>1. Init => Protection!Init
  BY DEF Init, Protection!Init, Gone
<1>2. LifecycleInv /\ [Next]_vars => [Protection!Next]_Protection!lease
  <2> SUFFICES ASSUME LifecycleInv, [Next]_vars
               PROVE  Protection!Next \/ (H' = H /\ res' = res)
    BY DEF Protection!lease
  <2>1. CASE server' # server
    <3>1. res' = res
      BY <2>1, ResOneByOne
    <3>2. PICK d \in CRs :
              /\ \A e \in CRs \ {d} : server'.objs[e].fin = server.objs[e].fin
              /\ server'.objs[d].fin \in BOOLEAN
              /\ server.objs[d].fin /\ ~server'.objs[d].fin => res = {}
      BY <2>1, HoldersOneByOne
    <3>3. CASE server'.objs[d].fin
      <4>1. H' = H \cup {d}
        BY <3>2, <3>3
      <4> QED
        BY <3>1, <4>1 DEF Protection!Next, Protection!Acquire
    <3>4. CASE ~server'.objs[d].fin /\ server.objs[d].fin
      <4>1. H' = H \ {d} /\ res = {}
        BY <3>2, <3>4
      <4> QED
        BY <3>1, <4>1 DEF Protection!Next, Protection!Release
    <3>5. CASE ~server'.objs[d].fin /\ ~server.objs[d].fin
      <4>1. H' = H
        BY <3>2, <3>5
      <4> QED
        BY <3>1, <4>1
    <3> QED
      BY <3>3, <3>4, <3>5
  <2>2. ASSUME server' = server, NEW r \in Resources,
               res' = res \ {r} \/ (op.pc = "reconcile" /\ res' = res \cup {r})
        PROVE  Protection!Next
    <3>1. H' = H
      BY <2>2
    <3>2. CASE res' = res \ {r}
      BY <3>1, <3>2 DEF Protection!Next, Protection!Take
    <3>3. CASE op.pc = "reconcile" /\ res' = res \cup {r}
      <4>1. op.cr \in H
        BY <3>3, HeldType DEF LifecycleInv, PassKnows
      <4> QED
        BY <3>1, <3>3, <4>1 DEF Protection!Next, Protection!Put
    <3> QED
      BY <2>2, <3>2, <3>3
  <2>3. CASE server' = server /\ res' = res
    BY <2>3
  <2> QED
    BY <2>1, <2>2, <2>3, ResOneByOne
<1> QED
  BY <1>1, <1>2, InvHolds, PTL DEF Spec, ImplementsLease, Protection!Spec

-----------------------------------------------------------------------------
(* Rest.  With one CR, whatever is not as it should be is on its way: as a   *)
(* watch event, as a request in the queue, or as a pass in progress that has *)
(* read the present state.                                                   *)

\* The caches lag behind, and every difference has an event on its way.
CachesInv ==
    /\ server \in pending \cup {cache}
    /\ \A s \in pending : cache.ver < s.ver
    /\ \A s, t \in Known : s.ver = t.ver => s = t
    /\ \A s \in Known : \A c \in CRs : s.objs[c].rv = s.ver

SeenInv == \A r \in Resources : KindOf[r] \in events \/ (r \in seen <=> r \in res)

\* Object r is as a CR asks for, or the operator will hear that it is not.
Settled(r, legacy) == (r \in res <=> r \in Desired(legacy)) \/ KindOf[r] \in events

LiveInv == op.pc \in {"finalizer", "mark", "owned", "reconcile", "status"} => ~op.held.del

\* What the operator has done when there is no request and no event of a CR.
WorkDone(c) ==
    /\ op.pc \notin {"idle", "get"} => op.held = server.objs[c]
    /\ op.pc = "idle" /\ server.objs[c].exists =>
         ~server.objs[c].del /\ \A r \in Resources : Settled(r, server.objs[c].legacy)
    /\ op.pc = "reconcile" => \A j \in 1..(op.k - 1) : Settled(CreateOrder[j], op.held.legacy)
    /\ op.pc = "status" => \A r \in Resources : Settled(r, op.held.legacy)

WorkInv == \A c \in CRs : c \notin queue /\ pending = {} => WorkDone(c)

RestInv == LifecycleInv /\ CachesInv /\ SeenInv /\ LiveInv /\ WorkInv

\* A write is newer than everything known.
LEMMA CachesWrite ==
    ASSUME LifecycleInv, CachesInv, NEW c \in CRs, CRs = {c}, NEW o \in Objects, Write(c, o), cache' = cache
    PROVE  CachesInv' /\ pending' # {}
<1> DEFINE S == Stored(c, o)
<1>1. server \in Snapshots /\ server.ver \in Nat /\ Known \subseteq Snapshots
  BY DEF LifecycleInv, TypeOK, Snapshots, Known
<1>2. S.ver = server.ver + 1 /\ S.objs[c].rv = server.ver + 1
  BY <1>1, StoredType, StoredFields
<1>3. server' = S /\ pending' = pending \cup {S}
  BY DEF Write
<1> HIDE DEF S
<1>4. Known' \subseteq Known \cup {S} /\ server \in Known /\ cache \in Known
  BY <1>3 DEF Known
<1>5. \A s \in Known : s.ver \in Nat /\ s.ver < S.ver
  <2>1. \A s \in Known : s.ver <= server.ver /\ s.ver \in Nat
    BY <1>1 DEF LifecycleInv, VersionsOrdered, Snapshots
  <2> QED
    BY <1>1, <1>2, <2>1
<1>6. \A s, t \in Known' : s.ver = t.ver => s = t
  <2> SUFFICES ASSUME NEW s \in Known', NEW t \in Known', s.ver = t.ver PROVE s = t
    OBVIOUS
  <2>1. CASE s \in Known /\ t \in Known
    BY <2>1 DEF CachesInv
  <2>2. CASE s = S \/ t = S
    BY <1>2, <1>4, <1>5, <2>2
  <2> QED
    BY <1>4, <2>1, <2>2
<1>7. \A s \in Known' : \A d \in CRs : s.objs[d].rv = s.ver
  BY <1>2, <1>4 DEF CachesInv
<1>8. \A s \in pending' : cache'.ver < s.ver
  BY <1>3, <1>4, <1>5 DEF CachesInv
<1> QED
  BY <1>3, <1>6, <1>7, <1>8 DEF CachesInv

\* Every event of the CR is a request.
LEMMA CachesDeliver ==
    ASSUME LifecycleInv, CachesInv, NEW c \in CRs, CRs = {c}, DeliverCR
    PROVE  CachesInv' /\ c \in queue'
<1>1. PICK s \in pending : /\ \A t \in pending : s.ver <= t.ver
                           /\ cache' = s /\ pending' = pending \ {s} /\ server' = server
                           /\ queue' = queue \cup {d \in CRs : s.objs[d] # cache.objs[d]}
  BY DEF DeliverCR
<1>2. /\ Known' \subseteq Known /\ s \in Known /\ cache \in Known /\ server \in Known
      /\ \A t \in Known : t.ver \in Nat
  BY <1>1 DEF LifecycleInv, TypeOK, Known, Snapshots
<1>3. s.objs[c].rv = s.ver /\ cache.objs[c].rv = cache.ver /\ cache.ver < s.ver
  BY <1>2 DEF CachesInv
<1>4. c \in queue'
  <2>1. s.objs[c] # cache.objs[c]
    BY <1>2, <1>3
  <2> QED
    BY <1>1, <2>1
<1>5. server' \in pending' \cup {cache'}
  <2>1. s.ver <= server.ver
    BY <1>2 DEF LifecycleInv, VersionsOrdered
  <2>2. server # cache
    BY <1>2, <1>3, <2>1
  <2> QED
    BY <1>1, <2>2 DEF CachesInv
<1>6. \A t \in pending' : cache'.ver < t.ver
  <2> SUFFICES ASSUME NEW t \in pending' PROVE cache'.ver < t.ver
    OBVIOUS
  <2>1. t \in pending /\ t # s /\ t \in Known /\ s.ver <= t.ver
    BY <1>1 DEF Known
  <2>2. s.ver # t.ver
    BY <1>2, <2>1 DEF CachesInv
  <2> QED
    BY <1>1, <1>2, <2>1, <2>2
<1> QED
  BY <1>2, <1>4, <1>5, <1>6 DEF CachesInv

\* Every step keeps the caches behind the server, with an event for each difference.
LEMMA CachesStep ==
    ASSUME LifecycleInv, CachesInv, NEW c \in CRs, CRs = {c}, [Next]_vars
    PROVE  CachesInv'
<1>1. CASE UNCHANGED <<server, cache, pending>>
  BY <1>1 DEF CachesInv, Known
<1>2. CASE Restart
  <2>1. cache' = server /\ server' = server /\ pending' = {}
    BY <1>2 DEF Restart
  <2>2. Known' = {server} /\ server \in Known
    BY <2>1 DEF Known
  <2> QED
    BY <2>1, <2>2 DEF CachesInv
<1>3. ASSUME NEW d \in CRs, NEW o \in Objects, GoodWrite(d, o) PROVE CachesInv'
  <2>1. d = c /\ Write(c, o) /\ cache' = cache
    BY <1>3 DEF GoodWrite
  <2> QED
    BY <2>1, CachesWrite
<1> QED
  BY <1>1, <1>2, <1>3, CachesDeliver, ServerSteps

\* A managed object that changes has an event.
LEMMA SetResSettled ==
    ASSUME TypeOK, NEW r \in Resources, NEW rs, rs \ {r} = res \ {r}, SetRes(rs, r)
    PROVE  /\ SeenInv /\ seen' = seen => SeenInv'
           /\ \A x \in Resources : \A legacy : Settled(x, legacy) => Settled(x, legacy)'
<1>1. CASE rs = res
  <2>1. res' = res /\ events' = events
    BY <1>1 DEF SetRes
  <2> QED
    BY <2>1 DEF SeenInv, Settled
<1>2. CASE rs # res
  <2>1. res' = rs /\ events' = events \cup {KindOf[r]}
    BY <1>2 DEF SetRes
  <2>2. \A x \in Resources : x # r => (x \in res' <=> x \in res)
    BY <2>1
  <2> QED
    BY <2>1, <2>2 DEF SeenInv, Settled
<1> QED
  BY <1>1, <1>2

\* How a step changes the managed objects, and what it keeps of them.
LEMMA ResSettled ==
    ASSUME LifecycleInv, [Next]_vars, ~Watches, ~Restart
    PROVE  /\ seen' = seen
           /\ SeenInv => SeenInv'
           /\ \A x \in Resources : \A legacy : Settled(x, legacy) => Settled(x, legacy)'
<1> USE DEF LifecycleInv
<1> DEFINE Goal == /\ seen' = seen
                   /\ SeenInv => SeenInv'
                   /\ \A x \in Resources : \A legacy : Settled(x, legacy) => Settled(x, legacy)'
<1> SUFFICES Goal
  OBVIOUS
<1>1. ASSUME NEW r \in Resources, NEW rs, rs \ {r} = res \ {r}, SetRes(rs, r), seen' = seen PROVE Goal
  BY <1>1, SetResSettled
<1>2. ASSUME UNCHANGED <<res, seen, events>> PROVE Goal
  BY <1>2 DEF SeenInv, Settled
<1>3. CASE ReconcileNext
  <2> DEFINE r == CreateOrder[op.k]
  <2>1. r \in Resources
    BY <1>3, CreateOrderType DEF ReconcileNext, PassDone
  <2>2. /\ seen' = seen
        /\ \/ UNCHANGED <<res, events>> \/ SetRes(res \ {r}, r) \/ SetRes(res \cup {r}, r)
    BY <1>3 DEF ReconcileNext, SkipUnserved, DeleteUnwanted, KeepFound, CreateMissing
  <2> HIDE DEF r, Goal
  <2>3. (res \ {r}) \ {r} = res \ {r} /\ (res \cup {r}) \ {r} = res \ {r}
    OBVIOUS
  <2>4. CASE SetRes(res \ {r}, r)
    BY <1>1, <2>1, <2>2, <2>3, <2>4, Zenon
  <2>5. CASE SetRes(res \cup {r}, r)
    BY <1>1, <2>1, <2>2, <2>3, <2>5, Zenon
  <2>6. CASE UNCHANGED <<res, events>>
    <3>1. UNCHANGED <<res, seen, events>>
      BY <2>2, <2>6
    <3> QED
      BY <1>2, <3>1, Zenon
  <2> QED
    BY <2>2, <2>4, <2>5, <2>6
<1>4. CASE DeleteNext
  <2> DEFINE r == DeleteOrder[op.k]
             rs == IF Served(r) THEN res \ {r} ELSE res
  <2>1. r \in Resources
    BY <1>4, DeleteOrderComplete DEF DeleteNext, PassDone
  <2>2. seen' = seen /\ SetRes(rs, r)
    BY <1>4 DEF DeleteNext
  <2> HIDE DEF r, Goal
  <2>3. rs \ {r} = res \ {r}
    OBVIOUS
  <2> HIDE DEF rs
  <2> QED
    BY <1>1, <2>1, <2>2, <2>3, Zenon
<1>5. ASSUME NEW r \in Resources, Drift(r) PROVE Goal
  <2>1. seen' = seen /\ SetRes(res \ {r}, r) /\ (res \ {r}) \ {r} = res \ {r}
    BY <1>5 DEF Drift
  <2> HIDE DEF Goal
  <2> QED
    BY <1>1, <2>1, Zenon
<1>6. CASE ~ReconcileNext /\ ~DeleteNext /\ ~\E r \in Resources : Drift(r)
  <2>1. UNCHANGED <<res, seen, events>>
    BY <1>6 DEF Next, Reconcile, Users, vars, CreateCR, EditCR, DeleteCR,
       ListCRs, GetCR, addFinalizer, MarkDeploying,
       ReconcileOwned, FinishPass, reconcileCleanup, RemoveFinalizer, CallFails
  <2> HIDE DEF Goal
  <2> QED
    BY <1>2, <2>1, Zenon
<1> HIDE DEF Goal
<1> QED
  BY <1>3, <1>4, <1>5, <1>6, Zenon

\* Every step keeps an event for each kind whose objects the cache shows wrongly.
LEMMA SeenStep ==
    ASSUME LifecycleInv, SeenInv, [Next]_vars
    PROVE  SeenInv'
<1>1. CASE Restart
  BY <1>1 DEF Restart, SeenInv
<1>2. CASE DeliverCR
  BY <1>2 DEF DeliverCR, SeenInv
<1>3. ASSUME NEW kind \in Kinds, DeliverKind(kind) PROVE SeenInv'
  <2>1. /\ events' = events \ {kind} /\ res' = res
        /\ seen' = (seen \ OfKind(kind)) \cup (res \cap OfKind(kind))
    BY <1>3 DEF DeliverKind
  <2>2. \A r \in Resources : r \in OfKind(kind) <=> KindOf[r] = kind
    BY DEF OfKind
  <2> QED
    BY <2>1, <2>2 DEF SeenInv
<1> QED
  BY <1>1, <1>2, <1>3, ResSettled DEF Watches

\* What an Update of a CR leaves behind: a request, an event, or the pass where it was.
LEMMA UpdateOutcome ==
    ASSUME LifecycleInv, NEW o \in Objects, NEW pc \in {"mark", "owned", "idle"}, Update(o, pc)
    PROVE  \/ op.cr \in queue'
           \/ pending' # {}
           \/ /\ o = server.objs[op.cr] /\ server.objs[op.cr].exists
              /\ op' = Goto(pc) /\ UNCHANGED <<server, pending, queue>>
BY DEF Update, Reply, Abort, Write

\* A pass that reconciles a CR has a copy without a deletion timestamp.
LEMMA LiveStep ==
    ASSUME LifecycleInv, LiveInv, [Next]_vars
    PROVE  LiveInv'
<1> USE DEF LifecycleInv
<1> DEFINE Live == {"finalizer", "mark", "owned", "reconcile", "status"}
<1>0. op \in Passes /\ op.cr \in CRs /\ op.held \in Objects
  BY HeldType DEF TypeOK
<1>1. CASE op' = Idle \/ op'.pc \notin Live
  BY <1>1, IdleType DEF LiveInv
<1>2. CASE op'.held = op.held /\ op.pc \in Live
  BY <1>2 DEF LiveInv
<1>3. CASE op' = op
  BY <1>3 DEF LiveInv
<1>4. ASSUME NEW c \in CRs, ListCRs(c) PROVE LiveInv'
  <2>1. op'.pc = "get"
    BY <1>4, IdleType DEF ListCRs, Passes
  <2> QED
    BY <1>1, <2>1
<1>5. CASE GetCR
  <2>1. \/ op' = Idle
        \/ op'.pc = "cleanup"
        \/ op'.held = cache.objs[op.cr] /\ ~cache.objs[op.cr].del
    BY <1>0, <1>5 DEF GetCR, Passes
  <2> QED
    BY <1>1, <2>1 DEF LiveInv
<1>6. ASSUME NEW o \in Objects, NEW pc \in {"mark", "owned", "idle"}, Update(o, pc), o.del = op.held.del,
             op.pc \in Live
      PROVE  LiveInv'
  <2>1. ~o.del
    BY <1>6 DEF LiveInv
  <2>2. \/ op' = Idle
        \/ op'.held = op.held
        \/ op'.held = Stored(op.cr, o).objs[op.cr]
    BY <1>0, <1>6, UpdateCases DEF Passes
  <2>3. Stored(op.cr, o).objs[op.cr].del = o.del
    BY <1>0, <1>6, StoredFields DEF TypeOK
  <2> QED
    BY <1>1, <1>2, <1>6, <2>1, <2>2, <2>3 DEF LiveInv
<1>7. CASE addFinalizer \/ MarkDeploying \/ \E b \in BOOLEAN : FinishPass(b)
  <2>1. op.pc \in Live
    BY <1>7 DEF addFinalizer, MarkDeploying, FinishPass
  <2>2. /\ [op.held EXCEPT !.fin = TRUE].del = op.held.del
        /\ [op.held EXCEPT !.dep = TRUE].del = op.held.del
        /\ [op.held EXCEPT !.obs = TRUE].del = op.held.del
    BY <1>0 DEF Objects
  <2>3. (op' = Goto("mark") \/ op' = Goto("owned")) => op'.held = op.held
    BY <1>0 DEF Goto, Passes
  <2> QED
    BY <1>1, <1>2, <1>6, <1>7, <2>1, <2>2, <2>3, HeldType DEF addFinalizer, MarkDeploying, FinishPass
<1>8. CASE ReconcileOwned
  <2>1. op' = Idle \/ op'.held = op.held
    BY <1>8, ReplyMoves DEF ReconcileOwned, Labels
  <2> QED
    BY <1>1, <1>2, <1>8, <2>1 DEF ReconcileOwned
<1>9. CASE ReconcileNext
  <2>1. op' = Idle \/ op'.held = op.held
    BY <1>0, <1>9 DEF ReconcileNext, SkipUnserved, DeleteUnwanted, KeepFound, CreateMissing, Reply, Abort, Passes
  <2> QED
    BY <1>1, <1>2, <1>9, <2>1 DEF ReconcileNext
<1>10. CASE DeleteNext
  <2>1. op' = Idle \/ op'.pc \in {"delete", "remove"}
    BY <1>0, <1>10 DEF DeleteNext, Reply, Abort, Passes
  <2> QED
    BY <1>1, <2>1
<1>11. ASSUME NEW finished \in BOOLEAN, reconcileCleanup(finished) PROVE LiveInv'
  <2>1. op' = Idle \/ op'.pc = "delete"
    BY <1>0, <1>11 DEF reconcileCleanup, Reply, Abort, Passes
  <2> QED
    BY <1>1, <2>1
<1>12. CASE RemoveFinalizer \/ CallFails \/ Restart
  <2>1. op' = Idle \/ op'.pc = "idle"
    BY <1>0, <1>12, UpdateCases, GoneType DEF RemoveFinalizer, CallFails, Restart, Abort, Passes
  <2> QED
    BY <1>1, <2>1
<1>13. CASE Watches \/ Users \/ UNCHANGED vars
  <2>1. op' = op
    BY <1>13 DEF vars, Watches, DeliverCR, DeliverKind, Users, CreateCR, EditCR, DeleteCR, Drift
  <2> QED
    BY <1>3, <2>1
<1> QED
  BY <1>4, <1>5, <1>7, <1>8, <1>9, <1>10, <1>11, <1>12, <1>13 DEF Next, Reconcile

\* The objects a pass over a live CR visits are all the managed objects.
LEMMA CreateOrderComplete == \A r \in Resources : \E j \in 1..9 : CreateOrder[j] = r
<1>1. /\ CreateOrder[1] = "ClusterRole" /\ CreateOrder[2] = "ClusterRoleCsi"
      /\ CreateOrder[3] = "ClusterRoleBindingCsi" /\ CreateOrder[4] = "ClusterRoleBinding"
      /\ CreateOrder[5] = "RoleCsi" /\ CreateOrder[6] = "CSIDriver"
      /\ CreateOrder[7] = "SCC" /\ CreateOrder[8] = "SCCCsi" /\ CreateOrder[9] = "Prometheus"
  BY DEF CreateOrder
<1> QED
  BY <1>1 DEF Resources, LegacyResources

\* When reconcileUpdate has visited an object without an error, it is settled: it found it
\* in a cache that is current for it, or has just made it or taken it away.
LEMMA VisitSettles ==
    ASSUME RestInv, ReconcileNext, op.cr \notin queue'
    PROVE  /\ LET r == CreateOrder[op.k]
              IN (r \in res' <=> r \in Desired(op.held.legacy)) \/ KindOf[r] \in events'
           /\ op' = [op EXCEPT !.pc = IF op.k = Len(CreateOrder) THEN "status" ELSE @, !.k = @ + 1]
           /\ UNCHANGED <<server, pending, queue>>
<1> DEFINE r == CreateOrder[op.k]
           next == [op EXCEPT !.pc = IF op.k = Len(CreateOrder) THEN "status" ELSE @, !.k = @ + 1]
           L == op.held.legacy
<1>1. r \in Resources /\ op \in Passes /\ op.held \in Objects
  BY CreateOrderType, HeldType DEF RestInv, LifecycleInv, PassDone, ReconcileNext, TypeOK
<1>2. UNCHANGED <<server, pending>>
  BY DEF ReconcileNext
<1>3. ASSUME NEW p, Reply(p) PROVE op' = p /\ UNCHANGED <<queue>>
  BY <1>3 DEF Reply, Abort
<1>4. r \in Desired(L) => Served(r) /\ (L \/ r \notin LegacyResources)
  BY DEF Desired
<1>5. Served(r) /\ (L \/ r \notin LegacyResources) => r \in Desired(L)
  BY <1>1 DEF Desired
<1>6. CASE SkipUnserved(r, next)
  <2>1. op' = next /\ UNCHANGED <<queue>> /\ res' = res /\ ~Served(r)
    BY <1>6 DEF SkipUnserved
  <2>2. r \notin res /\ r \notin Desired(L)
    BY <1>4, <2>1 DEF RestInv, LifecycleInv, PassDone
  <2> QED
    BY <1>2, <2>1, <2>2
<1>7. CASE DeleteUnwanted(r, next)
  <2>1. op' = next /\ UNCHANGED <<queue>> /\ res' = res \ {r} /\ ~L /\ r \in LegacyResources
    BY <1>3, <1>7 DEF DeleteUnwanted, SetRes
  <2>2. r \notin res' /\ r \notin Desired(L)
    BY <1>4, <2>1
  <2> QED
    BY <1>2, <2>1, <2>2
<1>8. CASE KeepFound(r, next)
  <2>1. op' = next /\ UNCHANGED <<queue>> /\ res' = res /\ events' = events /\ r \in Desired(L) /\ r \in seen
    BY <1>8 DEF KeepFound
  <2>2. KindOf[r] \in events \/ r \in res
    BY <1>1, <2>1 DEF RestInv, SeenInv
  <2> QED
    BY <1>2, <2>1, <2>2
<1>9. CASE CreateMissing(r, next)
  <2>1. ~Abort
    BY DEF Abort
  <2>2. op' = next /\ UNCHANGED <<queue>> /\ res' = res \cup {r} /\ r \in Desired(L)
    BY <1>3, <1>9, <2>1 DEF CreateMissing, SetRes
  <2> QED
    BY <1>2, <2>2
<1> QED
  BY <1>6, <1>7, <1>8, <1>9 DEF ReconcileNext

\* A pass that moves on keeps the copy it works from.
LEMMA WorkMoves ==
    ASSUME RestInv, NEW c \in CRs, c \notin queue', pending' = {},
           UNCHANGED <<server, pending, queue>>, op.pc \notin {"idle", "get"}, op'.held = op.held,
           op'.pc \in {"mark", "owned", "cleanup", "delete", "remove"}
    PROVE  WorkDone(c)'
BY DEF RestInv, WorkInv, WorkDone

\* Every step keeps what a pass has done, unless it queues a request or an event.
LEMMA WorkStep ==
    ASSUME RestInv, NEW c \in CRs, CRs = {c}, [Next]_vars
    PROVE  WorkInv'
<1> USE DEF RestInv
<1> SUFFICES ASSUME c \notin queue', pending' = {} PROVE WorkDone(c)'
  BY DEF WorkInv
<1>0. /\ LifecycleInv /\ TypeOK /\ op \in Passes /\ op.cr = c /\ op.held \in Objects /\ op.k \in Nat
      /\ c \notin queue /\ pending = {} => WorkDone(c)
      /\ pending = {} => cache = server
  BY HeldType DEF LifecycleInv, TypeOK, WorkInv, CachesInv
<1>1. ASSUME NEW o \in Objects, NEW pc \in {"mark", "owned", "idle"}, Update(o, pc)
      PROVE  o = server.objs[c] /\ server.objs[c].exists /\ op' = Goto(pc) /\ UNCHANGED <<server, pending, queue>>
  BY <1>0, <1>1, UpdateOutcome
<1>2. ~Abort
  BY <1>0 DEF Abort
<1>3. ASSUME NEW p, Reply(p) PROVE op' = p /\ UNCHANGED queue
  BY <1>2, <1>3 DEF Reply
<1>4. /\ Goto("mark").pc = "mark" /\ Goto("mark").held = op.held
      /\ Goto("owned").pc = "owned" /\ Goto("owned").held = op.held /\ Goto("idle") = Idle
  BY <1>0 DEF Goto, Passes
<1>5. CASE addFinalizer \/ MarkDeploying
  <2>1. UNCHANGED <<server, pending, queue>> /\ (op' = Goto("mark") \/ op' = Goto("owned"))
    BY <1>0, <1>1, <1>5, HeldType DEF addFinalizer, MarkDeploying
  <2>2. op'.held = op.held /\ op'.pc \in {"mark", "owned"}
    BY <1>4, <2>1
  <2>3. op.pc \notin {"idle", "get"}
    BY <1>5 DEF addFinalizer, MarkDeploying
  <2> QED
    BY <2>1, <2>2, <2>3, WorkMoves
<1>6. CASE ReconcileOwned
  <2>1. op' = [op EXCEPT !.pc = "reconcile", !.k = 1] /\ UNCHANGED <<server, pending, queue>> /\ op.pc = "owned"
    BY <1>3, <1>6 DEF ReconcileOwned
  <2>2. op'.pc = "reconcile" /\ op'.k = 1 /\ op'.held = op.held
    BY <1>0, <2>1 DEF Passes
  <2>3. op.held = server.objs[c]
    BY <1>0, <2>1 DEF WorkDone
  <2> QED
    BY <2>1, <2>2, <2>3 DEF WorkDone
<1>7. CASE ReconcileNext
  <2> DEFINE L == op.held.legacy
             K(r) == (r \in res' <=> r \in Desired(L)) \/ KindOf[r] \in events'
  <2>1. /\ UNCHANGED <<server, pending, queue>> /\ K(CreateOrder[op.k])
        /\ op' = [op EXCEPT !.pc = IF op.k = Len(CreateOrder) THEN "status" ELSE @, !.k = @ + 1]
    BY <1>0, <1>7, VisitSettles
  <2>2. op.pc = "reconcile" /\ op.k \in 1..9
    BY <1>0, <1>7, CreateOrderType DEF ReconcileNext, LifecycleInv, PassDone
  <2>3. op.held = server.objs[c] /\ \A j \in 1..(op.k - 1) : Settled(CreateOrder[j], L)
    BY <1>0, <2>1, <2>2 DEF WorkDone
  <2>4. (~Watches /\ ~Restart) \/ op' = op \/ op' = Idle
    BY DEF Watches, DeliverCR, DeliverKind, Restart
  <2>5. op' # op /\ op'.pc # "idle"
    <3>1. op'.k = op.k + 1 /\ op'.pc \in {"reconcile", "status"}
      BY <1>0, <2>1, <2>2, CreateOrderType DEF Passes
    <3> QED
      BY <2>2, <3>1
  <2>6. \A x \in Resources : Settled(x, L) => K(x)
    BY <1>0, <2>4, <2>5, IdleType, ResSettled DEF Settled
  <2>7. \A j \in 1..op.k : K(CreateOrder[j])
    <3> SUFFICES ASSUME NEW j \in 1..op.k PROVE K(CreateOrder[j])
      OBVIOUS
    <3> HIDE DEF K
    <3>1. CASE j = op.k
      BY <2>1, <3>1
    <3>2. CASE j # op.k
      <4>1. j \in 1..(op.k - 1) /\ j \in 1..9
        BY <2>2, <3>2
      <4> QED
        BY <2>3, <2>6, <4>1, CreateOrderType
    <3> QED
      BY <3>1, <3>2
  <2>8. op'.held = op.held /\ op'.k = op.k + 1 /\ op'.pc \in {"reconcile", "status"}
        /\ (op'.pc = "status" => op.k = 9)
    BY <1>0, <2>1, <2>2, CreateOrderType DEF Passes
  <2>9. op'.pc = "status" => \A r \in Resources : K(r)
    <3> HIDE DEF K
    <3> QED
      BY <2>7, <2>8, CreateOrderComplete
  <2>10. \A j \in 1..(op'.k - 1) : K(CreateOrder[j])
    BY <2>2, <2>7, <2>8
  <2>11. op'.held.legacy = L /\ op'.held = server'.objs[c]
    BY <2>1, <2>3, <2>8
  <2> QED
    BY <2>8, <2>9, <2>10, <2>11 DEF WorkDone, Settled
<1>8. ASSUME NEW ready \in BOOLEAN, FinishPass(ready) PROVE WorkDone(c)'
  <2>1. UNCHANGED <<server, pending, queue>> /\ op' = Idle /\ op.pc = "status"
    BY <1>0, <1>1, <1>4, <1>8, HeldType DEF FinishPass
  <2>2. UNCHANGED <<res, events>>
    BY <1>8 DEF FinishPass
  <2>3. op.held = server.objs[c] /\ \A r \in Resources : Settled(r, op.held.legacy)
    BY <1>0, <2>1 DEF WorkDone
  <2>4. ~op.held.del
    BY <2>1 DEF LiveInv
  <2>5. \A r \in Resources : Settled(r, server.objs[c].legacy)'
    BY <2>1, <2>2, <2>3 DEF Settled
  <2> QED
    BY <2>1, <2>3, <2>4, <2>5, IdleType DEF WorkDone
<1>9. ASSUME NEW finished \in BOOLEAN, reconcileCleanup(finished) PROVE WorkDone(c)'
  <2>1. op' = [op EXCEPT !.pc = "delete", !.k = 1] /\ UNCHANGED <<server, pending, queue>> /\ op.pc = "cleanup"
    BY <1>2, <1>3, <1>9 DEF reconcileCleanup
  <2>2. op'.pc = "delete" /\ op'.held = op.held
    BY <1>0, <2>1 DEF Passes
  <2> QED
    BY <2>1, <2>2, WorkMoves
<1>10. CASE DeleteNext
  <2>1. /\ op' = [op EXCEPT !.pc = IF op.k = Len(DeleteOrder) THEN "remove" ELSE @, !.k = @ + 1]
        /\ UNCHANGED <<server, pending, queue>> /\ op.pc = "delete"
    BY <1>3, <1>10 DEF DeleteNext
  <2>2. op'.pc \in {"delete", "remove"} /\ op'.held = op.held
    BY <1>0, <2>1 DEF Passes
  <2> QED
    BY <2>1, <2>2, WorkMoves
<1>11. CASE RemoveFinalizer
  BY <1>1, <1>11, GoneType DEF RemoveFinalizer
<1>12. CASE CallFails
  BY <1>2, <1>12 DEF CallFails
<1>13. CASE Restart
  <2>1. op' = Idle /\ server' = server /\ ~server.objs[c].exists
    BY <1>13 DEF Restart, Existing
  <2> QED
    BY <2>1, IdleType DEF WorkDone
<1>14. ASSUME NEW d \in CRs, ListCRs(d) PROVE WorkDone(c)'
  <2>1. op'.pc = "get"
    BY <1>14, IdleType DEF ListCRs, Passes
  <2> QED
    BY <2>1 DEF WorkDone
<1>15. CASE GetCR
  <2>1. UNCHANGED <<server, pending, queue>> /\ cache = server
    BY <1>0, <1>15 DEF GetCR
  <2>2. \/ op' = Idle /\ ~server.objs[c].exists
        \/ op'.held = server.objs[c] /\ op'.pc \in {"cleanup", "finalizer"}
    BY <1>0, <1>15, <2>1 DEF GetCR, Passes
  <2> QED
    BY <2>1, <2>2, IdleType DEF WorkDone
<1>16. CASE DeliverCR
  BY <1>16, CachesDeliver
<1>17. ASSUME NEW kind \in Kinds, DeliverKind(kind) PROVE WorkDone(c)'
  <2>1. UNCHANGED <<server, pending, op>> /\ queue' = queue \cup mapFn /\ cache = server
    BY <1>0, <1>17 DEF DeliverKind
  <2>2. ~server.objs[c].exists
    <3> SUFFICES ASSUME server.objs[c].exists PROVE FALSE
      OBVIOUS
    <3>1. Existing(cache) = {c}
      BY <2>1 DEF Existing
    <3>2. mapFn = {c}
      BY <3>1, FS_Singleton DEF mapFn
    <3> QED
      BY <2>1, <3>2
  <2>3. op.pc \in {"idle", "get"}
    <3>1. op.pc \notin {"idle", "get"} => op.held = server.objs[c] /\ op.held.exists
      BY <1>0, <2>1 DEF WorkDone, LifecycleInv, PassKnows
    <3> QED
      BY <2>2, <3>1
  <2> QED
    BY <2>1, <2>2, <2>3 DEF WorkDone
<1>18. ASSUME NEW r \in Resources, Drift(r) PROVE WorkDone(c)'
  <2>1. UNCHANGED <<server, pending, queue, op>>
    BY <1>18 DEF Drift
  <2>2. SetRes(res \ {r}, r) /\ (res \ {r}) \ {r} = res \ {r}
    BY <1>18 DEF Drift
  <2>3. \A x \in Resources : \A legacy : Settled(x, legacy) => Settled(x, legacy)'
    BY <1>0, <2>2, SetResSettled, Zenon
  <2>4. op.pc = "reconcile" => \A j \in 1..(op.k - 1) : CreateOrder[j] \in Resources
    BY <1>0, CreateOrderType DEF LifecycleInv, PassDone
  <2>5. WorkDone(c)
    BY <1>0, <2>1
  <2>6. UNCHANGED <<server.objs[c].legacy, op.held.legacy, op.pc, op.k>>
    BY <2>1
  <2> QED
    BY <2>1, <2>3, <2>4, <2>5 DEF WorkDone, Settled
<1>19. ASSUME NEW d \in CRs, NEW o, Write(d, o) PROVE FALSE
  BY <1>19 DEF Write
<1>20. CASE \E d \in CRs : (\E legacy \in BOOLEAN : CreateCR(d, legacy)) \/ EditCR(d) \/ DeleteCR(d)
  BY <1>19, <1>20 DEF CreateCR, EditCR, DeleteCR
<1>21. CASE UNCHANGED vars
  BY <1>0, <1>21 DEF vars, WorkDone, Settled
<1> QED
  BY <1>5, <1>6, <1>7, <1>8, <1>9, <1>10, <1>11, <1>12, <1>13, <1>14, <1>15, <1>16, <1>17, <1>18, <1>20, <1>21
     DEF Next, Reconcile, Watches, Users

\* At the start there is no CR, no object and no event.
LEMMA RestInit == Init => RestInv
<1> SUFFICES ASSUME Init PROVE RestInv
  OBVIOUS
<1>1. Known = {server} /\ server.ver = 0 /\ \A c \in CRs : server.objs[c] = Gone(0)
  BY DEF Init, Known
<1>2. CachesInv
  BY <1>1, GoneType DEF Init, CachesInv
<1>3. SeenInv /\ LiveInv
  BY IdleType DEF Init, SeenInv, LiveInv
<1>4. WorkInv
  BY <1>1, GoneType, IdleType DEF Init, WorkInv, WorkDone
<1> QED
  BY <1>2, <1>3, <1>4, InitInv DEF RestInv

\* When the operator of a cluster with one CR comes to rest, the cluster is what the CR, or
\* its absence, asks for: for any number of edits, drifts, faults and restarts, and any way
\* the informers of the managed kinds run ahead of each other.
THEOREM RestIsConverged ==
    ASSUME NEW c, CRs = {c}
    PROVE  Spec => []RestsConverged
<1>0. c \in CRs
  OBVIOUS
<1>1. RestInv /\ [Next]_vars => RestInv'
  <2> SUFFICES ASSUME RestInv, [Next]_vars PROVE RestInv'
    OBVIOUS
  <2>1. LifecycleInv'
    BY StepInv DEF RestInv
  <2>2. CachesInv' /\ SeenInv' /\ LiveInv' /\ WorkInv'
    BY <1>0, CachesStep, SeenStep, LiveStep, WorkStep DEF RestInv
  <2> QED
    BY <2>1, <2>2 DEF RestInv
<1>2. RestInv => RestsConverged
  <2> SUFFICES ASSUME RestInv, Quiescent PROVE InDesiredState
    BY DEF RestsConverged
  <2>1. WorkDone(c) /\ op.pc = "idle" /\ events = {}
    BY <1>0, IdleType DEF RestInv, WorkInv, Quiescent
  <2>2. CASE server.objs[c].exists
    <3>1. Existing(server) = {c}
      BY <2>2 DEF Existing
    <3>2. \A r \in Resources : r \in res <=> r \in Desired(server.objs[c].legacy)
      BY <2>1, <2>2 DEF WorkDone, Settled
    <3>3. res \subseteq Resources /\ Desired(server.objs[c].legacy) \subseteq Resources
      BY DEF RestInv, LifecycleInv, TypeOK, Desired
    <3>4. res = Desired(server.objs[c].legacy)
      BY <3>2, <3>3
    <3> QED
      BY <1>0, <3>1, <3>4 DEF InDesiredState
  <2>3. CASE ~server.objs[c].exists
    <3>1. Existing(server) = {} /\ res = {}
      BY <2>3 DEF Existing, RestInv, LifecycleInv, NoOrphans
    <3> QED
      BY <3>1 DEF InDesiredState
  <2> QED
    BY <2>2, <2>3
<1> QED
  BY <1>1, <1>2, RestInit, PTL DEF Spec

=============================================================================
