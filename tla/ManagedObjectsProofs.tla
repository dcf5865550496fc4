------------------------ MODULE ManagedObjectsProofs ------------------------
(***************************************************************************)
(* What holds of the managed objects whichever of them users change and    *)
(* however often: types, and that no write of the operator loses a label a *)
(* user has added.                                                         *)
(***************************************************************************)
EXTENDS ManagedObjects, TLAPS

-----------------------------------------------------------------------------
(* Operators.                                                              *)

LEMMA AbsentType == Absent \in Contents /\ ~Absent.ex /\ ~Absent.mine
BY DEF Absent, Contents

LEMMA OrderFacts == Len(Order) = 18 /\ Len(RemovalOrder) = 14
BY DEF Order, RemovalOrder

\* The objects a pass visits are managed objects.
LEMMA OrderObjs ==
    /\ \A k \in 1..Len(Order) : Order[k] \in Objs
    /\ DaemonSets \subseteq Objs /\ Accounts \subseteq Objs
<1>1. \A k \in 1..Len(Order) : Order[k] \in Objs
  BY DEF Objs
<1>2. Order[1] = "DaemonSet" /\ Order[2] = "DaemonSetCsi" /\ Order[3] = "ServiceAccount"
      /\ Order[4] = "ServiceAccountCsi"
  BY DEF Order
<1>. QED  BY <1>1, <1>2, OrderFacts DEF DaemonSets, Accounts

LEMMA IdleType == Idle \in Passes /\ Idle.pc = "idle"
BY AbsentType, OrderFacts DEF Idle, Passes, NoCR

CRs == [ex : BOOLEAN, del : BOOLEAN, legacy : BOOLEAN, snap : BOOLEAN]

\* A record with other values in some of its fields.
LEMMA FieldTypes ==
    ASSUME NEW a \in BOOLEAN, NEW b \in BOOLEAN
    PROVE  /\ \A c \in Contents : /\ [c EXCEPT !.anno = a] \in Contents
                                  /\ [c EXCEPT !.mine = a] \in Contents
                                  /\ [c EXCEPT !.ex = a, !.imm = b, !.mine = a] \in Contents
                                  /\ [c EXCEPT !.ex = a, !.imm = b, !.mine = a].ex = a
           /\ \A c \in CRs : [c EXCEPT !.ex = a, !.legacy = b] \in CRs
BY DEF Contents, CRs

LEMMA NoCRType == NoCR \in CRs
BY DEF NoCR, CRs

LEMMA DesiredType ==
    ASSUME version \in 1..2, NEW o, NEW c \in CRs
    PROVE  Desired(o, c) \in Contents
<1>1. (c.snap /\ o \in Gated) \in BOOLEAN /\ (version = 1) \in BOOLEAN
  BY DEF CRs
<1>2. version \in 0..2
  OBVIOUS
<1>. QED  BY <1>1, <1>2 DEF Desired, Contents

\* What users have added stays in whatever is merged.
LEMMA MergeKeeps ==
    ASSUME NEW o, NEW desired \in Contents, NEW found \in Contents
    PROVE  /\ merge(o, desired, found) \in Contents
           /\ merge(o, desired, found).mine = found.mine
           /\ desired.ex /\ found.ex => merge(o, desired, found).ex
<1>. DEFINE labelled == mergeLabelsAndAnnotations(desired, found)
            fixed == copyImmutableFields(desired, found)
<1>1. labelled \in Contents /\ labelled.mine = found.mine
  BY DEF mergeLabelsAndAnnotations, Contents
<1>2. fixed \in Contents /\ fixed.ex = desired.ex
  BY DEF copyImmutableFields, Contents
<1>3. ASSUME NEW d \in Contents, NEW f \in Contents
      PROVE  /\ mergeObject(d, f) \in Contents /\ mergeObject(d, f).mine = f.mine
             /\ mergeObject(d, f).ex = d.ex
  <2>. DEFINE old == f.old \/ d.old
              tied == f.tied \/ d.tied
  <2>1. old \in BOOLEAN /\ tied \in BOOLEAN
    BY DEF Contents
  <2>2. mergeObject(d, f) = [d EXCEPT !.old = old, !.mine = f.mine, !.tied = tied]
    BY DEF mergeObject
  <2>. HIDE DEF old, tied
  <2>. QED  BY <2>1, <2>2 DEF Contents
<1>. HIDE DEF labelled, fixed
<1>4. CASE o \in DaemonSets
  <2>1. merge(o, desired, found) = [desired EXCEPT !.mine = found.mine, !.tied = found.tied]
    BY <1>4 DEF merge, DaemonSets
  <2>. QED  BY <2>1 DEF Contents
<1>5. CASE o = "PrometheusRule"
  BY <1>5 DEF merge, DaemonSets
<1>6. CASE o = "CSIDriver"
  <2>1. merge(o, desired, found) = mergeObject(fixed, labelled)
    BY <1>6 DEF merge, DaemonSets, fixed, labelled
  <2>. QED  BY <1>1, <1>2, <1>3, <2>1
<1>7. CASE o \notin DaemonSets \cup {"PrometheusRule", "CSIDriver"}
  <2>1. merge(o, desired, found) = mergeObject(desired, labelled)
    BY <1>7 DEF merge, labelled
  <2>. QED  BY <1>1, <1>3, <2>1
<1>. QED  BY <1>4, <1>5, <1>6, <1>7

PodStates == [cred : {"none", "live", "dead"}, avail : BOOLEAN]

LEMMA PodsAfterType ==
    ASSUME pods \in [DaemonSets -> PodStates], NEW o, NEW s
    PROVE  PodsAfter(o, s) \in [DaemonSets -> PodStates]
<1>. SUFFICES ASSUME NEW d \in DaemonSets
              PROVE  PodsAfter(o, s)[d] \in PodStates
  BY DEF PodsAfter
<1>1. CASE o = d /\ ~s.ex
  <2>1. o # AccountOf(d)
    BY <1>1 DEF DaemonSets, AccountOf
  <2>2. PodsAfter(o, s)[d] = [cred |-> "none", avail |-> FALSE]
    BY <1>1, <2>1 DEF PodsAfter
  <2>. QED  BY <2>2 DEF PodStates
<1>2. CASE ~(o = d /\ ~s.ex) /\ o = AccountOf(d) /\ ~s.ex /\ pods[d].cred = "live"
  <2>1. PodsAfter(o, s)[d] = [pods[d] EXCEPT !.cred = "dead"]
    BY <1>2 DEF PodsAfter
  <2>. QED  BY <2>1 DEF PodStates
<1>3. CASE ~(o = d /\ ~s.ex) /\ ~(o = AccountOf(d) /\ ~s.ex /\ pods[d].cred = "live")
  <2>1. PodsAfter(o, s)[d] = pods[d]
    BY <1>3 DEF PodsAfter
  <2>. QED  BY <2>1
<1>. QED  BY <1>1, <1>2, <1>3

-----------------------------------------------------------------------------
(* Types.  That a pass stays within the lists of objects needs to know in  *)
(* which of the two lists it is.                                           *)

\* A pass is at work only while there is a CR, and within the list it goes through.
PlaceInv ==
    /\ op.pc # "idle" => cr.ex
    /\ op.pc = "remove" => op.k <= Len(RemovalOrder)

TypeInv == TypeOK /\ PlaceInv

\* The objects a deletion goes through are managed objects.
LEMMA RemovalObjs == \A k \in 1..Len(RemovalOrder) : RemovalOrder[k] \in Objs
<1>1. /\ Order[5] = "ClusterRole"     /\ Order[6] = "ClusterRoleCsi" /\ Order[7] = "ClusterRoleBindingCsi"
      /\ Order[8] = "ClusterRoleBinding" /\ Order[9] = "Role"        /\ Order[10] = "RoleBinding"
      /\ Order[11] = "CSIDriver"      /\ Order[12] = "SCC"           /\ Order[13] = "SCCCsi"
      /\ Order[14] = "PrometheusRule" /\ Order[15] = "PrometheusRole"
      /\ Order[16] = "PrometheusRoleBinding" /\ Order[17] = "PrometheusService"
      /\ Order[18] = "ServiceMonitor"
  BY DEF Order
<1>2. /\ "ClusterRole" \in Objs /\ "ClusterRoleCsi" \in Objs /\ "ClusterRoleBindingCsi" \in Objs
      /\ "ClusterRoleBinding" \in Objs /\ "Role" \in Objs /\ "RoleBinding" \in Objs
      /\ "CSIDriver" \in Objs /\ "SCC" \in Objs /\ "SCCCsi" \in Objs
      /\ "PrometheusRule" \in Objs /\ "PrometheusRole" \in Objs
      /\ "PrometheusRoleBinding" \in Objs /\ "PrometheusService" \in Objs
      /\ "ServiceMonitor" \in Objs
  BY <1>1, OrderFacts, OrderObjs
<1>3. \A k \in 1..14 : k \in {1, 2, 3, 4, 5, 6, 7, 8, 9, 10, 11, 12, 13, 14}
  OBVIOUS
<1>. QED  BY <1>2, <1>3, OrderFacts DEF RemovalOrder

\* A pass that goes on to the next object stays within the list, or ends.
LEMMA NextObjectType ==
    ASSUME op \in Passes
    PROVE  NextObject \in Passes /\ NextObject.pc \in {"idle", "dups", "get"}
<1>1. CASE op.k = Len(Order)
  BY <1>1, IdleType DEF NextObject
<1>2. CASE op.k # Len(Order)
  <2>1. op.k + 1 \in 1..Len(Order)
    BY <1>2, OrderFacts DEF Passes
  <2>2. NextObject = [op EXCEPT !.k = op.k + 1, !.pc = IF op.k = 2 THEN "dups" ELSE "get",
                                !.held = Absent, !.stale = FALSE]
    BY <1>2 DEF NextObject
  <2>. QED  BY <2>1, <2>2, AbsentType DEF Passes
<1>. QED  BY <1>1, <1>2

LEMMA StoreType ==
    ASSUME TypeOK, NEW o \in Objs, NEW s \in Contents, Store(o, s)
    PROVE  stored' \in [Objs -> Contents] /\ pods' \in [DaemonSets -> PodStates]
BY PodsAfterType DEF TypeOK, Store, PodStates

LEMMA NoticedType ==
    ASSUME TypeOK, NEW o \in Objs, NEW s \in Contents
    PROVE  Noticed(o, s) \in BOOLEAN
BY Zenon DEF TypeOK, Noticed

\* The variables that one visit of an object changes.
Visited ==
    /\ stored' \in [Objs -> Contents] /\ pods' \in [DaemonSets -> PodStates]
    /\ request' \in BOOLEAN /\ op' \in Passes /\ op'.pc \in {"idle", "dups", "get", "put", "pods"}

\* Every step of a visit to an object keeps the types.
LEMMA VisitTypes ==
    ASSUME TypeOK, Visit
    PROVE  Visited
<1>. DEFINE o == Order[op.k]
<1>0. /\ op \in Passes /\ op.k \in 1..Len(Order) /\ o \in Objs /\ op.cr \in CRs /\ op.held \in Contents
      /\ stored \in [Objs -> Contents] /\ pods \in [DaemonSets -> PodStates] /\ version \in 1..2
      /\ request \in BOOLEAN
  BY OrderObjs DEF TypeOK, Passes, CRs, PodStates
<1>1. Desired(o, op.cr) \in Contents
  BY <1>0, DesiredType
<1>2. Idle \in Passes /\ Idle.pc = "idle" /\ Absent \in Contents
  BY IdleType, AbsentType
<1>3. NextObject \in Passes /\ NextObject.pc \in {"idle", "dups", "get"}
  BY <1>0, NextObjectType
<1>4. ASSUME Abort, UNCHANGED <<stored, pods>> PROVE Visited
  <2>1. request' \in BOOLEAN
    BY <1>4, Zenon DEF Abort
  <2>. QED  BY <1>0, <1>2, <1>4, <2>1 DEF Abort, Visited
<1>5. ASSUME NEW s \in Contents, Store(o, s), op' = NextObject, request' = Noticed(o, s) PROVE Visited
  BY <1>0, <1>3, <1>5, StoreType, NoticedType DEF Visited
<1>. HIDE DEF o
<1>6. CASE DeleteUnwanted(o)
  BY <1>2, <1>4, <1>5, <1>6 DEF DeleteUnwanted
<1>7. CASE Get(o)
  <2>1. op' = [op EXCEPT !.pc = "put", !.held = stored[o]] /\ UNCHANGED <<stored, pods, request>>
    BY <1>7 DEF Get
  <2>2. op' \in Passes /\ op'.pc = "put"
    BY <1>0, <2>1 DEF Passes
  <2>. QED  BY <1>0, <2>1, <2>2 DEF Visited
<1>8. CASE Create(o)
  <2>1. CASE stored[o].ex \/ ~May("create", o) \/ ~MayGrant(o)
    BY <1>4, <1>8, <2>1 DEF Create
  <2>2. CASE ~(stored[o].ex \/ ~May("create", o) \/ ~MayGrant(o))
    <3>1. /\ Store(o, Desired(o, op.cr)) /\ request' = Noticed(o, Desired(o, op.cr))
          /\ op' = IF o \in Accounts THEN [op EXCEPT !.pc = "pods", !.held = Absent] ELSE NextObject
      BY <1>8, <2>2 DEF Create
    <3>2. op' \in Passes /\ op'.pc \in {"idle", "dups", "get", "pods"}
      BY <1>0, <1>2, <1>3, <3>1 DEF Passes
    <3>. QED  BY <1>0, <1>1, <3>1, <3>2, StoreType, NoticedType DEF Visited
  <2>. QED  BY <2>1, <2>2
<1>9. CASE deleteRunningPodsWithSa(o)
  <2>1. PICK d \in DaemonSets :
          IF stored[d].ex /\ pods[d].avail
          THEN Store(d, Absent) /\ request' = Noticed(d, Absent)
          ELSE UNCHANGED <<stored, pods, request>>
    BY <1>9 DEF deleteRunningPodsWithSa
  <2>2. op' = NextObject /\ d \in Objs
    BY <1>9, OrderObjs DEF deleteRunningPodsWithSa
  <2>3. CASE Store(d, Absent) /\ request' = Noticed(d, Absent)
    BY <1>2, <1>3, <2>2, <2>3, StoreType, NoticedType DEF Visited
  <2>4. CASE UNCHANGED <<stored, pods, request>>
    BY <1>0, <1>3, <2>2, <2>4 DEF Visited
  <2>. QED  BY <2>1, <2>3, <2>4
<1>10. CASE DeleteJunk(o)
  <2>1. op' = Idle /\ request' \in BOOLEAN
    BY <1>10, Zenon DEF DeleteJunk, Abort
  <2>2. CASE Store(o, Absent)
    BY <1>0, <1>2, <2>1, <2>2, StoreType DEF Visited
  <2>3. CASE UNCHANGED <<stored, pods>>
    BY <1>0, <1>2, <2>1, <2>3 DEF Visited
  <2>. QED  BY <1>10, <2>2, <2>3 DEF DeleteJunk
<1>11. CASE Merge(o)
  <2>. DEFINE merged == merge(o, Desired(o, op.cr), op.held)
  <2>1. merged \in Contents
    BY <1>0, <1>1, MergeKeeps
  <2>2. \/ Abort /\ UNCHANGED <<stored, pods>>
        \/ op' = NextObject /\ UNCHANGED <<stored, pods, request>>
        \/ Store(o, merged) /\ op' = NextObject /\ request' = Noticed(o, merged)
    BY <1>11 DEF Merge
  <2>. HIDE DEF merged
  <2>3. CASE op' = NextObject /\ UNCHANGED <<stored, pods, request>>
    BY <1>0, <1>3, <2>3 DEF Visited
  <2>. QED  BY <1>4, <1>5, <2>1, <2>2, <2>3
<1>. QED  BY <1>6, <1>7, <1>8, <1>9, <1>10, <1>11 DEF Visit, o

\* What a user does to an object keeps the types.
LEMMA UserTypes ==
    ASSUME TypeOK, NEW o \in Objs, NEW s \in Contents, UserChanges(o, s)
    PROVE  TypeOK' /\ op'.pc = op.pc /\ op'.k = op.k
<1>1. stored' \in [Objs -> Contents] /\ pods' \in [DaemonSets -> PodStates]
  BY StoreType DEF UserChanges
<1>. DEFINE stale == op.stale \/ (op.pc = "put" /\ Order[op.k] = o)
<1>2. op' = [op EXCEPT !.stale = stale] /\ stale \in BOOLEAN /\ op \in Passes
  BY DEF UserChanges, TypeOK, Passes
<1>3. op' \in Passes /\ op'.pc = op.pc /\ op'.k = op.k
  <2>. HIDE DEF stale
  <2>. QED  BY <1>2 DEF Passes
<1>4. request' \in BOOLEAN
  BY Zenon DEF UserChanges, TypeOK
<1>5. events' \in 0..MaxEvents
  BY EventAssumption DEF UserChanges, TypeOK
<1>. QED  BY <1>1, <1>3, <1>4, <1>5 DEF UserChanges, TypeOK, PodStates

\* Every change that users make to an object.
LEMMA UserCases ==
    ASSUME TypeOK, NEW o \in Objs, Edit(o) \/ Delete(o) \/ Recreate(o)
    PROVE  \E s \in Contents : UserChanges(o, s) /\ (s.mine => s.ex)
<1>0. stored[o] \in Contents
  BY DEF TypeOK
<1>1. CASE Edit(o)
  <2>. DEFINE drift == [stored[o] EXCEPT !.ver = 0]
              bare == [stored[o] EXCEPT !.anno = FALSE]
              owned == [stored[o] EXCEPT !.mine = TRUE]
  <2>1. stored[o].ex
    BY <1>1 DEF Edit
  <2>2. drift \in Contents /\ bare \in Contents /\ owned \in Contents
    <3>1. drift \in Contents
      BY <1>0 DEF Contents
    <3>2. \A b \in BOOLEAN : /\ [stored[o] EXCEPT !.anno = b] \in Contents
                             /\ [stored[o] EXCEPT !.mine = b] \in Contents
      BY <1>0, FieldTypes, Zenon
    <3>. QED  BY <3>1, <3>2, Zenon
  <2>3. drift.ex /\ bare.ex /\ owned.ex
    BY <1>0, <2>1 DEF Contents
  <2>4. UserChanges(o, drift) \/ UserChanges(o, bare) \/ UserChanges(o, owned)
    BY <1>1 DEF Edit
  <2>. QED  BY <2>2, <2>3, <2>4
<1>2. CASE Delete(o)
  BY <1>2, AbsentType DEF Delete
<1>3. CASE Recreate(o)
  <2>1. PICK imm \in BOOLEAN : UserChanges(o, [Absent EXCEPT !.ex = TRUE, !.imm = imm, !.mine = TRUE])
    BY <1>3 DEF Recreate
  <2>2. /\ [Absent EXCEPT !.ex = TRUE, !.imm = imm, !.mine = TRUE] \in Contents
        /\ [Absent EXCEPT !.ex = TRUE, !.imm = imm, !.mine = TRUE].ex
    <3>1. \A a \in BOOLEAN : /\ [Absent EXCEPT !.ex = a, !.imm = imm, !.mine = a] \in Contents
                             /\ [Absent EXCEPT !.ex = a, !.imm = imm, !.mine = a].ex = a
      BY FieldTypes, AbsentType, Zenon
    <3>. QED  BY <3>1, Zenon
  <2>. QED  BY <2>1, <2>2
<1>. QED  BY <1>1, <1>2, <1>3

LEMMA InitType == Init => TypeInv
<1>. SUFFICES ASSUME Init PROVE TypeInv
  OBVIOUS
<1>1. PICK legacy \in BOOLEAN : cr = [NoCR EXCEPT !.ex = TRUE, !.legacy = legacy]
  BY DEF Init
<1>2. cr \in CRs /\ version \in 1..2
  <2>1. \A a \in BOOLEAN : [NoCR EXCEPT !.ex = a, !.legacy = legacy] \in CRs
    BY NoCRType, FieldTypes, Zenon
  <2>2. cr \in CRs
    BY <1>1, <2>1, Zenon
  <2>. QED  BY <2>2 DEF Init
<1>3. stored \in [Objs -> Contents]
  BY <1>2, DesiredType, AbsentType DEF Init
<1>4. pods \in [DaemonSets -> PodStates]
  BY DEF Init, PodStates
<1>5. request \in BOOLEAN
  BY Zenon DEF Init
<1>. QED
  BY <1>2, <1>3, <1>4, <1>5, IdleType, EventAssumption
     DEF Init, TypeInv, TypeOK, PlaceInv, CRs, PodStates

\* Every step keeps the types and the place of the pass.
LEMMA TypeStep == TypeInv /\ [Next]_vars => TypeInv'
<1>. SUFFICES ASSUME TypeInv, [Next]_vars PROVE TypeInv'
  OBVIOUS
<1>0. TypeOK /\ op \in Passes /\ cr \in CRs /\ Idle \in Passes /\ Idle.pc = "idle" /\ request \in BOOLEAN
      /\ pods \in [DaemonSets -> PodStates]
  BY IdleType DEF TypeInv, TypeOK, CRs, PodStates
<1>1. ASSUME GetCR PROVE TypeInv'
  <2>1. CASE ~cr.ex
    <3>1. op' = Idle /\ request' \in BOOLEAN
      BY <1>1, <2>1, Zenon DEF GetCR
    <3>. QED  BY <1>0, <1>1, <3>1 DEF GetCR, TypeInv, TypeOK, PlaceInv
  <2>2. CASE cr.ex
    <3>. DEFINE pc == IF cr.del THEN "remove" ELSE "dups"
    <3>1. op' = [Idle EXCEPT !.pc = pc, !.cr = cr]
      BY <1>1, <2>2 DEF GetCR
    <3>2. pc \in {"remove", "dups"}
      OBVIOUS
    <3>. HIDE DEF pc
    <3>3. op' \in Passes /\ op'.k = 1
      BY <1>0, <3>1, <3>2 DEF Passes, Idle, CRs
    <3>4. request' \in BOOLEAN
      BY <1>1, Zenon DEF GetCR
    <3>. QED  BY <1>1, <2>2, <3>3, <3>4, OrderFacts DEF GetCR, TypeInv, TypeOK, PlaceInv
  <2>. QED  BY <1>0, <2>1, <2>2
<1>2. ASSUME DeleteDuplicates PROVE TypeInv'
  <2>1. dups' \subseteq Duplicates
    BY <1>0, <1>2 DEF DeleteDuplicates, TypeOK
  <2>2. CASE Abort
    <3>1. op' = Idle /\ request' \in BOOLEAN
      BY <2>2, Zenon DEF Abort
    <3>. QED  BY <1>0, <1>2, <2>1, <3>1 DEF DeleteDuplicates, TypeInv, TypeOK, PlaceInv
  <2>3. CASE op' = [op EXCEPT !.pc = "get"] /\ UNCHANGED request
    <3>1. op' \in Passes /\ op'.pc = "get" /\ op.pc = "dups"
      BY <1>0, <1>2, <2>3 DEF Passes, DeleteDuplicates
    <3>. QED  BY <1>2, <2>1, <2>3, <3>1 DEF DeleteDuplicates, TypeInv, TypeOK, PlaceInv
  <2>. QED  BY <1>2, <2>2, <2>3 DEF DeleteDuplicates
<1>3. ASSUME Visit PROVE TypeInv'
  <2>1. Visited /\ UNCHANGED <<dups, cr, version, events>>
    BY <1>0, <1>3, VisitTypes DEF Visit
  <2>2. op.pc # "idle"
    BY <1>3 DEF Visit, DeleteUnwanted, Get, Create, deleteRunningPodsWithSa, DeleteJunk, Merge
  <2>. QED  BY <2>1, <2>2 DEF Visited, TypeInv, TypeOK, PlaceInv, PodStates
<1>4. ASSUME RemoveNext PROVE TypeInv'
  <2>. DEFINE o == RemovalOrder[op.k]
  <2>1. op.pc = "remove" /\ op.k \in 1..Len(RemovalOrder) /\ o \in Objs /\ cr.ex
    BY <1>0, <1>4, RemovalObjs DEF RemoveNext, TypeInv, PlaceInv, Passes
  <2>2. CASE May("delete", o)
    <3>1. /\ Store(o, Absent) /\ request' = Noticed(o, Absent)
          /\ op' = IF op.k = Len(RemovalOrder) THEN [op EXCEPT !.pc = "release"]
                   ELSE [op EXCEPT !.k = op.k + 1]
      BY <1>4, <2>2 DEF RemoveNext
    <3>2. op' \in Passes /\ (op'.pc = "remove" => op'.k <= Len(RemovalOrder))
      BY <1>0, <2>1, <3>1, OrderFacts DEF Passes
    <3>3. stored' \in [Objs -> Contents] /\ pods' \in [DaemonSets -> PodStates] /\ request' \in BOOLEAN
      <4>. HIDE DEF o
      <4>. QED  BY <1>0, <2>1, <3>1, StoreType, NoticedType, AbsentType
    <3>. QED  BY <1>4, <2>1, <3>2, <3>3 DEF RemoveNext, TypeInv, TypeOK, PlaceInv, PodStates
  <2>3. CASE ~May("delete", o)
    <3>1. op' = Idle /\ request' \in BOOLEAN /\ UNCHANGED <<stored, pods>>
      BY <1>4, <2>3, Zenon DEF RemoveNext, Abort
    <3>. QED  BY <1>0, <1>4, <3>1 DEF RemoveNext, TypeInv, TypeOK, PlaceInv
  <2>. QED  BY <2>2, <2>3
<1>5. ASSUME Release PROVE TypeInv'
  <2>1. op' = Idle /\ request' \in BOOLEAN /\ cr' \in {cr, NoCR}
    BY <1>5, Zenon DEF Release, Abort
  <2>2. cr' \in CRs
    BY <1>0, <2>1, NoCRType
  <2>. QED  BY <1>0, <1>5, <2>1, <2>2 DEF Release, TypeInv, TypeOK, PlaceInv, CRs
<1>6. ASSUME CallFails \/ Restart PROVE TypeInv'
  <2>1. op' = Idle
    BY <1>6 DEF CallFails, Restart, Abort
  <2>2. request' \in BOOLEAN
    <3>1. CASE CallFails
      BY <3>1, Zenon DEF CallFails, Abort
    <3>2. CASE Restart
      BY <1>0, <3>2 DEF Restart, CRs
    <3>. QED  BY <1>6, <3>1, <3>2
  <2>3. events' \in 0..MaxEvents /\ version' \in 1..2
    BY <1>0, <1>6, EventAssumption DEF CallFails, Restart, TypeOK
  <2>. QED  BY <1>0, <1>6, <2>1, <2>2, <2>3 DEF CallFails, Restart, TypeInv, TypeOK, PlaceInv
<1>7. ASSUME EditCR \/ DeleteCR PROVE TypeInv'
  <2>1. cr' \in CRs /\ cr'.ex
    BY <1>0, <1>7 DEF EditCR, DeleteCR, CRs
  <2>2. request' \in BOOLEAN
    BY <1>7, Zenon DEF EditCR, DeleteCR
  <2>3. events' \in 0..MaxEvents
    BY <1>0, <1>7, EventAssumption DEF EditCR, DeleteCR, TypeOK
  <2>. QED  BY <1>7, <2>1, <2>2, <2>3 DEF EditCR, DeleteCR, TypeInv, TypeOK, PlaceInv, CRs
<1>8. ASSUME NEW o \in Objs, Edit(o) \/ Delete(o) \/ Recreate(o) PROVE TypeInv'
  <2>1. PICK s \in Contents : UserChanges(o, s)
    BY <1>0, <1>8, UserCases
  <2>2. TypeOK' /\ op'.pc = op.pc /\ op'.k = op.k
    BY <1>0, <2>1, UserTypes
  <2>. QED  BY <2>1, <2>2 DEF UserChanges, TypeInv, PlaceInv
<1>9. ASSUME NEW o \in Owned, CollectGarbage(o) PROVE TypeInv'
  <2>1. o \in Objs
    BY OrderObjs DEF Owned
  <2>2. stored' \in [Objs -> Contents] /\ pods' \in [DaemonSets -> PodStates]
    BY <1>0, <1>9, <2>1, StoreType, AbsentType DEF CollectGarbage
  <2>. QED  BY <1>9, <2>2 DEF CollectGarbage, TypeInv, TypeOK, PlaceInv, PodStates
<1>10. ASSUME NEW d \in DaemonSets, PodsStart(d) \/ PodsReady(d) \/ PodsFail(d) PROVE TypeInv'
  <2>1. pods' \in [DaemonSets -> PodStates]
    <3>1. [cred |-> "live", avail |-> FALSE] \in PodStates
      BY DEF PodStates
    <3>2. ASSUME NEW b \in BOOLEAN PROVE [pods EXCEPT ![d].avail = b] \in [DaemonSets -> PodStates]
      BY <1>0 DEF PodStates
    <3>3. \/ pods' = [pods EXCEPT ![d] = [cred |-> "live", avail |-> FALSE]]
          \/ \E b \in BOOLEAN : pods' = [pods EXCEPT ![d].avail = b]
      BY <1>10, Zenon DEF PodsStart, PodsReady, PodsFail
    <3>. QED  BY <1>0, <3>1, <3>2, <3>3
  <2>2. request' \in BOOLEAN
    BY <1>0, <1>10, Zenon DEF PodsStart, PodsReady, PodsFail
  <2>. QED  BY <1>10, <2>1, <2>2 DEF PodsStart, PodsReady, PodsFail, TypeInv, TypeOK, PlaceInv, PodStates
<1>11. ASSUME UNCHANGED vars PROVE TypeInv'
  BY <1>11 DEF vars, TypeInv, TypeOK, PlaceInv
<1>. QED
  BY <1>1, <1>2, <1>3, <1>4, <1>5, <1>6, <1>7, <1>8, <1>9, <1>10, <1>11
     DEF Next, Reconcile, Users, Cluster

LEMMA TypeInvariant == Spec => []TypeInv
BY InitType, TypeStep, PTL DEF Spec

\* Every variable keeps its type; in particular a pass never runs past the end of the
\* list of objects it creates or of the shorter one it removes.
THEOREM ObjectTypes == Spec => []TypeOK
BY TypeInvariant, PTL DEF TypeInv

-----------------------------------------------------------------------------
(* Labels of users.  A pass writes what it has merged into the copy it read *)
(* only if that copy is still the object.                                   *)

\* The copy a pass holds of the object it is at is the object, unless it is stale: users
\* make it stale, and the garbage collector waits until the CR, and so the pass, is gone.
HeldInv == op.pc = "put" /\ ~op.stale => op.held = stored[Order[op.k]]

\* What does not exist has no labels.
LabelInv == \A o \in Objs : stored[o].mine => stored[o].ex

LabelsInv == TypeInv /\ HeldInv /\ LabelInv

\* What a step of a pass may do to the objects: remove one, create one that is not there,
\* or write one whose labels are those of the object.
Harmless ==
    \/ UNCHANGED stored
    \/ \E o \in Objs, s \in Contents :
          /\ stored' = [stored EXCEPT ![o] = s]
          /\ s.mine => s.ex
          /\ \/ ~s.ex
             \/ ~stored[o].ex
             \/ s.mine = stored[o].mine

\* A visit to an object of a live CR is harmless: it writes what it has merged only over what it has read.
LEMMA VisitHarmless ==
    ASSUME LabelsInv, Visit
    PROVE  Harmless
<1>. DEFINE o == Order[op.k]
<1>0. /\ op \in Passes /\ op.k \in 1..Len(Order) /\ o \in Objs /\ op.cr \in CRs /\ op.held \in Contents
      /\ stored \in [Objs -> Contents] /\ version \in 1..2
  BY OrderObjs DEF LabelsInv, TypeInv, TypeOK, Passes, CRs
<1>1. Desired(o, op.cr) \in Contents /\ ~Desired(o, op.cr).mine /\ Desired(o, op.cr).ex
  BY <1>0, DesiredType DEF Desired
<1>2. Absent \in Contents /\ ~Absent.ex /\ ~Absent.mine
  BY AbsentType
<1>3. ASSUME NEW d \in Objs, Store(d, Absent) PROVE Harmless
  BY <1>2, <1>3 DEF Store, Harmless
<1>4. ASSUME UNCHANGED stored PROVE Harmless
  BY <1>4 DEF Harmless
<1>. HIDE DEF o
<1>5. CASE DeleteUnwanted(o) \/ Get(o) \/ DeleteJunk(o)
  BY <1>0, <1>3, <1>4, <1>5 DEF DeleteUnwanted, Get, DeleteJunk
<1>6. CASE Create(o)
  <2>1. CASE stored[o].ex
    BY <1>4, <1>6, <2>1 DEF Create
  <2>2. CASE ~stored[o].ex
    <3>1. Store(o, Desired(o, op.cr)) \/ UNCHANGED stored
      BY <1>6 DEF Create
    <3>2. CASE Store(o, Desired(o, op.cr))
      BY <1>0, <1>1, <2>2, <3>2 DEF Store, Harmless
    <3>. QED  BY <1>4, <3>1, <3>2
  <2>. QED  BY <2>1, <2>2
<1>7. CASE deleteRunningPodsWithSa(o)
  BY <1>3, <1>4, <1>7, OrderObjs DEF deleteRunningPodsWithSa
<1>8. CASE Merge(o)
  <2>. DEFINE merged == merge(o, Desired(o, op.cr), op.held)
  <2>1. merged \in Contents /\ merged.mine = op.held.mine /\ (op.held.ex => merged.ex)
    BY <1>0, <1>1, MergeKeeps
  <2>2. UNCHANGED stored \/ (Store(o, merged) /\ ~op.stale /\ op.pc = "put" /\ op.held.ex)
    BY <1>8 DEF Merge
  <2>. HIDE DEF merged
  <2>3. CASE Store(o, merged) /\ ~op.stale /\ op.pc = "put" /\ op.held.ex
    <3>1. op.held = stored[o]
      BY <2>3 DEF LabelsInv, HeldInv, o
    <3>2. merged.mine = stored[o].mine
      BY <2>1, <3>1
    <3>. QED  BY <1>0, <2>1, <2>3, <3>2 DEF Store, Harmless
  <2>. QED  BY <1>4, <2>2, <2>3
<1>. QED  BY <1>5, <1>6, <1>7, <1>8 DEF Visit, o

\* The deletion path only removes objects.
LEMMA RemoveHarmless ==
    ASSUME LabelsInv, RemoveNext
    PROVE  Harmless
<1>. DEFINE o == RemovalOrder[op.k]
<1>1. o \in Objs
  BY RemovalObjs DEF LabelsInv, TypeInv, TypeOK, PlaceInv, RemoveNext, Passes
<1>2. Store(o, Absent) \/ UNCHANGED stored
  BY DEF RemoveNext
<1>. HIDE DEF o
<1>. QED  BY <1>1, <1>2, AbsentType DEF Store, Harmless

\* Every step of the operator is harmless to the labels of users.
LEMMA ReconcileHarmless ==
    ASSUME LabelsInv, Reconcile
    PROVE  Harmless
<1>1. GetCR \/ DeleteDuplicates \/ Release => UNCHANGED stored
  BY DEF GetCR, DeleteDuplicates, Release
<1>. QED  BY <1>1, VisitHarmless, RemoveHarmless DEF Reconcile, Harmless

\* A pass holds what it has just read.
LEMMA VisitHolds ==
    ASSUME TypeOK, Visit
    PROVE  HeldInv'
<1>. DEFINE o == Order[op.k]
<1>0. op \in Passes /\ Idle.pc = "idle" /\ NextObject.pc \in {"idle", "dups", "get"}
  BY IdleType, NextObjectType DEF TypeOK
<1>1. CASE Get(o)
  <2>1. op' = [op EXCEPT !.pc = "put", !.held = stored[o]] /\ UNCHANGED stored
    BY <1>1 DEF Get
  <2>2. op'.held = stored[o] /\ op'.k = op.k
    BY <1>0, <2>1 DEF Passes
  <2>. QED  BY <2>1, <2>2 DEF HeldInv
<1>2. CASE DeleteUnwanted(o) \/ deleteRunningPodsWithSa(o) \/ DeleteJunk(o) \/ Merge(o)
  <2>1. op' = Idle \/ op' = NextObject
    BY <1>2 DEF DeleteUnwanted, deleteRunningPodsWithSa, DeleteJunk, Merge, Abort
  <2>. QED  BY <1>0, <2>1 DEF HeldInv
<1>3. CASE Create(o)
  <2>1. op' = Idle \/ op' = NextObject \/ op' = [op EXCEPT !.pc = "pods", !.held = Absent]
    BY <1>3 DEF Create, Abort
  <2>2. op'.pc # "put"
    BY <1>0, <2>1 DEF Passes
  <2>. QED  BY <2>2 DEF HeldInv
<1>. QED  BY <1>1, <1>2, <1>3 DEF Visit

\* Every step keeps the copy that a pass holds and the labels in order.
LEMMA LabelsStep == LabelsInv /\ [Next]_vars => LabelsInv'
<1>. SUFFICES ASSUME LabelsInv, [Next]_vars PROVE HeldInv' /\ LabelInv'
  BY TypeStep DEF LabelsInv
<1>0. TypeOK /\ op \in Passes /\ stored \in [Objs -> Contents] /\ Idle.pc = "idle"
  BY IdleType DEF LabelsInv, TypeInv, TypeOK
<1>1. ASSUME Reconcile PROVE LabelInv'
  <2>1. CASE UNCHANGED stored
    BY <2>1 DEF LabelsInv, LabelInv
  <2>2. ASSUME NEW o \in Objs, NEW s \in Contents, stored' = [stored EXCEPT ![o] = s], s.mine => s.ex
        PROVE  LabelInv'
    BY <1>0, <2>2 DEF LabelsInv, LabelInv
  <2>. QED  BY <1>1, <2>1, <2>2, ReconcileHarmless DEF Harmless
<1>2. ASSUME Reconcile PROVE HeldInv'
  <2>1. CASE GetCR
    <3>1. op' = Idle \/ op'.pc \in {"remove", "dups"}
      BY <2>1 DEF GetCR, Idle
    <3>. QED  BY <1>0, <3>1 DEF HeldInv
  <2>2. CASE DeleteDuplicates
    <3>1. op' = Idle \/ op' = [op EXCEPT !.pc = "get"]
      BY <2>2 DEF DeleteDuplicates, Abort
    <3>2. op'.pc # "put"
      BY <1>0, <3>1 DEF Passes
    <3>. QED  BY <3>2 DEF HeldInv
  <2>3. CASE Visit
    BY <1>0, <2>3, VisitHolds
  <2>4. CASE RemoveNext
    <3>1. /\ op.pc = "remove"
          /\ \/ op' = Idle \/ op' = [op EXCEPT !.pc = "release"]
             \/ op' = [op EXCEPT !.k = op.k + 1]
      BY <2>4 DEF RemoveNext, Abort
    <3>2. op'.pc # "put"
      BY <1>0, <3>1 DEF Passes
    <3>. QED  BY <3>2 DEF HeldInv
  <2>5. CASE Release
    BY <1>0, <2>5 DEF Release, Abort, HeldInv
  <2>. QED  BY <1>2, <2>1, <2>2, <2>3, <2>4, <2>5 DEF Reconcile
<1>3. ASSUME UNCHANGED stored, op' = op \/ op' = Idle PROVE HeldInv' /\ LabelInv'
  BY <1>0, <1>3 DEF LabelsInv, HeldInv, LabelInv
<1>4. ASSUME CallFails \/ Restart \/ EditCR \/ DeleteCR \/ UNCHANGED vars PROVE HeldInv' /\ LabelInv'
  BY <1>3, <1>4 DEF CallFails, Restart, Abort, EditCR, DeleteCR, vars
<1>5. ASSUME NEW d \in DaemonSets, PodsStart(d) \/ PodsReady(d) \/ PodsFail(d)
      PROVE  HeldInv' /\ LabelInv'
  BY <1>3, <1>5 DEF PodsStart, PodsReady, PodsFail
<1>6. ASSUME NEW o \in Objs, Edit(o) \/ Delete(o) \/ Recreate(o) PROVE HeldInv' /\ LabelInv'
  <2>1. PICK s \in Contents : UserChanges(o, s) /\ (s.mine => s.ex)
    BY <1>0, <1>6, UserCases
  <2>. DEFINE stale == op.stale \/ (op.pc = "put" /\ Order[op.k] = o)
  <2>2. stored' = [stored EXCEPT ![o] = s] /\ op' = [op EXCEPT !.stale = stale]
    BY <2>1 DEF UserChanges, Store
  <2>3. stale \in BOOLEAN
    BY <1>0 DEF Passes
  <2>. HIDE DEF stale
  <2>4. op'.pc = op.pc /\ op'.k = op.k /\ op'.held = op.held /\ op'.stale = stale
    BY <1>0, <2>2, <2>3 DEF Passes
  <2>5. ASSUME op'.pc = "put", ~op'.stale PROVE op'.held = stored'[Order[op'.k]]
    <3>1. op.pc = "put" /\ ~op.stale /\ Order[op.k] # o
      BY <2>4, <2>5 DEF stale
    <3>2. op.held = stored[Order[op.k]] /\ Order[op.k] \in Objs
      BY <1>0, <3>1, OrderObjs DEF LabelsInv, HeldInv, Passes
    <3>. QED  BY <1>0, <2>2, <2>4, <3>1, <3>2
  <2>6. HeldInv'
    BY <2>5 DEF HeldInv
  <2>7. LabelInv'
    BY <1>0, <2>1, <2>2 DEF LabelsInv, LabelInv
  <2>. QED  BY <2>6, <2>7
<1>7. ASSUME NEW o \in Owned, CollectGarbage(o) PROVE HeldInv' /\ LabelInv'
  <2>1. o \in Objs
    BY OrderObjs DEF Owned
  <2>2. stored' = [stored EXCEPT ![o] = Absent] /\ op' = op /\ ~cr.ex
    BY <1>7 DEF CollectGarbage, Store
  <2>3. op.pc = "idle"
    BY <2>2 DEF LabelsInv, TypeInv, PlaceInv
  <2>4. HeldInv'
    BY <2>2, <2>3 DEF HeldInv
  <2>5. LabelInv'
    BY <1>0, <2>1, <2>2, AbsentType DEF LabelsInv, LabelInv
  <2>. QED  BY <2>4, <2>5
<1>. QED  BY <1>1, <1>2, <1>4, <1>5, <1>6, <1>7 DEF Next, Users, Cluster

\* No write of the operator takes a user's label from an object, whatever users do to
\* the object between the operator's Get and its Update: merge keeps the labels of the
\* copy, the API server refuses a copy that is not the latest, and a Create finds no
\* object there.
THEOREM LabelsSurvive == Spec => UsersLabelsSurvive
<1>1. Init => HeldInv /\ LabelInv
  <2>. SUFFICES ASSUME Init PROVE HeldInv /\ LabelInv
    OBVIOUS
  <2>1. HeldInv
    BY IdleType DEF Init, HeldInv
  <2>2. LabelInv
    BY AbsentType DEF Init, LabelInv, Desired
  <2>. QED  BY <2>1, <2>2
<1>2. ASSUME LabelsInv, Reconcile, NEW o \in Objs, stored[o].mine, stored'[o].ex PROVE stored'[o].mine
  <2>1. stored[o].ex /\ stored \in [Objs -> Contents]
    BY <1>2 DEF LabelsInv, LabelInv, TypeInv, TypeOK
  <2>2. ASSUME NEW p \in Objs, NEW s \in Contents, stored' = [stored EXCEPT ![p] = s],
               ~s.ex \/ ~stored[p].ex \/ s.mine = stored[p].mine
        PROVE  stored'[o].mine
    <3>1. CASE o = p
      BY <1>2, <2>1, <2>2, <3>1
    <3>2. CASE o # p
      BY <1>2, <2>1, <2>2, <3>2
    <3>. QED  BY <3>1, <3>2
  <2>. QED  BY <1>2, <2>2, ReconcileHarmless DEF Harmless
<1>3. LabelsInv /\ [Next]_vars
        => [Reconcile => \A o \in Objs : stored[o].mine /\ stored'[o].ex => stored'[o].mine]_vars
  BY <1>2
<1>. QED  BY <1>1, <1>3, InitType, LabelsStep, PTL DEF Spec, LabelsInv, UsersLabelsSurvive

=============================================================================
