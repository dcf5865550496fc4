---------------------------- MODULE StatusProofs ----------------------------
(***************************************************************************)
(* What holds of the status report for any versions, any number of pods    *)
(* and any bounds: types, no write by an operator that is a downgrade, and *)
(* a true report whenever the operator rests.                              *)
(***************************************************************************)
EXTENDS Status, TLAPS

-----------------------------------------------------------------------------
(* Types.                                                                  *)

LEMMA CondsType ==
    /\ NoConditions \in Conditions /\ CrHealthy \in Conditions
    /\ CrUpgradeHealingDegraded \in Conditions /\ CrFailed \in Conditions
    /\ CrFailedHealing \in Conditions /\ CrDeploying \in Conditions
BY DEF NoConditions, CrHealthy, CrUpgradeHealingDegraded, CrFailed, CrFailedHealing,
       CrDeploying, Conds, Conditions

LEMMA IdleType == Idle \in Passes
BY CondsType DEF Idle, Passes, Statuses

\* A write of the status keeps the types, whether it is accepted, refused or its reply lost.
LEMMA UpdateType ==
    ASSUME TypeOK, NEW cr \in Statuses, NEW pc \in {"idle", "update"}, Update(cr, pc)
    PROVE  stored' \in Statuses /\ current' \in BOOLEAN /\ op' \in Passes /\ queued' \in BOOLEAN
<1>1. CASE op.latest
  <2>1. PICK new \in BOOLEAN :
          /\ stored' = cr
          /\ current' = (current /\ ~new)
          /\ op' = IF pc = "idle" THEN Idle
                   ELSE [op EXCEPT !.pc = pc, !.cr = cr, !.touched = new]
          /\ queued' = (queued \/ op.err)
    BY <1>1 DEF Update
  <2>. QED  BY <2>1, IdleType DEF TypeOK, Passes
<1>2. CASE ~op.latest
  BY <1>2, IdleType DEF Update, Abort, TypeOK
<1>. QED  BY <1>1, <1>2

LEMMA BecomeType ==
    ASSUME TypeOK, NEW pc \in {"status", "write"}, NEW conds \in Conditions
    PROVE  Become(pc, conds) \in Passes
BY DEF Become, TypeOK, Passes, Statuses

\* Every step keeps the types.
LEMMA TypeStep == TypeOK /\ [Next]_vars => TypeOK'
<1>. SUFFICES ASSUME TypeOK, [Next]_vars PROVE TypeOK'
  OBVIOUS
<1>1. ASSUME StartPass PROVE TypeOK'
  <2>1. gauge' \in {-1, 0, 1}
    BY <1>1 DEF StartPass, ReadyGauge, TypeOK
  <2>2. CASE canUpgrade(cached.observed, version) = "refused"
    BY <1>1, <2>1, <2>2, IdleType DEF StartPass, Abort, TypeOK
  <2>3. CASE canUpgrade(cached.observed, version) # "refused"
    <3>1. op' = [Idle EXCEPT !.pc = "mark", !.latest = current, !.before = cached,
                             !.cr = [cached EXCEPT !.target = version]]
      BY <1>1, <2>3 DEF StartPass
    <3>2. [cached EXCEPT !.target = version] \in Statuses
      BY DEF TypeOK, Statuses
    <3>3. op' \in Passes
      BY <3>1, <3>2, IdleType DEF Passes, TypeOK
    <3>. QED  BY <1>1, <2>1, <2>3, <3>3 DEF StartPass, TypeOK
  <2>. QED  BY <2>2, <2>3
<1>2. ASSUME Mark PROVE TypeOK'
  <2>1. /\ [op.cr EXCEPT !.conds = CrDeploying] \in Statuses
        /\ [op.cr EXCEPT !.conds = CrUpgradeHealingDegraded] \in Statuses
    BY CondsType DEF TypeOK, Passes, Statuses
  <2>2. stored' \in Statuses /\ current' \in BOOLEAN /\ op' \in Passes /\ queued' \in BOOLEAN
    <3>1. CASE Update([op.cr EXCEPT !.conds = CrDeploying], "update")
      BY <2>1, <3>1, UpdateType
    <3>2. CASE Update([op.cr EXCEPT !.conds = CrUpgradeHealingDegraded], "update")
      BY <2>1, <3>2, UpdateType
    <3>3. CASE op' = [op EXCEPT !.pc = "update"] /\ UNCHANGED <<stored, current, queued>>
      BY <3>3 DEF TypeOK, Passes
    <3>. QED  BY <1>2, <3>1, <3>2, <3>3 DEF Mark
  <2>. QED  BY <1>2, <2>2 DEF Mark, TypeOK
<1>3. ASSUME NEW newClaim \in BOOLEAN, reconcileUpdate(newClaim) PROVE TypeOK'
  <2>1. (IF AllReady(dsSeen) THEN CrHealthy ELSE op.cr.conds) \in Conditions
    BY CondsType DEF TypeOK, Passes, Statuses
  <2>2. op' \in Passes
    BY <1>3, <2>1, BecomeType DEF reconcileUpdate
  <2>3. reconcileStoragePoolPVC \/ UNCHANGED <<env, bound>>
    BY <1>3 DEF reconcileUpdate
  <2>4. bound' \in BOOLEAN
    BY <2>3, Zenon DEF reconcileStoragePoolPVC, TypeOK
  <2>5. env' \in Nat
    BY <2>3 DEF reconcileStoragePoolPVC, TypeOK
  <2>. QED  BY <1>3, <2>2, <2>4, <2>5 DEF reconcileUpdate, TypeOK
<1>4. ASSUME reconcileUpdateFails PROVE TypeOK'
  <2>1. Become("write", CrFailedHealing) \in Passes
    BY BecomeType, CondsType
  <2>2. op' \in Passes
    BY <1>4, <2>1 DEF reconcileUpdateFails, Passes
  <2>. QED  BY <1>4, <2>2 DEF reconcileUpdateFails, TypeOK
<1>5. ASSUME reconcileStatus PROVE TypeOK'
  <2>1. checkDegraded(op.cr, ~AllReady(dsSeen)) \in Conditions
    BY CondsType DEF checkDegraded, TypeOK, Passes, Statuses
  <2>2. /\ Become("write", CrFailedHealing) \in Passes
        /\ Become("write", checkDegraded(op.cr, ~AllReady(dsSeen))) \in Passes
    BY <2>1, BecomeType, CondsType
  <2>3. op' \in Passes
    BY <1>5, <2>2 DEF reconcileStatus, Passes, Statuses, TypeOK
  <2>. QED  BY <1>5, <2>3 DEF reconcileStatus, TypeOK
<1>6. ASSUME FinishPass PROVE TypeOK'
  <2>1. stored' \in Statuses /\ current' \in BOOLEAN /\ op' \in Passes /\ queued' \in BOOLEAN
    <3>1. CASE Update(op.cr, "idle")
      <4>1. op.cr \in Statuses
        BY DEF TypeOK, Passes
      <4>. QED  BY <3>1, <4>1, UpdateType
    <3>2. CASE op' = Idle /\ queued' = (queued \/ op.err) /\ UNCHANGED <<stored, current>>
      BY <3>2, IdleType DEF TypeOK, Passes
    <3>. QED  BY <1>6, <3>1, <3>2 DEF FinishPass
  <2>. QED  BY <1>6, <2>1 DEF FinishPass, TypeOK
<1>7. ASSUME DeliverCR PROVE TypeOK'
  BY <1>7 DEF DeliverCR, TypeOK
<1>8. ASSUME NEW n \in DaemonSets, DeliverDaemonSet(n) PROVE TypeOK'
  BY <1>8 DEF DeliverDaemonSet, TypeOK
<1>9. ASSUME NEW n \in DaemonSets, NEW s \in PodCounts, PodsChange(n, s) PROVE TypeOK'
  BY <1>9 DEF PodsChange, TypeOK
<1>10. ASSUME ClaimsBind PROVE TypeOK'
  BY <1>10 DEF ClaimsBind, TypeOK
<1>11. ASSUME OtherWrite PROVE TypeOK'
  <2>1. current' \in BOOLEAN
    BY <1>11, Zenon DEF OtherWrite
  <2>2. op' \in Passes
    BY <1>11 DEF OtherWrite, TypeOK, Passes
  <2>3. faults' \in Nat
    BY <1>11 DEF OtherWrite, TypeOK
  <2>. QED  BY <1>11, <2>1, <2>2, <2>3 DEF OtherWrite, TypeOK
<1>12. ASSUME NEW v \in Versions, Restart(v) PROVE TypeOK'
  BY <1>12, IdleType DEF Restart, TypeOK
<1>13. ASSUME UNCHANGED vars PROVE TypeOK'
  BY <1>13 DEF vars, TypeOK
<1>14. ASSUME reconcileUpdate(FALSE) \/ reconcileUpdate(TRUE) PROVE TypeOK'
  BY <1>3, <1>14, Zenon
<1>15. ASSUME checkDegradedFails PROVE TypeOK'
  <2>1. op' = [op EXCEPT !.pc = "write", !.err = TRUE] /\ op \in Passes
    BY <1>15, Zenon DEF checkDegradedFails, TypeOK
  <2>2. op' \in Passes
    BY <2>1 DEF Passes
  <2>3. faults' \in Nat
    BY <1>15 DEF checkDegradedFails, TypeOK
  <2>. QED  BY <1>15, <2>2, <2>3 DEF checkDegradedFails, TypeOK
<1>. QED
  BY <1>1, <1>2, <1>4, <1>5, <1>6, <1>7, <1>8, <1>9, <1>10, <1>11, <1>12, <1>13, <1>14, <1>15
     DEF Next, Reconcile

LEMMA InitType == Init => TypeOK
<1>1. Idle.cr \in Statuses
  BY IdleType DEF Passes
<1>2. [n \in DaemonSets |-> [ready |-> 0, desired |-> 0]] \in [DaemonSets -> PodCounts]
  BY StatusAssumption DEF PodCounts
<1>. QED  BY <1>1, <1>2, IdleType DEF Init, TypeOK

\* Every variable keeps its type, for any versions and any bounds.
THEOREM StatusTypes == Spec => []TypeOK
BY InitType, TypeStep, PTL DEF Spec

-----------------------------------------------------------------------------
(* No write by a downgrade.  A pass has been admitted against the version  *)
(* that its copy of the CR has reached; while that copy is the latest one  *)
(* the stored CR has reached the same version, because the pass changes it *)
(* in its last write only.                                                 *)

\* A copy that is up to date equals the stored CR.
CopyInv == current => cached = stored

\* A pass that is at work was not refused, has noted the operator's version and,
\* while nobody else writes, knows which version the stored CR has reached.
AdmittedInv ==
    op.pc # "idle" =>
        /\ canUpgrade(op.before.observed, version) # "refused"
        /\ op.cr.target = version
        /\ op.pc # "write" => op.cr.observed = op.before.observed
        /\ op.latest => stored.observed = op.before.observed

PassInv == TypeOK /\ CopyInv /\ AdmittedInv

\* What client.Update does: a refused write changes nothing and ends the pass.
LEMMA UpdateCases ==
    ASSUME NEW cr, NEW pc, Update(cr, pc)
    PROVE  \/ /\ op.latest /\ stored' = cr
              /\ \E new \in BOOLEAN :
                    /\ cr # stored => new
                    /\ current' = (current /\ ~new)
                    /\ op' = IF pc = "idle" THEN Idle
                             ELSE [op EXCEPT !.pc = pc, !.cr = cr, !.touched = new]
              /\ queued' = (queued \/ op.err)
           \/ /\ ~op.latest /\ op' = Idle /\ queued' = TRUE
              /\ stored' = stored /\ current' = current
<1>1. CASE op.latest
  <2>1. CASE cr = stored
    BY <1>1, <2>1 DEF Update
  <2>2. CASE cr # stored
    BY <1>1, <2>2 DEF Update
  <2>. QED  BY <2>1, <2>2
<1>2. CASE ~op.latest
  BY <1>2 DEF Update, Abort
<1>. QED  BY <1>1, <1>2

LEMMA IdleIdle == Idle.pc = "idle" /\ Idle.latest = FALSE /\ Idle.err = FALSE
BY DEF Idle

\* Mark: the pass goes on with the version its CR had reached.
LEMMA MarkStep ==
    ASSUME PassInv, Mark
    PROVE  CopyInv' /\ AdmittedInv'
<1>. DEFINE Marked(conds) == [op.cr EXCEPT !.conds = conds]
<1>1. op \in Passes /\ op.pc = "mark" /\ op.cr \in Statuses /\ stored \in Statuses
  BY DEF PassInv, TypeOK, Mark, Passes
<1>2. ASSUME NEW conds \in Conditions, Update(Marked(conds), "update")
      PROVE  CopyInv' /\ AdmittedInv'
  <2>1. /\ Marked(conds).observed = op.before.observed
        /\ Marked(conds).target = version
    BY <1>1 DEF PassInv, AdmittedInv, Statuses
  <2>2. CASE op.latest
    <3>1. PICK new \in BOOLEAN :
            /\ stored' = Marked(conds)
            /\ Marked(conds) # stored => new
            /\ current' = (current /\ ~new)
            /\ op' = [op EXCEPT !.pc = "update", !.cr = Marked(conds), !.touched = new]
      BY <1>2, <2>2, UpdateCases
    <3>2. /\ op'.pc = "update" /\ op'.cr = Marked(conds)
          /\ op'.before = op.before
      BY <1>1, <3>1 DEF Passes
    <3>3. CopyInv'
      BY <3>1, <3>2 DEF PassInv, CopyInv, Mark
    <3>4. AdmittedInv'
      BY <1>1, <2>1, <3>1, <3>2 DEF PassInv, AdmittedInv, Mark, canUpgrade
    <3>. QED  BY <3>3, <3>4
  <2>3. CASE ~op.latest
    <3>1. op' = Idle /\ stored' = stored /\ current' = current
      BY <1>2, <2>3, UpdateCases
    <3>. QED  BY <3>1, IdleIdle DEF PassInv, CopyInv, AdmittedInv, Mark
  <2>. QED  BY <2>2, <2>3
<1>3. CASE op' = [op EXCEPT !.pc = "update"] /\ UNCHANGED <<stored, current>>
  <2>1. /\ op'.pc = "update" /\ op'.cr = op.cr /\ op'.before = op.before
        /\ op'.latest = op.latest
    BY <1>1, <1>3 DEF Passes
  <2>. QED  BY <1>1, <1>3, <2>1 DEF PassInv, CopyInv, AdmittedInv, Mark, canUpgrade
<1>4. Update(Marked(CrDeploying), "update") => CopyInv' /\ AdmittedInv'
  BY <1>2, CondsType
<1>5. Update(Marked(CrUpgradeHealingDegraded), "update") => CopyInv' /\ AdmittedInv'
  BY <1>2, CondsType
<1>. QED  BY <1>3, <1>4, <1>5 DEF Mark

\* A step of the pass that writes nothing.
LEMMA WorkStep ==
    ASSUME PassInv, op.pc \in {"update", "status"}, op' \in Passes, op'.pc \in {"status", "write"},
           op'.before = op.before, op'.latest = op.latest, op'.cr.target = op.cr.target,
           op'.pc = "status" => op'.cr.observed = op.cr.observed,
           UNCHANGED <<stored, cached, current, version>>
    PROVE  CopyInv' /\ AdmittedInv'
BY DEF PassInv, CopyInv, AdmittedInv, canUpgrade

LEMMA BecomeFields ==
    ASSUME TypeOK, NEW pc \in {"status", "write"}, NEW conds \in Conditions
    PROVE  /\ Become(pc, conds).pc = pc /\ Become(pc, conds).before = op.before
           /\ Become(pc, conds).latest = op.latest /\ Become(pc, conds).err = op.err
           /\ Become(pc, conds).touched = (op.touched \/ conds # op.cr.conds)
           /\ Become(pc, conds).cr = [op.cr EXCEPT !.conds = conds]
           /\ Become(pc, conds).cr.conds = conds
           /\ Become(pc, conds).cr.observed = op.cr.observed
           /\ Become(pc, conds).cr.target = op.cr.target
BY DEF Become, TypeOK, Passes, Statuses

\* What a pass knows when it has gone through reconcileStatus without an error.
LEMMA StatusFields ==
    ASSUME TypeOK, reconcileStatus
    PROVE  /\ op'.pc = "write" /\ op'.before = op.before /\ op'.latest = op.latest
           /\ op'.cr.target = op.cr.target
           /\ ~op'.err => /\ op'.cr.conds = checkDegraded(op.cr, ~AllReady(dsSeen))
                          /\ op'.cr.observed = IF AllReady(dsSeen) THEN version ELSE op.cr.observed
<1>. DEFINE conds == checkDegraded(op.cr, ~AllReady(dsSeen))
<1>1. conds \in Conditions
  BY CondsType DEF checkDegraded, TypeOK, Passes, Statuses
<1>2. CASE ~bound
  <2>. DEFINE failed == Become("write", CrFailedHealing)
  <2>1. op' = [failed EXCEPT !.err = TRUE]
    BY <1>2 DEF reconcileStatus, reconcileStoragePoolStatus
  <2>2. failed \in Passes
    BY BecomeType, CondsType
  <2>3. failed.pc = "write" /\ failed.before = op.before /\ failed.latest = op.latest
        /\ failed.cr.target = op.cr.target
    BY BecomeFields, CondsType
  <2>4. op'.err = TRUE
    BY <2>1, <2>2, Zenon DEF Passes
  <2>. HIDE DEF failed
  <2>5. op'.pc = failed.pc /\ op'.before = failed.before /\ op'.latest = failed.latest
        /\ op'.cr = failed.cr
    BY <2>1, <2>2 DEF Passes
  <2>. QED  BY <2>3, <2>4, <2>5
<1>3. CASE bound
  <2>. DEFINE done == Become("write", conds)
  <2>1. op' = [done EXCEPT !.cr.observed = IF ~AllReady(dsSeen) THEN @ ELSE version]
    BY <1>3 DEF reconcileStatus, reconcileStoragePoolStatus
  <2>2. done \in Passes
    BY <1>1, BecomeType
  <2>3. /\ done.pc = "write" /\ done.before = op.before /\ done.latest = op.latest
        /\ done.cr.target = op.cr.target /\ done.cr.observed = op.cr.observed
        /\ done.cr.conds = conds
    BY <1>1, BecomeFields
  <2>. HIDE DEF done, conds
  <2>4. /\ op'.pc = done.pc /\ op'.before = done.before /\ op'.latest = done.latest
        /\ op'.cr.target = done.cr.target /\ op'.cr.conds = done.cr.conds
        /\ op'.cr.observed = IF ~AllReady(dsSeen) THEN done.cr.observed ELSE version
    BY <2>1, <2>2 DEF Passes, Statuses
  <2>. QED  BY <2>3, <2>4 DEF conds
<1>4. bound \in BOOLEAN
  BY DEF TypeOK
<1>. QED  BY <1>2, <1>3, <1>4

\* The pass ends: it has written its CR, or nothing.
LEMMA FinishCases ==
    ASSUME TypeOK, FinishPass
    PROVE  /\ op' = Idle
           /\ \/ /\ op.latest /\ stored' = op.cr
                 /\ \E new \in BOOLEAN : /\ op.cr # stored => new
                                         /\ current' = (current /\ ~new)
                 /\ queued' = (queued \/ op.err)
              \/ /\ ~op.latest /\ queued' = TRUE /\ stored' = stored /\ current' = current
              \/ /\ op.cr = op.before /\ queued' = (queued \/ op.err)
                 /\ stored' = stored /\ current' = current
<1>1. CASE Update(op.cr, "idle")
  BY <1>1, UpdateCases
<1>2. CASE op.cr = op.before /\ op' = Idle /\ queued' = (queued \/ op.err)
           /\ UNCHANGED <<stored, current>>
  BY <1>2
<1>. QED  BY <1>1, <1>2 DEF FinishPass

\* Every step keeps what is known of a pass at work.
LEMMA PassStep == PassInv /\ [Next]_vars => PassInv'
<1>. SUFFICES ASSUME PassInv, [Next]_vars PROVE CopyInv' /\ AdmittedInv'
  BY TypeStep DEF PassInv
<1>0. TypeOK /\ TypeOK' /\ op \in Passes /\ op' \in Passes
  BY TypeStep DEF PassInv, TypeOK
<1>1. ASSUME StartPass PROVE CopyInv' /\ AdmittedInv'
  <2>1. CASE canUpgrade(cached.observed, version) = "refused"
    BY <1>1, <2>1, IdleIdle DEF StartPass, Abort, PassInv, CopyInv, AdmittedInv
  <2>2. CASE canUpgrade(cached.observed, version) # "refused"
    <3>1. op' = [Idle EXCEPT !.pc = "mark", !.latest = current, !.before = cached,
                             !.cr = [cached EXCEPT !.target = version]]
      BY <1>1, <2>2 DEF StartPass
    <3>2. /\ op'.pc = "mark" /\ op'.latest = current /\ op'.before = cached
          /\ op'.cr.target = version /\ op'.cr.observed = cached.observed
      BY <1>0, <3>1 DEF Idle, TypeOK, Statuses
    <3>3. UNCHANGED <<stored, cached, current, version>>
      BY <1>1 DEF StartPass
    <3>. QED  BY <2>2, <3>2, <3>3 DEF PassInv, CopyInv, AdmittedInv, canUpgrade
  <2>. QED  BY <2>1, <2>2
<1>2. ASSUME Mark PROVE CopyInv' /\ AdmittedInv'
  BY <1>2, MarkStep
<1>3. ASSUME NEW newClaim \in BOOLEAN, reconcileUpdate(newClaim) PROVE CopyInv' /\ AdmittedInv'
  <2>. DEFINE conds == IF AllReady(dsSeen) THEN CrHealthy ELSE op.cr.conds
  <2>1. conds \in Conditions
    BY <1>0, CondsType DEF Passes, Statuses
  <2>2. op' = Become("status", conds) /\ op.pc = "update" /\ UNCHANGED <<stored, cached, current, version>>
    BY <1>3 DEF reconcileUpdate
  <2>. HIDE DEF conds
  <2>. QED  BY <1>0, <2>1, <2>2, BecomeFields, WorkStep
<1>4. ASSUME reconcileUpdateFails PROVE CopyInv' /\ AdmittedInv'
  <2>. DEFINE failed == Become("write", CrFailedHealing)
  <2>1. /\ op' = [failed EXCEPT !.err = TRUE] /\ op.pc = "update"
        /\ UNCHANGED <<stored, cached, current, version>>
    BY <1>4 DEF reconcileUpdateFails
  <2>2. failed \in Passes /\ failed.pc = "write" /\ failed.before = op.before
        /\ failed.latest = op.latest /\ failed.cr.target = op.cr.target
    BY <1>0, BecomeType, BecomeFields, CondsType
  <2>. HIDE DEF failed
  <2>3. op'.pc = "write" /\ op'.before = op.before /\ op'.latest = op.latest
        /\ op'.cr.target = op.cr.target
    BY <2>1, <2>2 DEF Passes
  <2>. QED  BY <1>0, <2>1, <2>3, WorkStep
<1>5. ASSUME reconcileStatus PROVE CopyInv' /\ AdmittedInv'
  <2>1. op.pc = "status" /\ UNCHANGED <<stored, cached, current, version>>
    BY <1>5 DEF reconcileStatus
  <2>. QED  BY <1>0, <1>5, <2>1, StatusFields, WorkStep
<1>6. ASSUME FinishPass PROVE CopyInv' /\ AdmittedInv'
  <2>1. op' = Idle /\ cached' = cached
    BY <1>0, <1>6, FinishCases DEF FinishPass
  <2>2. current' => current /\ stored' = stored
    <3>1. ASSUME stored' = op.cr, NEW new \in BOOLEAN, op.cr # stored => new,
                 current' = (current /\ ~new)
          PROVE  current' => current /\ stored' = stored
      BY <3>1, Zenon
    <3>2. ASSUME stored' = stored, current' = current
          PROVE  current' => current /\ stored' = stored
      BY <3>2, Zenon
    <3>. QED  BY <1>0, <1>6, <3>1, <3>2, FinishCases, Zenon
  <2>. QED  BY <2>1, <2>2, IdleIdle DEF PassInv, CopyInv, AdmittedInv
<1>7. ASSUME DeliverCR PROVE CopyInv' /\ AdmittedInv'
  BY <1>7 DEF DeliverCR, PassInv, CopyInv, AdmittedInv, canUpgrade
<1>8. ASSUME OtherWrite PROVE CopyInv' /\ AdmittedInv'
  <2>1. op' = [op EXCEPT !.latest = FALSE] /\ ~current' /\ UNCHANGED <<stored, version>>
    BY <1>8, Zenon DEF OtherWrite
  <2>2. op'.pc = op.pc /\ op'.before = op.before /\ op'.cr = op.cr /\ ~op'.latest
    BY <1>0, <2>1 DEF Passes
  <2>. QED  BY <2>1, <2>2 DEF PassInv, CopyInv, AdmittedInv, canUpgrade
<1>9. ASSUME NEW v \in Versions, Restart(v) PROVE CopyInv' /\ AdmittedInv'
  <2>1. op' = Idle /\ stored' = stored /\ cached' = stored
    BY <1>9 DEF Restart
  <2>. QED  BY <2>1, IdleIdle DEF CopyInv, AdmittedInv
<1>10. ASSUME UNCHANGED <<stored, cached, current, op, version>> PROVE CopyInv' /\ AdmittedInv'
  BY <1>10 DEF PassInv, CopyInv, AdmittedInv, canUpgrade
<1>11. ASSUME NEW n \in DaemonSets, DeliverDaemonSet(n) PROVE CopyInv' /\ AdmittedInv'
  BY <1>10, <1>11 DEF DeliverDaemonSet
<1>12. ASSUME NEW n \in DaemonSets, NEW s \in PodCounts, PodsChange(n, s)
       PROVE  CopyInv' /\ AdmittedInv'
  BY <1>10, <1>12 DEF PodsChange
<1>13. ASSUME ClaimsBind \/ UNCHANGED vars PROVE CopyInv' /\ AdmittedInv'
  BY <1>10, <1>13 DEF ClaimsBind, vars
<1>14. ASSUME reconcileUpdate(FALSE) \/ reconcileUpdate(TRUE) PROVE CopyInv' /\ AdmittedInv'
  BY <1>3, <1>14, Zenon
<1>15. ASSUME checkDegradedFails PROVE CopyInv' /\ AdmittedInv'
  <2>1. /\ op.pc = "status" /\ op' = [op EXCEPT !.pc = "write", !.err = TRUE]
        /\ UNCHANGED <<stored, cached, current, version>>
    BY <1>15 DEF checkDegradedFails
  <2>2. /\ op' \in Passes /\ op'.pc = "write" /\ op'.before = op.before
        /\ op'.latest = op.latest /\ op'.cr = op.cr
    BY <1>0, <2>1 DEF Passes
  <2>. QED  BY <1>0, <2>1, <2>2, WorkStep
<1>. QED
  BY <1>1, <1>2, <1>4, <1>5, <1>6, <1>7, <1>8, <1>9, <1>11, <1>12, <1>13, <1>14, <1>15
     DEF Next, Reconcile

LEMMA PassInvariant == Spec => []PassInv
<1>1. Init => CopyInv /\ AdmittedInv
  BY IdleIdle DEF Init, CopyInv, AdmittedInv
<1>2. Init => TypeOK
  BY InitType
<1>. QED  BY <1>1, <1>2, PassStep, PTL DEF Spec, PassInv

\* An operator that is older than the version the CR has reached writes nothing:
\* what client.Update accepts comes from a pass that the downgrade check let through
\* against that very version.
THEOREM DowngradeNeverWrites == Spec => DowngradeWritesNothing
<1>. DEFINE Older == /\ stored.observed # "" /\ 0 < Precedence[version]
                     /\ Precedence[version] < Precedence[stored.observed]
<1>1. ASSUME PassInv, [Next]_vars, Older PROVE UNCHANGED stored
  <2>1. stored \in Statuses /\ version \in Versions
    BY <1>1 DEF PassInv, TypeOK
  <2>2. stored.observed \in Versions /\ Precedence[stored.observed] \in Nat /\ Precedence[version] \in Nat
    BY <1>1, <2>1, VersionAssumption DEF Statuses
  <2>3. canUpgrade(stored.observed, version) = "refused"
    <3>. DEFINE reached == Precedence[stored.observed]
                running == Precedence[version]
    <3>1. reached \in Nat /\ running \in Nat /\ 0 < running /\ running < reached
      BY <1>1, <2>2
    <3>2. reached # 0 /\ running # 0 /\ reached # running
      BY <3>1
    <3>3. stored.observed # version /\ stored.observed # ""
      BY <1>1, <3>2
    <3>. QED  BY <3>1, <3>2, <3>3 DEF canUpgrade
  <2>4. op.pc # "idle" => ~op.latest
    BY <1>1, <2>3 DEF PassInv, AdmittedInv
  <2>5. ASSUME NEW cr, NEW pc, op.pc # "idle", Update(cr, pc) PROVE UNCHANGED stored
    BY <2>4, <2>5, UpdateCases
  <2>6. Mark => UNCHANGED stored
    BY <2>5 DEF Mark
  <2>7. FinishPass => UNCHANGED stored
    BY <2>5 DEF FinishPass
  <2>. QED
    BY <1>1, <2>6, <2>7
       DEF Next, Reconcile, StartPass, reconcileUpdate, reconcileUpdateFails, reconcileStatus,
           checkDegradedFails, DeliverCR, DeliverDaemonSet, PodsChange, ClaimsBind, OtherWrite, Restart, vars
<1>2. PassInv /\ [Next]_vars => [Older => UNCHANGED stored]_vars
  BY <1>1
<1>. QED  BY <1>2, PassInvariant, PTL DEF Spec, DowngradeWritesNothing

-----------------------------------------------------------------------------
(* A true report.  What a pass reads of the DaemonSets is out of date only *)
(* if an event has queued the next pass.                                   *)

\* The report s is true of DaemonSets d.
Truthful(s, d) ==
    /\ s.target = version
    /\ AllReady(d) => s.conds = CrHealthy /\ s.observed = version
    /\ ~AllReady(d) => s.conds = IF isDeploying(s) THEN CrDeploying ELSE CrFailed

\* A CR that has never been ready is marked before the objects are updated.
MarkedInv == op.pc = "update" /\ isDeploying(op.cr) => op.cr.conds = CrDeploying

\* Unless another pass is due: the stored CR is the copy the pass started from, what
\* the pass knows of the DaemonSets is what the cache has, and what it is about to
\* write, or has written, is true.
SettledInv ==
    ~queued =>
        /\ op.pc = "idle" /\ current => Truthful(stored, dsSeen)
        /\ op.pc # "idle" /\ current => stored = op.before
        /\ op.pc = "status" => /\ AllReady(dsSeen) => op.cr.conds = CrHealthy
                               /\ ~AllReady(dsSeen) /\ isDeploying(op.cr) => op.cr.conds = CrDeploying
        /\ op.pc = "write" /\ ~op.err => Truthful(op.cr, dsSeen)

ReportInv == PassInv /\ MarkedInv /\ SettledInv

\* Marking a CR as deploying, upgrading or healing keeps the report in order.
LEMMA MarkReports ==
    ASSUME ReportInv, Mark
    PROVE  MarkedInv' /\ SettledInv'
<1>. DEFINE Marked(conds) == [op.cr EXCEPT !.conds = conds]
<1>1. op \in Passes /\ op.pc = "mark" /\ op.cr \in Statuses
  BY DEF ReportInv, PassInv, TypeOK, Mark, Passes
<1>2. ASSUME NEW conds \in Conditions, Update(Marked(conds), "update"),
             isDeploying(op.cr) => conds = CrDeploying
      PROVE  MarkedInv' /\ SettledInv'
  <2>1. Marked(conds).observed = op.cr.observed /\ Marked(conds).conds = conds
    BY <1>1 DEF Statuses
  <2>2. CASE op.latest
    <3>1. PICK new \in BOOLEAN :
            /\ stored' = Marked(conds)
            /\ Marked(conds) # stored => new
            /\ current' = (current /\ ~new)
            /\ op' = [op EXCEPT !.pc = "update", !.cr = Marked(conds), !.touched = new]
            /\ queued' = (queued \/ op.err)
      BY <1>2, <2>2, UpdateCases
    <3>2. op'.pc = "update" /\ op'.cr = Marked(conds) /\ op'.before = op.before
      BY <1>1, <3>1 DEF Passes
    <3>3. ~queued' => ~queued
      BY <3>1, Zenon
    <3>4. current' => current /\ stored' = stored
      BY <3>1, Zenon
    <3>5. MarkedInv'
      BY <1>2, <2>1, <3>2 DEF MarkedInv, isDeploying
    <3>6. SettledInv'
      BY <1>1, <3>2, <3>3, <3>4 DEF ReportInv, SettledInv
    <3>. QED  BY <3>5, <3>6
  <2>3. CASE ~op.latest
    <3>1. op' = Idle /\ queued'
      BY <1>2, <2>3, UpdateCases
    <3>. QED  BY <3>1, IdleIdle DEF MarkedInv, SettledInv
  <2>. QED  BY <2>2, <2>3
<1>3. CASE ~isDeploying(op.cr) /\ op' = [op EXCEPT !.pc = "update"]
           /\ UNCHANGED <<stored, current, queued>>
  <2>1. op'.pc = "update" /\ op'.cr = op.cr /\ op'.before = op.before
    BY <1>1, <1>3 DEF Passes
  <2>. QED  BY <1>1, <1>3, <2>1 DEF ReportInv, MarkedInv, SettledInv, isDeploying
<1>4. isDeploying(op.cr) /\ Update(Marked(CrDeploying), "update") => MarkedInv' /\ SettledInv'
  BY <1>2, CondsType
<1>5. ~isDeploying(op.cr) /\ Update(Marked(CrUpgradeHealingDegraded), "update")
        => MarkedInv' /\ SettledInv'
  BY <1>2, CondsType
<1>. QED  BY <1>3, <1>4, <1>5 DEF Mark

\* reconcileStatus leaves a true report, unless it returns an error.
LEMMA StatusReports ==
    ASSUME ReportInv, reconcileStatus
    PROVE  MarkedInv' /\ SettledInv'
<1>1. TypeOK /\ op.pc = "status" /\ op.cr.target = version /\ op.cr.observed = op.before.observed
  BY DEF ReportInv, PassInv, AdmittedInv, reconcileStatus
<1>2. UNCHANGED <<stored, current, dsSeen, queued, version>>
  BY DEF reconcileStatus
<1>3. op'.pc = "write" /\ op'.before = op.before /\ op'.cr.target = op.cr.target
  BY <1>1, StatusFields
<1>4. ASSUME ~queued, ~op'.err PROVE Truthful(op'.cr, dsSeen)
  <2>1. /\ op'.cr.conds = checkDegraded(op.cr, ~AllReady(dsSeen))
        /\ op'.cr.observed = IF AllReady(dsSeen) THEN version ELSE op.cr.observed
    BY <1>1, <1>4, StatusFields
  <2>2. CASE AllReady(dsSeen)
    <3>1. op.cr.conds = CrHealthy
      BY <1>1, <1>4, <2>2 DEF ReportInv, SettledInv
    <3>. QED  BY <1>1, <1>3, <2>1, <2>2, <3>1 DEF Truthful, checkDegraded
  <2>3. CASE ~AllReady(dsSeen)
    <3>1. isDeploying(op.cr) => op.cr.conds = CrDeploying
      BY <1>1, <1>4, <2>3 DEF ReportInv, SettledInv
    <3>. QED  BY <1>1, <1>3, <2>1, <2>3, <3>1 DEF Truthful, checkDegraded, isDeploying
  <2>. QED  BY <2>2, <2>3
<1>5. MarkedInv'
  BY <1>3 DEF MarkedInv
<1>6. ASSUME ~queued' PROVE SettledInv'
  <2>1. current' => stored' = op'.before
    BY <1>1, <1>2, <1>3, <1>6 DEF ReportInv, SettledInv
  <2>2. ~op'.err => Truthful(op.cr, dsSeen)'
    BY <1>2, <1>4, <1>6 DEF Truthful, AllReady, isDeploying
  <2>. QED  BY <1>3, <2>1, <2>2 DEF SettledInv
<1>. QED  BY <1>5, <1>6 DEF SettledInv

\* The end of the pass: the stored CR is what the pass found to be true, or another
\* pass is due.
LEMMA FinishReports ==
    ASSUME ReportInv, FinishPass
    PROVE  MarkedInv' /\ SettledInv'
<1>1. TypeOK /\ op.pc = "write" /\ UNCHANGED <<dsSeen, version>>
  BY DEF ReportInv, PassInv, FinishPass
<1>2. op' = Idle /\ op'.pc = "idle"
  BY <1>1, FinishCases, IdleIdle
<1>3. ASSUME ~queued', current' PROVE Truthful(stored', dsSeen)
  <2>1. ~queued /\ ~op.err /\ current /\ stored' = op.cr
    <3>1. ASSUME stored' = op.cr, NEW new \in BOOLEAN, op.cr # stored => new,
                 current' = (current /\ ~new), queued' = (queued \/ op.err)
          PROVE  ~queued /\ ~op.err /\ current /\ stored' = op.cr
      BY <1>3, <3>1, Zenon
    <3>2. ASSUME op.cr = op.before, queued' = (queued \/ op.err), stored' = stored, current' = current
          PROVE  ~queued /\ ~op.err /\ current /\ stored' = op.cr
      <4>1. ~queued /\ ~op.err /\ current
        BY <1>3, <3>2, Zenon
      <4>2. stored = op.before
        BY <1>1, <4>1 DEF ReportInv, SettledInv
      <4>. QED  BY <3>2, <4>1, <4>2
    <3>. QED  BY <1>1, <1>3, <3>1, <3>2, FinishCases, Zenon
  <2>. QED  BY <1>1, <2>1 DEF ReportInv, SettledInv
<1>4. MarkedInv'
  BY <1>2 DEF MarkedInv
<1>5. ASSUME ~queued' PROVE SettledInv'
  <2>1. current' => Truthful(stored, dsSeen)'
    BY <1>1, <1>3, <1>5 DEF Truthful, AllReady, isDeploying
  <2>. QED  BY <1>2, <2>1 DEF SettledInv
<1>. QED  BY <1>4, <1>5 DEF SettledInv

\* Every step keeps the report true or queues another pass.
LEMMA ReportStep == ReportInv /\ [Next]_vars => ReportInv'
<1>. SUFFICES ASSUME ReportInv, [Next]_vars PROVE MarkedInv' /\ SettledInv'
  BY PassStep DEF ReportInv
<1>0. TypeOK /\ op \in Passes
  BY DEF ReportInv, PassInv, TypeOK
<1>1. ASSUME StartPass PROVE MarkedInv' /\ SettledInv'
  <2>1. CASE canUpgrade(cached.observed, version) = "refused"
    BY <1>1, <2>1, IdleIdle DEF StartPass, Abort, MarkedInv, SettledInv
  <2>2. CASE canUpgrade(cached.observed, version) # "refused"
    <3>1. /\ op' = [Idle EXCEPT !.pc = "mark", !.latest = current, !.before = cached,
                                !.cr = [cached EXCEPT !.target = version]]
          /\ UNCHANGED <<stored, cached, current>>
      BY <1>1, <2>2 DEF StartPass
    <3>2. op'.pc = "mark" /\ op'.before = cached
      BY <3>1 DEF Idle
    <3>3. current => cached = stored
      BY DEF ReportInv, PassInv, CopyInv
    <3>. QED  BY <3>1, <3>2, <3>3 DEF MarkedInv, SettledInv
  <2>. QED  BY <2>1, <2>2
<1>2. ASSUME Mark PROVE MarkedInv' /\ SettledInv'
  BY <1>2, MarkReports
<1>3. ASSUME NEW newClaim \in BOOLEAN, reconcileUpdate(newClaim) PROVE MarkedInv' /\ SettledInv'
  <2>. DEFINE conds == IF AllReady(dsSeen) THEN CrHealthy ELSE op.cr.conds
  <2>1. conds \in Conditions
    BY <1>0, CondsType DEF Passes, Statuses
  <2>2. /\ op' = Become("status", conds) /\ op.pc = "update"
        /\ UNCHANGED <<stored, current, dsSeen, queued>>
    BY <1>3 DEF reconcileUpdate
  <2>3. /\ op'.pc = "status" /\ op'.before = op.before /\ op'.cr.conds = conds
        /\ op'.cr.observed = op.cr.observed
    <3>. HIDE DEF conds
    <3>. QED  BY <1>0, <2>1, <2>2, BecomeFields
  <2>4. isDeploying(op.cr) => op.cr.conds = CrDeploying
    BY <2>2 DEF ReportInv, MarkedInv
  <2>5. MarkedInv'
    BY <2>3 DEF MarkedInv
  <2>6. SettledInv'
    BY <2>2, <2>3, <2>4 DEF ReportInv, SettledInv, isDeploying, AllReady
  <2>. QED  BY <2>5, <2>6
<1>4. ASSUME reconcileUpdateFails PROVE MarkedInv' /\ SettledInv'
  <2>. DEFINE failed == Become("write", CrFailedHealing)
  <2>1. /\ op' = [failed EXCEPT !.err = TRUE] /\ op.pc = "update"
        /\ UNCHANGED <<stored, current, queued>>
    BY <1>4 DEF reconcileUpdateFails
  <2>2. failed \in Passes /\ failed.pc = "write" /\ failed.before = op.before
    BY <1>0, BecomeType, BecomeFields, CondsType
  <2>. HIDE DEF failed
  <2>3. op'.pc = "write" /\ op'.before = op.before /\ op'.err
    BY <2>1, <2>2 DEF Passes
  <2>. QED  BY <2>1, <2>3 DEF ReportInv, MarkedInv, SettledInv
<1>5. ASSUME reconcileStatus PROVE MarkedInv' /\ SettledInv'
  BY <1>5, StatusReports
<1>6. ASSUME FinishPass PROVE MarkedInv' /\ SettledInv'
  BY <1>6, FinishReports
<1>7. ASSUME DeliverCR PROVE MarkedInv' /\ SettledInv'
  BY <1>7, Zenon DEF DeliverCR, ReportInv, MarkedInv, SettledInv, isDeploying
<1>8. ASSUME NEW n \in DaemonSets, DeliverDaemonSet(n) PROVE MarkedInv' /\ SettledInv'
  BY <1>8, Zenon DEF DeliverDaemonSet, ReportInv, MarkedInv, SettledInv, isDeploying
<1>9. ASSUME NEW v \in Versions, Restart(v) PROVE MarkedInv' /\ SettledInv'
  <2>1. op'.pc = "idle" /\ queued'
    BY <1>9, IdleIdle, Zenon DEF Restart
  <2>. QED  BY <2>1 DEF MarkedInv, SettledInv
<1>10. ASSUME OtherWrite PROVE MarkedInv' /\ SettledInv'
  <2>1. op' = [op EXCEPT !.latest = FALSE] /\ ~current' /\ UNCHANGED <<dsSeen, queued, version>>
    BY <1>10, Zenon DEF OtherWrite
  <2>2. op'.pc = op.pc /\ op'.cr = op.cr /\ op'.err = op.err
    BY <1>0, <2>1 DEF Passes
  <2>. QED  BY <2>1, <2>2 DEF ReportInv, MarkedInv, SettledInv, Truthful, AllReady, isDeploying
<1>11. ASSUME UNCHANGED <<stored, current, dsSeen, queued, op, version>> PROVE MarkedInv' /\ SettledInv'
  BY <1>11 DEF ReportInv, MarkedInv, SettledInv, Truthful, AllReady, isDeploying
<1>12. ASSUME NEW n \in DaemonSets, NEW s \in PodCounts, PodsChange(n, s)
       PROVE  MarkedInv' /\ SettledInv'
  BY <1>11, <1>12 DEF PodsChange
<1>13. ASSUME ClaimsBind \/ UNCHANGED vars PROVE MarkedInv' /\ SettledInv'
  BY <1>11, <1>13 DEF ClaimsBind, vars
<1>14. ASSUME reconcileUpdate(FALSE) \/ reconcileUpdate(TRUE) PROVE MarkedInv' /\ SettledInv'
  BY <1>3, <1>14, Zenon
<1>15. ASSUME checkDegradedFails PROVE MarkedInv' /\ SettledInv'
  <2>1. /\ op.pc = "status" /\ op' = [op EXCEPT !.pc = "write", !.err = TRUE]
        /\ UNCHANGED <<stored, current, queued>>
    BY <1>15 DEF checkDegradedFails
  <2>2. op'.pc = "write" /\ op'.before = op.before /\ op'.err
    BY <1>0, <2>1 DEF Passes
  <2>. QED  BY <2>1, <2>2 DEF ReportInv, MarkedInv, SettledInv
<1>. QED
  BY <1>1, <1>2, <1>4, <1>5, <1>6, <1>7, <1>8, <1>9, <1>10, <1>12, <1>13, <1>14, <1>15
     DEF Next, Reconcile

\* Whenever the operator rests, its report is true, whatever the DaemonSets did while
\* its passes were reading them, whichever writes were refused, and whichever operators
\* came before.
THEOREM RestIsTruthful == Spec => []RestsTruthful
<1>1. Init => MarkedInv /\ SettledInv
  BY IdleIdle, Zenon DEF Init, MarkedInv, SettledInv
<1>2. ReportInv => RestsTruthful
  <2>. SUFFICES ASSUME ReportInv, Quiescent PROVE RestsTruthful
    BY DEF RestsTruthful
  <2>1. op.pc = "idle" /\ ~queued /\ current /\ dsSeen = ds
    BY IdleIdle DEF Quiescent
  <2>2. Truthful(stored, ds)
    BY <2>1 DEF ReportInv, SettledInv
  <2>. QED  BY <2>2 DEF Truthful, RestsTruthful
<1>3. Init /\ TypeOK => PassInv
  BY IdleIdle DEF Init, PassInv, CopyInv, AdmittedInv
<1>. QED  BY <1>1, <1>2, <1>3, InitType, ReportStep, PTL DEF Spec, ReportInv

=============================================================================
