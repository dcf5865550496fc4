--------------------------- MODULE MounterProofs ---------------------------
(***************************************************************************)
(* What holds of the mounter for any number of pods and any bounds: types, *)
(* the mounts on the path, and what a cleanup job leaves behind.           *)
(***************************************************************************)
EXTENDS Mounter, FiniteSetTheorems, TLAPS

-----------------------------------------------------------------------------
(* Types.                                                                  *)

Sources == {"volume", "directory"}

LEMMA FindMntType == TypeOK => findMntByVolume \in {"root", "volume", "directory"}
<1>. SUFFICES ASSUME TypeOK PROVE findMntByVolume \in {"root", "volume", "directory"}
  OBVIOUS
<1>1. CASE stack = <<>>
  BY <1>1 DEF findMntByVolume
<1>2. CASE stack # <<>>
  <2>1. 1 \in 1..Len(stack)
    BY <1>2 DEF TypeOK
  <2>. QED  BY <1>2, <2>1 DEF findMntByVolume, TypeOK
<1>. QED  BY <1>1, <1>2

LEMMA PushType ==
    ASSUME TypeOK, NEW s \in Sources, Push(s)
    PROVE  stack' \in Seq(Sources) /\ blame' \subseteq {"mounter", "stacked", "refused"}
BY DEF TypeOK, Push, Sources

LEMMA BindType ==
    ASSUME TypeOK, NEW s \in Sources \cup {"missing"}, bindMountCommand(s)
    PROVE  stack' \in Seq(Sources) /\ blame' \subseteq {"mounter", "stacked", "refused"}
<1>1. CASE s \in Sources /\ Push(s)
  BY <1>1, PushType
<1>2. CASE NoPush
  BY <1>2 DEF TypeOK, NoPush, Sources
<1>. QED  BY <1>1, <1>2 DEF bindMountCommand

LEMMA MountDeviceType ==
    ASSUME TypeOK, mountDeviceCommand
    PROVE  stack' \in Seq(Sources) /\ blame' \subseteq {"mounter", "stacked", "refused"}
<1>1. CASE Push("volume")
  BY <1>1, PushType DEF Sources
<1>2. CASE NoPush
  BY <1>2 DEF TypeOK, NoPush, Sources
<1>. QED  BY <1>1, <1>2 DEF mountDeviceCommand

LEMMA UnmountType ==
    ASSUME TypeOK, unmountPathCommand \/ Refused
    PROVE  stack' \in Seq(Sources) /\ blame' \subseteq {"mounter", "stacked", "refused"}
<1>1. CASE NoPush \/ Refused
  BY <1>1 DEF TypeOK, NoPush, Refused, Sources
<1>2. CASE stack # <<>> /\ stack' = SubSeq(stack, 1, Len(stack) - 1) /\ UNCHANGED blame
  <2>1. stack \in Seq(Sources) /\ Len(stack) \in Nat \ {0}
    BY <1>2 DEF TypeOK, Sources
  <2>. QED  BY <1>2, <2>1 DEF TypeOK
<1>. QED  BY <1>1, <1>2 DEF unmountPathCommand

LEMMA BindSource ==
    ASSUME TypeOK, NEW p \in Pods, Bind(p)
    PROVE  \E s \in Sources \cup {"missing"} : bindMountCommand(s)
<1>1. PICK q \in from[p] :
        bindMountCommand(IF kubelet[q] = "mounted" THEN "volume"
                         ELSE IF kubelet[q] = "directory" THEN "directory" ELSE "missing")
  BY DEF Bind
<1>2. kubelet[q] \in {"none", "mounted", "directory"}
  BY DEF TypeOK
<1>3. CASE kubelet[q] = "mounted"
  BY <1>1, <1>3 DEF Sources
<1>4. CASE kubelet[q] = "directory"
  BY <1>1, <1>4 DEF Sources
<1>5. CASE kubelet[q] = "none"
  BY <1>1, <1>5 DEF Sources
<1>. QED  BY <1>2, <1>3, <1>4, <1>5

LEMMA TypeStep == TypeOK /\ [Next]_vars => TypeOK'
<1>. SUFFICES ASSUME TypeOK, [Next]_vars PROVE TypeOK'
  OBVIOUS
<1>. USE DEF TypeOK, volume, bounds, Change, Fault, Goto, JobUnchanged, NoPush
<1>1. ASSUME NEW p \in Pods, PodStarts(p) PROVE TypeOK'
  BY <1>1, MounterBounds DEF PodStarts
<1>2. ASSUME NEW p \in Pods, PodStops(p) PROVE TypeOK'
  BY <1>2, MounterBounds DEF PodStops
<1>3. ASSUME NEW p \in Pods, KubeletCleans(p) PROVE TypeOK'
  BY <1>3 DEF KubeletCleans
<1>4. ASSUME NEW p \in Pods, mountBlockVolume(p) PROVE TypeOK'
  BY <1>4, MounterBounds DEF mountBlockVolume, fsTypeCommand
<1>5. ASSUME NEW p \in Pods, Format(p) PROVE TypeOK'
  BY <1>5 DEF Format, createXfs
<1>6. ASSUME NEW p \in Pods, mountIfNotMounted(p) PROVE TypeOK'
  <2>1. \E next \in {"sleep", "mount", "bindOther"} : pod' = [pod EXCEPT ![p] = next]
    BY <1>6 DEF mountIfNotMounted, MountFrom
  <2>. QED  BY <1>6, <2>1, MounterBounds DEF mountIfNotMounted
<1>7. ASSUME NEW p \in Pods, MountDevice(p) PROVE TypeOK'
  BY <1>7, MountDeviceType DEF MountDevice, Sources
<1>8. ASSUME NEW p \in Pods, BindOther(p) PROVE TypeOK'
  BY <1>8, BindType DEF BindOther, Sources
<1>9. ASSUME NEW p \in Pods, bindMountPathOnHost(p) PROVE TypeOK'
  BY <1>9 DEF bindMountPathOnHost
<1>10. ASSUME NEW p \in Pods, Bind(p) PROVE TypeOK'
  <2>1. \E s \in Sources \cup {"missing"} : bindMountCommand(s)
    BY <1>10, BindSource
  <2>2. stack' \in Seq(Sources) /\ blame' \subseteq {"mounter", "stacked", "refused"}
    BY <2>1, BindType
  <2>. QED  BY <1>10, <2>2 DEF Bind, Sources
<1>11. ASSUME NEW p \in Pods, MounterFails(p) PROVE TypeOK'
  BY <1>11, MounterBounds DEF MounterFails
<1>12. CASE CreateFolder
  BY <1>12 DEF CreateFolder
<1>13. CASE Use
  <2>1. content' \in {"blank", "empty", "data"} /\ inUse' \in BOOLEAN
    BY <1>13 DEF Use
  <2>. QED  BY <1>13, <2>1 DEF Use
<1>14. CASE DeleteDeployment \/ CreateDeployment
  <2>1. deployed' \in BOOLEAN
    BY <1>14 DEF DeleteDeployment, CreateDeployment
  <2>2. changes' \in 0..MaxChanges
    BY <1>14, MounterBounds DEF DeleteDeployment, CreateDeployment
  <2>. QED  BY <1>14, <2>1, <2>2 DEF DeleteDeployment, CreateDeployment
<1>15. CASE CreateJob \/ RemoveJob
  <2>1. blame' \subseteq {"mounter", "stacked", "refused"}
    <3>1. CASE CreateJob /\ Len(stack) > 1
      <4>1. blame' = {"stacked"}
        BY <3>1 DEF CreateJob
      <4>. QED  BY <4>1
    <3>2. CASE (CreateJob /\ ~(Len(stack) > 1)) \/ RemoveJob
      <4>1. blame' = {}
        BY <3>2 DEF CreateJob, RemoveJob
      <4>. QED  BY <4>1
    <3>. QED  BY <1>15, <3>1, <3>2
  <2>2. job' \in [pc : {"none", "before", "umount", "after", "done"},
                 saw : {"none", "root", "volume", "directory"}]
    BY <1>15 DEF CreateJob, RemoveJob, NoJob
  <2>. QED  BY <1>15, <2>1, <2>2 DEF CreateJob, RemoveJob
<1>16. CASE LookBefore
  BY <1>16, FindMntType, MounterBounds DEF LookBefore
<1>17. CASE Unmount
  <2>1. stack' \in Seq(Sources) /\ blame' \subseteq {"mounter", "stacked", "refused"}
    BY <1>17, UnmountType DEF Unmount
  <2>. QED  BY <1>17, <2>1, MounterBounds DEF Unmount, Sources
<1>18. CASE LookAfter
  BY <1>18, MounterBounds DEF LookAfter
<1>19. CASE UNCHANGED vars
  BY <1>19 DEF vars
<1>. QED
  BY <1>1, <1>2, <1>3, <1>4, <1>5, <1>6, <1>7, <1>8, <1>9, <1>10, <1>11, <1>12, <1>13, <1>14,
     <1>15, <1>16, <1>17, <1>18, <1>19 DEF Next, MounterStep, JobStep

\* The variables have their types, and a pod that is about to bind has found a directory
\* to bind.
THEOREM MounterTypes == Spec => []TypeOK
<1>1. Init => TypeOK
  <2>. SUFFICES ASSUME Init PROVE TypeOK
    OBVIOUS
  <2>1. content \in {"blank", "empty", "data"} /\ stack \in Seq({"volume", "directory"})
    BY DEF Init
  <2>2. job \in [pc : {"none", "before", "umount", "after", "done"},
                saw : {"none", "root", "volume", "directory"}]
    BY DEF Init, NoJob
  <2>3. \A p \in Pods : pod[p] = "absent" /\ from[p] = {}
    BY DEF Init
  <2>4. kubelet \in [Pods -> {"none", "mounted", "directory"}]
    BY DEF Init
  <2>5. /\ pod \in [Pods -> {"absent", "sleep", "format", "look", "mount", "bindOther", "bind"}]
        /\ from \in [Pods -> SUBSET Pods]
    BY DEF Init
  <2>6. /\ mode \in {"Block", "Filesystem"} /\ usual \in BOOLEAN
        /\ elsewhere \subseteq {"globalmount", "mount"} /\ folder \in BOOLEAN
        /\ blame \subseteq {"mounter", "stacked", "refused"}
        /\ inUse \in BOOLEAN /\ deployed \in BOOLEAN
    BY DEF Init
  <2>7. changes \in 0..MaxChanges /\ faults \in 0..MaxFaults
    BY MounterBounds DEF Init
  <2>. QED  BY <2>1, <2>2, <2>3, <2>4, <2>5, <2>6, <2>7 DEF TypeOK
<1>. QED  BY <1>1, TypeStep, PTL DEF Spec

-----------------------------------------------------------------------------
(* The cleanup job.  As long as nothing is to blame there is at most one     *)
(* mount on the path while it runs, and none once it has unmounted.          *)

JobInv ==
    /\ JobActive /\ blame = {} => Len(stack) <= 1
    /\ job.pc = "after" /\ blame = {} => stack = <<>>

LEMMA PushBlames ==
    ASSUME TypeOK, NEW s \in Sources \cup {"missing"},
           Push(s) \/ bindMountCommand(s) \/ mountDeviceCommand, JobActive, blame' = {}
    PROVE  stack' = stack /\ blame = {}
<1>1. ASSUME NEW t, Push(t) PROVE FALSE
  BY <1>1 DEF Push
<1>. QED  BY <1>1 DEF bindMountCommand, mountDeviceCommand, NoPush

LEMMA JobInvStep == TypeOK /\ JobInv /\ [Next]_vars => JobInv'
<1>. SUFFICES ASSUME TypeOK, JobInv, [Next]_vars PROVE JobInv'
  OBVIOUS
<1>1. CASE UNCHANGED <<stack, blame, job>>
  BY <1>1 DEF JobInv, JobActive
<1>2. ASSUME job' = job, JobActive, blame' = {} => stack' = stack /\ blame = {} PROVE JobInv'
  BY <1>2 DEF JobInv, JobActive
<1>3. ASSUME job' = job, ~JobActive PROVE JobInv'
  BY <1>3 DEF JobInv, JobActive
<1>4. ASSUME NEW p \in Pods,
             \/ PodStarts(p) \/ PodStops(p) \/ KubeletCleans(p) \/ MounterFails(p)
             \/ mountBlockVolume(p) \/ Format(p) \/ mountIfNotMounted(p) \/ bindMountPathOnHost(p)
      PROVE  JobInv'
  <2>1. UNCHANGED <<stack, blame, job>>
    BY <1>4 DEF PodStarts, PodStops, KubeletCleans, MounterFails, mountBlockVolume, Format,
       mountIfNotMounted, bindMountPathOnHost
  <2>. QED  BY <2>1, <1>1
<1>5. ASSUME NEW p \in Pods, MountDevice(p) PROVE JobInv'
  <2>1. job' = job /\ mountDeviceCommand
    BY <1>5 DEF MountDevice
  <2>2. JobActive /\ blame' = {} => stack' = stack /\ blame = {}
    BY <2>1, PushBlames DEF Sources
  <2>. QED  BY <2>1, <2>2, <1>2, <1>3
<1>6. ASSUME NEW p \in Pods, BindOther(p) PROVE JobInv'
  <2>1. job' = job /\ bindMountCommand("volume")
    BY <1>6 DEF BindOther
  <2>2. JobActive /\ blame' = {} => stack' = stack /\ blame = {}
    BY <2>1, PushBlames DEF Sources
  <2>. QED  BY <2>1, <2>2, <1>2, <1>3
<1>7. ASSUME NEW p \in Pods, Bind(p) PROVE JobInv'
  <2>1. PICK s \in Sources \cup {"missing"} : bindMountCommand(s)
    BY <1>7, BindSource
  <2>2. JobActive /\ blame' = {} => stack' = stack /\ blame = {}
    BY <2>1, PushBlames
  <2>3. job' = job
    BY <1>7 DEF Bind
  <2>. QED  BY <2>2, <2>3, <1>2, <1>3
<1>8. CASE CreateFolder \/ Use \/ DeleteDeployment \/ CreateDeployment \/ UNCHANGED vars
  <2>1. UNCHANGED <<stack, blame, job>>
    BY <1>8 DEF CreateFolder, Use, DeleteDeployment, CreateDeployment, vars
  <2>. QED  BY <2>1, <1>1
<1>9. CASE CreateJob
  <2>1. Len(stack) \in Nat /\ stack' = stack /\ job'.pc = "before"
    BY <1>9 DEF CreateJob, TypeOK
  <2>2. CASE Len(stack) > 1
    <3>1. blame' = {"stacked"}
      BY <1>9, <2>2 DEF CreateJob
    <3>. QED  BY <2>1, <3>1 DEF JobInv
  <2>3. CASE ~(Len(stack) > 1)
    BY <2>1, <2>3 DEF JobInv
  <2>. QED  BY <2>2, <2>3
<1>10. CASE RemoveJob
  BY <1>10 DEF RemoveJob, NoJob, JobInv, JobActive
<1>11. CASE LookBefore
  <2>1. job'.pc = "umount" /\ UNCHANGED <<stack, blame>>
    BY <1>11 DEF LookBefore, NoPush
  <2>. QED  BY <1>11, <2>1 DEF LookBefore, JobInv, JobActive
<1>12. CASE Unmount
  <2>1. JobActive
    BY <1>12 DEF Unmount, JobActive
  <2>2. CASE Refused
    <3>1. blame' # {}
      BY <2>2 DEF Refused
    <3>. QED  BY <3>1 DEF JobInv
  <2>3. CASE NoPush /\ stack = <<>>
    BY <2>1, <2>3 DEF JobInv, NoPush
  <2>4. CASE stack # <<>> /\ stack' = SubSeq(stack, 1, Len(stack) - 1) /\ UNCHANGED blame
    <3>1. ASSUME blame = {} PROVE stack' = <<>>
      <4>1. stack \in Seq(Sources) /\ Len(stack) <= 1 /\ Len(stack) \in Nat /\ Len(stack) # 0
        <5>1. stack \in Seq(Sources)
          BY DEF TypeOK, Sources
        <5>2. Len(stack) <= 1
          BY <2>1, <3>1 DEF JobInv
        <5>. QED  BY <5>1, <5>2, <2>4
      <4>2. Len(stack) - 1 = 0
        <5>1. \A n \in Nat : n <= 1 /\ n # 0 => n - 1 = 0
          OBVIOUS
        <5>2. Len(stack) \in Nat /\ Len(stack) <= 1 /\ Len(stack) # 0
          BY <4>1, Zenon
        <5>. QED  BY <5>1, <5>2, Zenon
      <4>3. stack' = SubSeq(stack, 1, 0)
        BY <2>4, <4>2
      <4>4. SubSeq(stack, 1, 0) \in Seq(Sources) /\ Len(SubSeq(stack, 1, 0)) = 0
        BY <4>1
      <4>. QED  BY <4>3, <4>4
    <3>2. Len(<<>>) = 0
      OBVIOUS
    <3>3. CASE blame = {}
      <4>1. stack' = <<>>
        BY <3>1, <3>3
      <4>. QED  BY <4>1, <3>2 DEF JobInv
    <3>4. CASE blame # {}
      <4>1. blame' # {}
        BY <2>4, <3>4
      <4>. QED  BY <4>1 DEF JobInv
    <3>. QED  BY <3>3, <3>4
  <2>. QED  BY <1>12, <2>2, <2>3, <2>4 DEF Unmount, unmountPathCommand
<1>13. CASE LookAfter
  <2>1. job'.pc \in {"before", "done"} /\ UNCHANGED <<stack, blame>>
    BY <1>13 DEF LookAfter, NoPush
  <2>. QED  BY <1>13, <2>1 DEF LookAfter, JobInv, JobActive
<1>. QED
  BY <1>4, <1>5, <1>6, <1>7, <1>8, <1>9, <1>10, <1>11, <1>12, <1>13
     DEF Next, MounterStep, JobStep

LEMMA JobInvHolds == Spec => []JobInv
<1>1. Init => JobInv
  BY DEF Init, NoJob, JobInv, JobActive
<1>. QED  BY <1>1, JobInvStep, MounterTypes, PTL DEF Spec

\* A cleanup job that ends leaves nothing on the path unless an umount failed, mounts were
\* stacked or a pod mounted meanwhile, for any number of pods and of failed lookups.
THEOREM CleanedPath == Spec => JobLeavesNothing
<1>1. JobInv /\ [Next]_vars
        => [job.pc # "done" /\ job'.pc = "done" => stack = <<>> \/ blame # {}]_vars
  <2>. SUFFICES ASSUME JobInv, Next, job.pc # "done", job'.pc = "done"
                PROVE  stack = <<>> \/ blame # {}
    BY DEF vars
  <2>1. LookAfter
    <3>1. \A p \in Pods : ~ (\/ PodStarts(p) \/ PodStops(p) \/ KubeletCleans(p)
                             \/ MounterStep(p) \/ MounterFails(p))
      BY DEF PodStarts, PodStops, KubeletCleans, MounterFails, MounterStep, mountBlockVolume,
         Format, mountIfNotMounted, MountDevice, BindOther, bindMountPathOnHost, Bind
    <3>2. ~ (CreateFolder \/ Use \/ DeleteDeployment \/ CreateDeployment)
      BY DEF CreateFolder, Use, DeleteDeployment, CreateDeployment
    <3>3. ~ (CreateJob \/ RemoveJob \/ LookBefore \/ Unmount)
      BY DEF CreateJob, RemoveJob, NoJob, LookBefore, Unmount
    <3>. QED  BY <3>1, <3>2, <3>3 DEF Next, JobStep
  <2>. QED  BY <2>1 DEF LookAfter, JobInv
<1>. QED  BY <1>1, JobInvHolds, PTL DEF Spec, JobLeavesNothing

-----------------------------------------------------------------------------
(* The mounts on the path.  A pod that is about to mount has room reserved  *)
(* for its mount: it saw the path without the volume, or its lookup failed.  *)

About == {p \in Pods : pod[p] \in {"mount", "bindOther", "bind"}}

\* Only a file system volume is bound from a directory, so on the path of a block volume
\* there is nothing but the volume.
BlockInv ==
    mode = "Block" => /\ \A p \in Pods : pod[p] # "bind"
                      /\ \A i \in DOMAIN stack : stack[i] = "volume"

PileInv == Cardinality(Layers) + Cardinality(About) <= Cardinality(Pods) + faults

LEMMA AddOne ==
    ASSUME NEW S, IsFiniteSet(S), NEW x
    PROVE  /\ IsFiniteSet(S \cup {x}) /\ Cardinality(S \cup {x}) \in Nat
           /\ Cardinality(S \cup {x}) <= Cardinality(S) + 1
<1>1. IsFiniteSet(S \cup {x}) /\ Cardinality(S) \in Nat
  BY FS_AddElement, FS_CardinalityType
<1>2. \/ Cardinality(S \cup {x}) = Cardinality(S)
      \/ Cardinality(S \cup {x}) = Cardinality(S) + 1
  BY FS_AddElement
<1>. QED  BY <1>1, <1>2

LEMMA LayersFinite == TypeOK => IsFiniteSet(Layers) /\ Cardinality(Layers) \in Nat
<1>. SUFFICES ASSUME TypeOK PROVE IsFiniteSet(Layers) /\ Cardinality(Layers) \in Nat
  OBVIOUS
<1>1. Len(stack) \in Nat /\ DOMAIN stack = 1..Len(stack)
  BY DEF TypeOK
<1>2. IsFiniteSet(1..Len(stack))
  BY <1>1, FS_Interval
<1>3. Layers \subseteq 1..Len(stack)
  BY <1>1 DEF Layers
<1>. QED  BY <1>2, <1>3, FS_Subset, FS_CardinalityType

LEMMA AboutFinite ==
    IsFiniteSet(About) /\ Cardinality(About) \in Nat /\ Cardinality(About) <= Cardinality(Pods)
<1>1. About \subseteq Pods
  BY DEF About
<1>. QED  BY <1>1, PodsAssumption, FS_Subset, FS_CardinalityType

LEMMA LayersAfterPush ==
    ASSUME TypeOK, NEW s \in Sources, stack' = Append(stack, s)
    PROVE  IsFiniteSet(Layers') /\ Cardinality(Layers') <= Cardinality(Layers) + 1
<1>. DEFINE n == Len(stack) + 1
<1>1. Layers' \subseteq Layers \cup {n}
  <2>. SUFFICES ASSUME NEW i \in DOMAIN stack', stack'[i] = "volume", i # n PROVE i \in Layers
    BY DEF Layers
  <2>1. stack \in Seq(Sources)
    BY DEF TypeOK, Sources
  <2>2. i \in DOMAIN stack /\ stack'[i] = stack[i]
    BY <2>1
  <2>. QED  BY <2>2 DEF Layers
<1>2. IsFiniteSet(Layers \cup {n}) /\ Cardinality(Layers \cup {n}) <= Cardinality(Layers) + 1
  BY LayersFinite, AddOne
<1>3. IsFiniteSet(Layers') /\ Cardinality(Layers') <= Cardinality(Layers \cup {n})
  BY <1>1, <1>2, FS_Subset
<1>4. Cardinality(Layers') \in Nat /\ Cardinality(Layers \cup {n}) \in Nat
  BY <1>2, <1>3, FS_CardinalityType
<1>. QED  BY <1>2, <1>3, <1>4, LayersFinite

LEMMA LayersAfterUmount ==
    ASSUME TypeOK, stack # <<>>, stack' = SubSeq(stack, 1, Len(stack) - 1)
    PROVE  Layers' \subseteq Layers
<1>. SUFFICES ASSUME NEW i \in DOMAIN stack', stack'[i] = "volume" PROVE i \in Layers
  BY DEF Layers
<1>1. stack \in Seq(Sources) /\ Len(stack) \in Nat /\ Len(stack) # 0
  BY DEF TypeOK, Sources
<1>2. i \in DOMAIN stack /\ stack'[i] = stack[i]
  BY <1>1
<1>. QED  BY <1>2 DEF Layers

LEMMA ModeStep == [Next]_vars => mode' = mode
<1>. SUFFICES ASSUME [Next]_vars PROVE mode' = mode
  OBVIOUS
<1>1. ASSUME NEW p \in Pods,
             PodStarts(p) \/ PodStops(p) \/ KubeletCleans(p) \/ MounterStep(p) \/ MounterFails(p)
      PROVE  mode' = mode
  BY <1>1 DEF volume, PodStarts, PodStops, KubeletCleans, MounterStep, MounterFails,
     mountBlockVolume, Format, mountIfNotMounted, MountDevice, BindOther,
     bindMountPathOnHost, Bind
<1>2. CASE \/ CreateFolder \/ Use \/ DeleteDeployment \/ CreateDeployment
           \/ CreateJob \/ RemoveJob
  BY <1>2 DEF volume, CreateFolder, Use, DeleteDeployment, CreateDeployment, CreateJob,
     RemoveJob
<1>3. CASE JobStep
  BY <1>3 DEF volume, JobStep, LookBefore, Unmount, LookAfter, JobUnchanged
<1>4. CASE UNCHANGED vars
  BY <1>4 DEF vars
<1>. QED  BY <1>1, <1>2, <1>3, <1>4 DEF Next

\* With a file system volume pods never get to the block volume's places.
FileInv ==
    mode = "Filesystem" => \A p \in Pods : pod[p] \in {"absent", "sleep", "bind"}

LEMMA FileStep == TypeOK /\ FileInv /\ [Next]_vars => FileInv'
<1>. SUFFICES ASSUME TypeOK, FileInv, [Next]_vars, mode = "Filesystem"
              PROVE  \A q \in Pods : pod'[q] \in {"absent", "sleep", "bind"}
  BY ModeStep DEF FileInv
<1>1. ASSUME NEW p \in Pods, NEW place \in {"absent", "sleep", "bind"},
             pod' = [pod EXCEPT ![p] = place]
      PROVE  \A q \in Pods : pod'[q] \in {"absent", "sleep", "bind"}
  BY <1>1 DEF FileInv, TypeOK
<1>2. CASE pod' = pod
  BY <1>2 DEF FileInv
<1>3. ASSUME NEW p \in Pods, PodStarts(p) \/ PodStops(p) \/ MounterFails(p)
      PROVE  \A q \in Pods : pod'[q] \in {"absent", "sleep", "bind"}
  BY <1>1, <1>3 DEF PodStarts, PodStops, MounterFails, Goto
<1>4. ASSUME NEW p \in Pods, KubeletCleans(p)
      PROVE  \A q \in Pods : pod'[q] \in {"absent", "sleep", "bind"}
  BY <1>2, <1>4 DEF KubeletCleans
<1>5. ASSUME NEW p \in Pods, bindMountPathOnHost(p) \/ Bind(p)
      PROVE  \A q \in Pods : pod'[q] \in {"absent", "sleep", "bind"}
  BY <1>1, <1>5 DEF bindMountPathOnHost, Bind, Goto
<1>6. ASSUME NEW p \in Pods, \/ mountBlockVolume(p) \/ Format(p) \/ mountIfNotMounted(p)
                             \/ MountDevice(p) \/ BindOther(p)
      PROVE  FALSE
  <2>1. pod[p] \in {"absent", "sleep", "bind"} /\ mode # "Block"
    BY DEF FileInv
  <2>. QED
    BY <1>6, <2>1 DEF mountBlockVolume, Format, mountIfNotMounted, MountDevice, BindOther
<1>7. CASE \/ CreateFolder \/ Use \/ DeleteDeployment \/ CreateDeployment \/ CreateJob
           \/ RemoveJob \/ JobStep \/ UNCHANGED vars
  <2>1. pod' = pod
    BY <1>7 DEF CreateFolder, Use, DeleteDeployment, CreateDeployment, CreateJob, RemoveJob,
       JobStep, LookBefore, Unmount, LookAfter, JobUnchanged, vars
  <2>. QED  BY <1>2, <2>1
<1>. QED  BY <1>3, <1>4, <1>5, <1>6, <1>7 DEF Next, MounterStep

LEMMA BlockStep == TypeOK /\ BlockInv /\ [Next]_vars => BlockInv'
<1>. SUFFICES ASSUME TypeOK, BlockInv, [Next]_vars, mode = "Block" PROVE BlockInv'
  BY ModeStep DEF BlockInv
<1>1. stack \in Seq(Sources)
  BY DEF TypeOK, Sources
<1>2. ASSUME Push("volume") PROVE \A i \in DOMAIN stack' : stack'[i] = "volume"
  <2>. SUFFICES ASSUME NEW i \in DOMAIN stack' PROVE stack'[i] = "volume"
    OBVIOUS
  <2>1. stack' = Append(stack, "volume") /\ Len(stack) \in Nat
    BY <1>1, <1>2 DEF Push
  <2>2. CASE i = Len(stack) + 1
    BY <1>1, <2>1, <2>2
  <2>3. CASE i # Len(stack) + 1
    <3>1. i \in DOMAIN stack /\ stack'[i] = stack[i]
      BY <1>1, <2>1, <2>3
    <3>. QED  BY <3>1 DEF BlockInv
  <2>. QED  BY <2>2, <2>3
<1>3. ASSUME NEW p \in Pods, MounterStep(p) \/ MounterFails(p) \/ PodStarts(p) \/ PodStops(p)
      PROVE  \A q \in Pods : pod'[q] # "bind"
  <2>1. ASSUME NEW place, place # "bind", pod' = [pod EXCEPT ![p] = place]
        PROVE  \A q \in Pods : pod'[q] # "bind"
    BY <2>1 DEF BlockInv, TypeOK
  <2>2. CASE mountBlockVolume(p)
    BY <2>1, <2>2 DEF mountBlockVolume, fsTypeCommand
  <2>3. CASE Format(p) \/ MountDevice(p) \/ BindOther(p) \/ Bind(p) \/ MounterFails(p)
    BY <2>1, <2>3 DEF Format, MountDevice, BindOther, Bind, MounterFails, Goto
  <2>4. CASE mountIfNotMounted(p)
    BY <2>1, <2>4 DEF mountIfNotMounted, MountFrom, Goto
  <2>5. CASE PodStarts(p) \/ PodStops(p)
    BY <2>1, <2>5 DEF PodStarts, PodStops
  <2>6. CASE bindMountPathOnHost(p)
    BY <2>6 DEF bindMountPathOnHost
  <2>. QED  BY <1>3, <2>2, <2>3, <2>4, <2>5, <2>6 DEF MounterStep
<1>4. ASSUME NEW p \in Pods, MounterStep(p) \/ MounterFails(p) \/ PodStarts(p) \/ PodStops(p)
      PROVE  \A i \in DOMAIN stack' : stack'[i] = "volume"
  <2>1. CASE MountDevice(p) \/ BindOther(p)
    <3>1. CASE Push("volume")
      BY <1>2, <3>1
    <3>2. CASE NoPush
      BY <3>2 DEF NoPush, BlockInv
    <3>. QED
      BY <2>1, <3>1, <3>2 DEF MountDevice, BindOther, mountDeviceCommand, bindMountCommand
  <2>2. CASE \/ mountBlockVolume(p) \/ Format(p) \/ mountIfNotMounted(p) \/ bindMountPathOnHost(p)
             \/ MounterFails(p) \/ PodStarts(p) \/ PodStops(p)
    <3>1. stack' = stack
      BY <2>2 DEF mountBlockVolume, Format, mountIfNotMounted, bindMountPathOnHost, MounterFails,
         PodStarts, PodStops
    <3>. QED  BY <3>1 DEF BlockInv
  <2>3. CASE Bind(p)
    BY <2>3 DEF Bind, BlockInv
  <2>. QED  BY <1>4, <2>1, <2>2, <2>3 DEF MounterStep
<1>5. ASSUME NEW p \in Pods, KubeletCleans(p) PROVE BlockInv'
  BY <1>5 DEF KubeletCleans, BlockInv
<1>6. CASE \/ CreateFolder \/ Use \/ DeleteDeployment \/ CreateDeployment \/ CreateJob
           \/ RemoveJob \/ LookBefore \/ LookAfter \/ UNCHANGED vars
  <2>1. UNCHANGED <<stack, pod>>
    BY <1>6 DEF CreateFolder, Use, DeleteDeployment, CreateDeployment, CreateJob, RemoveJob,
       LookBefore, LookAfter, JobUnchanged, NoPush, vars
  <2>. QED  BY <2>1 DEF BlockInv
<1>7. CASE Unmount
  <2>1. pod' = pod
    BY <1>7 DEF Unmount, JobUnchanged
  <2>2. CASE stack # <<>> /\ stack' = SubSeq(stack, 1, Len(stack) - 1)
    <3>1. Len(stack) \in Nat /\ Len(stack) # 0
      BY <1>1, <2>2
    <3>2. \A i \in DOMAIN stack' : i \in DOMAIN stack /\ stack'[i] = stack[i]
      BY <1>1, <2>2, <3>1
    <3>. QED  BY <2>1, <3>2 DEF BlockInv
  <2>3. CASE stack' = stack
    BY <2>1, <2>3 DEF BlockInv
  <2>. QED  BY <1>7, <2>2, <2>3 DEF Unmount, unmountPathCommand, NoPush, Refused
<1>. QED  BY <1>3, <1>4, <1>5, <1>6, <1>7 DEF Next, JobStep, BlockInv

\* A pod that is no longer about to mount gives its room back.
LEMMA AboutAfterMount ==
    ASSUME TypeOK, NEW p \in About, pod' = [pod EXCEPT ![p] = "sleep"]
    PROVE  Cardinality(About') = Cardinality(About) - 1
<1>1. About' = About \ {p}
  BY DEF About, TypeOK
<1>. QED  BY <1>1, AboutFinite, FS_RemoveElement

\* A pod that goes anywhere else does not take room.
LEMMA AboutAfterOther ==
    ASSUME TypeOK, NEW p \in Pods, NEW place, pod' = [pod EXCEPT ![p] = place],
           place \notin {"mount", "bindOther", "bind"}
    PROVE  Cardinality(About') \in Nat /\ Cardinality(About') <= Cardinality(About)
<1>1. About' \subseteq About
  BY DEF About, TypeOK
<1>. QED  BY <1>1, AboutFinite, FS_Subset, FS_CardinalityType

\* A pod that is about to mount takes room for one.
LEMMA AboutAfterLook ==
    ASSUME TypeOK, NEW p \in Pods, NEW place, pod' = [pod EXCEPT ![p] = place]
    PROVE  /\ Cardinality(About') \in Nat /\ Cardinality(About') <= Cardinality(About) + 1
           /\ Cardinality(About') <= Cardinality(Pods)
<1>1. About' \subseteq About \cup {p} /\ About' \subseteq Pods
  BY DEF About, TypeOK
<1>2. IsFiniteSet(About \cup {p}) /\ Cardinality(About \cup {p}) <= Cardinality(About) + 1
  BY AboutFinite, AddOne
<1>3. /\ IsFiniteSet(About') /\ Cardinality(About') <= Cardinality(About \cup {p})
      /\ Cardinality(About') <= Cardinality(Pods)
  BY <1>1, <1>2, PodsAssumption, FS_Subset
<1>4. Cardinality(About') \in Nat /\ Cardinality(About \cup {p}) \in Nat
  BY <1>2, <1>3, FS_CardinalityType
<1>. QED  BY <1>2, <1>3, <1>4, AboutFinite

LEMMA PileStep == TypeOK /\ FileInv /\ BlockInv /\ PileInv /\ [Next]_vars => PileInv'
<1>. SUFFICES ASSUME TypeOK, FileInv, BlockInv, PileInv, [Next]_vars PROVE PileInv'
  OBVIOUS
<1>. DEFINE N == Cardinality(Pods)
            L == Cardinality(Layers)
            A == Cardinality(About)
<1>1. N \in Nat /\ L \in Nat /\ A \in Nat /\ A <= N /\ faults \in Nat /\ L + A <= N + faults
  BY PodsAssumption, FS_CardinalityType, LayersFinite, AboutFinite, MounterBounds
     DEF TypeOK, PileInv
<1>2. ASSUME stack' = stack PROVE L' = L
  BY <1>2 DEF Layers
<1>3. ASSUME pod' = pod PROVE A' = A
  BY <1>3 DEF About
\* Nobody is about to mount who was not, and nothing is mounted.
<1>4. ASSUME stack' = stack, faults' \in Nat, faults' >= faults, A' \in Nat, A' <= A PROVE PileInv'
  <2>1. L' = L
    BY <1>2, <1>4
  <2>2. L' + A' <= N + faults'
    BY <1>1, <1>4, <2>1
  <2>. QED  BY <2>2 DEF PileInv
<1>5. ASSUME NEW p \in Pods, NEW place, pod' = [pod EXCEPT ![p] = place],
             place \notin {"mount", "bindOther", "bind"},
             stack' = stack, faults' = faults \/ Fault
      PROVE  PileInv'
  <2>1. faults' \in Nat /\ faults' >= faults
    BY <1>1, <1>5 DEF Fault
  <2>. QED  BY <1>4, <1>5, <2>1, AboutAfterOther
<1>6. ASSUME NEW p \in Pods,
             PodStarts(p) \/ PodStops(p) \/ mountBlockVolume(p) \/ Format(p) \/ MounterFails(p)
      PROVE  PileInv'
  <2>1. CASE PodStarts(p) \/ PodStops(p)
    BY <1>5, <2>1 DEF PodStarts, PodStops
  <2>2. CASE mountBlockVolume(p)
    BY <1>5, <2>2 DEF mountBlockVolume, fsTypeCommand
  <2>3. CASE Format(p)
    BY <1>5, <2>3 DEF Format, Goto, bounds
  <2>4. CASE MounterFails(p)
    BY <1>5, <2>4 DEF MounterFails, Goto
  <2>. QED  BY <1>6, <2>1, <2>2, <2>3, <2>4
\* A pod that saw no volume on the path: there is room for all pods.
<1>7. ASSUME NEW p \in Pods, NEW place, pod' = [pod EXCEPT ![p] = place], stack' = stack,
             Layers = {}, faults' = faults
      PROVE  PileInv'
  <2>1. L' = 0
    BY <1>2, <1>7, FS_EmptySet
  <2>2. A' \in Nat /\ A' <= N
    BY <1>7, AboutAfterLook
  <2>3. L' + A' <= N + faults'
    BY <1>1, <1>7, <2>1, <2>2
  <2>. QED  BY <2>3 DEF PileInv
\* A pod whose lookup failed: the fault pays for it.
<1>8. ASSUME NEW p \in Pods, NEW place, pod' = [pod EXCEPT ![p] = place], stack' = stack, Fault
      PROVE  PileInv'
  <2>1. L' = L /\ faults' = faults + 1
    BY <1>2, <1>8 DEF Fault
  <2>2. A' \in Nat /\ A' <= A + 1
    BY <1>8, AboutAfterLook
  <2>3. L' + A' <= N + faults'
    BY <1>1, <2>1, <2>2
  <2>. QED  BY <2>3 DEF PileInv
<1>9. ASSUME NEW p \in Pods, mountIfNotMounted(p) PROVE PileInv'
  <2>1. stack' = stack
    BY <1>9 DEF mountIfNotMounted
  <2>2. CASE Goto(p, "sleep") /\ UNCHANGED faults
    BY <1>5, <2>1, <2>2 DEF Goto
  <2>3. CASE findMntByVolume # "volume" /\ MountFrom(p) /\ UNCHANGED faults
    <3>1. Layers = {}
      <4>3. mode = "Block"
        BY <1>9 DEF FileInv, mountIfNotMounted, TypeOK
      <4>1. CASE stack = <<>>
        BY <4>1 DEF Layers
      <4>2. CASE stack # <<>>
        <5>1. 1 \in DOMAIN stack
          BY <4>2 DEF TypeOK
        <5>. QED  BY <2>3, <4>3, <4>2, <5>1 DEF findMntByVolume, BlockInv
      <4>. QED  BY <4>1, <4>2
    <3>. QED  BY <1>7, <1>9, <2>1, <2>3, <3>1 DEF MountFrom, Goto, mountIfNotMounted
  <2>4. CASE Fault /\ MountFrom(p)
    BY <1>8, <2>1, <2>4 DEF MountFrom, Goto
  <2>. QED  BY <1>9, <2>2, <2>3, <2>4 DEF mountIfNotMounted
<1>10. ASSUME NEW p \in Pods, bindMountPathOnHost(p) PROVE PileInv'
  <2>1. Layers = {}
    BY <1>10 DEF bindMountPathOnHost, OnPath, Layers
  <2>. QED  BY <1>7, <1>10, <2>1 DEF bindMountPathOnHost, Goto, bounds
\* A pod that mounts gives the room it had to the mount.
<1>11. ASSUME NEW p \in About, pod' = [pod EXCEPT ![p] = "sleep"], faults' = faults,
              (\E s \in Sources : stack' = Append(stack, s)) \/ stack' = stack
       PROVE  PileInv'
  <2>1. A' = A - 1
    BY <1>11, AboutAfterMount
  <2>2. L' \in Nat /\ L' <= L + 1
    <3>1. CASE stack' = stack
      BY <1>1, <1>2, <3>1
    <3>2. CASE \E s \in Sources : stack' = Append(stack, s)
      <4>1. IsFiniteSet(Layers') /\ L' <= L + 1
        BY <3>2, LayersAfterPush
      <4>. QED  BY <4>1, FS_CardinalityType
    <3>. QED  BY <1>11, <3>1, <3>2
  <2>3. L' + A' <= N + faults'
    BY <1>1, <1>11, <2>1, <2>2
  <2>. QED  BY <2>3 DEF PileInv
<1>12. ASSUME NEW p \in Pods, MountDevice(p) \/ BindOther(p) \/ Bind(p) PROVE PileInv'
  <2>1. p \in About /\ pod' = [pod EXCEPT ![p] = "sleep"] /\ faults' = faults
    BY <1>12 DEF MountDevice, BindOther, Bind, About, Goto, bounds
  <2>2. CASE MountDevice(p) \/ BindOther(p)
    <3>1. (\E s \in Sources : stack' = Append(stack, s)) \/ stack' = stack
      BY <2>2 DEF MountDevice, BindOther, mountDeviceCommand, bindMountCommand, Push, NoPush, Sources
    <3>. QED  BY <1>11, <2>1, <3>1
  <2>3. CASE Bind(p)
    <3>1. PICK s \in Sources \cup {"missing"} : bindMountCommand(s)
      BY <2>3, BindSource
    <3>2. (s \in Sources /\ stack' = Append(stack, s)) \/ stack' = stack
      BY <3>1 DEF bindMountCommand, Push, NoPush
    <3>. QED  BY <1>11, <2>1, <3>2
  <2>. QED  BY <1>12, <2>2, <2>3
<1>13. ASSUME NEW p \in Pods, KubeletCleans(p) PROVE PileInv'
  BY <1>1, <1>3, <1>4, <1>13 DEF KubeletCleans, bounds
<1>14. CASE \/ CreateFolder \/ Use \/ DeleteDeployment \/ CreateDeployment \/ CreateJob
            \/ RemoveJob \/ LookBefore \/ LookAfter \/ UNCHANGED vars
  <2>1. stack' = stack /\ pod' = pod
    BY <1>14 DEF CreateFolder, Use, DeleteDeployment, CreateDeployment, CreateJob, RemoveJob,
       LookBefore, LookAfter, JobUnchanged, NoPush, vars
  <2>2. faults' = faults \/ Fault
    BY <1>14 DEF CreateFolder, Use, DeleteDeployment, CreateDeployment, CreateJob, RemoveJob,
       LookBefore, LookAfter, bounds, vars
  <2>3. faults' \in Nat /\ faults' >= faults
    BY <1>1, <2>2 DEF Fault
  <2>. QED  BY <1>1, <1>3, <1>4, <2>1, <2>3
<1>15. CASE Unmount
  <2>1. pod' = pod
    BY <1>15 DEF Unmount, JobUnchanged
  <2>2. faults' \in Nat /\ faults' >= faults
    BY <1>1, <1>15 DEF Unmount, Fault
  <2>3. L' \in Nat /\ L' <= L
    <3>1. CASE stack' = stack
      BY <1>1, <1>2, <3>1
    <3>2. CASE stack # <<>> /\ stack' = SubSeq(stack, 1, Len(stack) - 1)
      <4>1. Layers' \subseteq Layers
        BY <3>2, LayersAfterUmount
      <4>. QED  BY <4>1, LayersFinite, FS_Subset, FS_CardinalityType
    <3>. QED  BY <1>15, <3>1, <3>2 DEF Unmount, unmountPathCommand, NoPush, Refused
  <2>4. L' + A' <= N + faults'
    BY <1>1, <1>3, <2>1, <2>2, <2>3
  <2>. QED  BY <2>4 DEF PileInv
<1>. QED
  BY <1>6, <1>9, <1>10, <1>12, <1>13, <1>14, <1>15 DEF Next, MounterStep, JobStep

\* However pods of a rollout look and mount at the same time, there are at most as many
\* mounts of the volume on the path as pods and failed commands.
THEOREM MountsBounded == Spec => []NoPileUp
<1>1. Init => FileInv /\ BlockInv /\ PileInv
  <2>. SUFFICES ASSUME Init PROVE FileInv /\ BlockInv /\ PileInv
    OBVIOUS
  <2>1. \A p \in Pods : pod[p] = "absent"
    BY DEF Init
  <2>2. DOMAIN stack = {}
    BY DEF Init
  <2>3. Layers = {} /\ About = {} /\ faults = 0
    BY <2>1, <2>2 DEF Layers, About, Init
  <2>4. PileInv
    BY <2>3, PodsAssumption, FS_EmptySet, FS_CardinalityType DEF PileInv
  <2>. QED  BY <2>1, <2>2, <2>4 DEF FileInv, BlockInv
<1>2. TypeOK /\ PileInv => NoPileUp
  <2>. SUFFICES ASSUME TypeOK, PileInv PROVE NoPileUp
    OBVIOUS
  <2>1. Cardinality(Layers) \in Nat /\ Cardinality(About) \in Nat /\ Cardinality(Pods) \in Nat
    BY LayersFinite, AboutFinite, PodsAssumption, FS_CardinalityType
  <2>2. faults \in Nat
    BY MounterBounds DEF TypeOK
  <2>. QED  BY <2>1, <2>2 DEF PileInv, NoPileUp
<1>. QED
  BY <1>1, <1>2, MounterTypes, FileStep, BlockStep, PileStep, PTL DEF Spec

=============================================================================
