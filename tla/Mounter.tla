------------------------------ MODULE Mounter ------------------------------
(***************************************************************************)
(* The mounter of one storage pool on one node.  The pod of the pool's     *)
(* deployment loops: it looks at the mount table and mounts the volume of  *)
(* the pool's claim on the pool's path if it is not there.  The cleanup    *)
(* job loops as well: it unmounts the path.  Look and mount are commands of*)
(* their own, several pods run at once while the deployment is rolled out, *)
(* and a pod whose command fails is restarted.                             *)
(***************************************************************************)
EXTENDS Naturals, Sequences, FiniteSets

CONSTANTS
    Pods,       \* pods of the deployment that may exist at the same time
    MaxChanges, \* bound: surplus pods, evictions, deployments made and deleted
    MaxFaults,  \* bound: commands that fail
    MaxDepth    \* bound: mounts on the path

ASSUME PodsAssumption == IsFiniteSet(Pods) /\ Pods # {}
ASSUME MounterBounds == MaxChanges \in Nat /\ MaxFaults \in Nat /\ MaxDepth \in Nat

VARIABLES
    mode,      \* volumeMode of the claim
    usual,     \* Block: the host has the device under the name lsblk gives it;
               \* Filesystem: pods get the root of the volume's file system
    elsewhere, \* mounts of the device at other paths of the host
    content,   \* of the volume: "blank", "empty" (a file system) or "data"
    folder,    \* does the pool's path exist on the host?
    stack,     \* mounts on the path, the oldest first: the volume, or by
               \* mistake a directory of the host
    kubelet,   \* per pod, its volume directory on the host
    pod,       \* per pod, the place in the mounter's loop
    from,      \* per pod, the pod, if any, whose directory it is about to bind
    job,       \* the cleanup job
    blame,     \* what has got in the way of the job so far
    inUse,     \* are there open files on the path?
    deployed,  \* does the deployment exist?
    changes,   \* number of changes so far
    faults     \* number of faults so far

vars == <<mode, usual, elsewhere, content, folder, stack, kubelet, pod, from, job, blame,
          inUse, deployed, changes, faults>>

volume == <<mode, usual, elsewhere>>
bounds == <<changes, faults>>

Running == {p \in Pods : pod[p] # "absent"}

\* A job: its place in unmountPath and the source that it saw before.
NoJob == [pc |-> "none", saw |-> "none"]

JobActive == job.pc \in {"before", "umount", "after"}

Init ==
    /\ mode \in {"Block", "Filesystem"}
    /\ usual \in BOOLEAN
    /\ elsewhere \in SUBSET {"globalmount", "mount"}
    /\ mode = "Filesystem" => elsewhere = {}
    /\ content \in (IF mode = "Block" THEN {"blank", "empty", "data"} ELSE {"empty", "data"})
    /\ content = "blank" => elsewhere = {}
    /\ folder \in BOOLEAN
    /\ stack = <<>> /\ inUse = FALSE
    /\ kubelet = [p \in Pods |-> "none"]
    /\ pod = [p \in Pods |-> "absent"] /\ from = [p \in Pods |-> {}]
    /\ job = NoJob /\ blame = {}
    /\ deployed = TRUE
    /\ changes = 0 /\ faults = 0

-----------------------------------------------------------------------------
(* The cluster and the host: external.                                     *)

Change == changes < MaxChanges /\ changes' = changes + 1

Fault == faults < MaxFaults /\ faults' = faults + 1

\* A pod starts when none runs, and beside others during a rollout.  The kubelet
\* mounts a Filesystem volume for it.
PodStarts(p) ==
    /\ deployed /\ pod[p] = "absent" /\ kubelet[p] = "none"
    /\ IF Running = {} THEN UNCHANGED changes ELSE Change
    /\ pod' = [pod EXCEPT ![p] = "sleep"]
    /\ kubelet' = [kubelet EXCEPT ![p] = IF mode = "Filesystem" THEN "mounted" ELSE "none"]
    /\ UNCHANGED <<volume, content, folder, stack, from, job, blame, inUse, deployed, faults>>

\* A pod is evicted or replaced, or its deployment is gone.
PodStops(p) ==
    /\ p \in Running
    /\ IF deployed THEN Change ELSE UNCHANGED changes
    /\ pod' = [pod EXCEPT ![p] = "absent"] /\ from' = [from EXCEPT ![p] = {}]
    /\ UNCHANGED <<volume, content, folder, stack, kubelet, job, blame, inUse, deployed, faults>>

\* The kubelet unmounts the volume of a pod that is gone, then removes the directory.
KubeletCleans(p) ==
    /\ pod[p] = "absent" /\ kubelet[p] # "none"
    /\ kubelet' = [kubelet EXCEPT ![p] = IF @ = "mounted" THEN "directory" ELSE "none"]
    /\ UNCHANGED <<volume, content, folder, stack, pod, from, job, blame, inUse, deployed, bounds>>

\* The CSI driver creates the pool's path.
CreateFolder ==
    /\ ~folder /\ folder' = TRUE
    /\ UNCHANGED <<volume, content, stack, kubelet, pod, from, job, blame, inUse, deployed, bounds>>

\* A workload opens a file on the path or closes its files.
Use ==
    /\ stack # <<>> /\ inUse' = ~inUse
    /\ content' = IF stack[Len(stack)] = "volume" THEN "data" ELSE content
    /\ UNCHANGED <<volume, folder, stack, kubelet, pod, from, job, blame, deployed, bounds>>

\* The operator creates the cleanup job and then deletes the deployment.  It may stop in
\* between, and a deployment that is deleted by hand has no job yet.
DeleteDeployment ==
    /\ Change /\ deployed /\ deployed' = FALSE
    /\ UNCHANGED <<volume, content, folder, stack, kubelet, pod, from, job, blame, inUse, faults>>

CreateJob ==
    /\ job.pc = "none"
    /\ job' = [pc |-> "before", saw |-> "none"]
    /\ blame' = IF Len(stack) > 1 THEN {"stacked"} ELSE {}
    /\ UNCHANGED <<volume, content, folder, stack, kubelet, pod, from, inUse, deployed, bounds>>

\* The pool is used again, perhaps before the job is done; jobs that are done are removed.
CreateDeployment ==
    /\ Change /\ ~deployed /\ deployed' = TRUE
    /\ UNCHANGED <<volume, content, folder, stack, kubelet, pod, from, job, blame, inUse, faults>>

RemoveJob ==
    /\ job.pc = "done" /\ job' = NoJob /\ blame' = {}
    /\ UNCHANGED <<volume, content, folder, stack, kubelet, pod, from, inUse, deployed, bounds>>

-----------------------------------------------------------------------------
(* The commands.                                                           *)

\* mountinfo: the sources of the mounts on the path.
OnPath == {stack[i] : i \in DOMAIN stack}

\* findmnt -T: the source of the mount that the path is on.  Of several mounts the
\* oldest comes first, and only the first one is looked at.
findMntByVolume == IF stack = <<>> THEN "root" ELSE stack[1]

\* A mount on the path.  A mount during the cleanup job, or on top of another one,
\* gets in the way of the job.
Push(source) ==
    /\ stack' = Append(stack, source)
    /\ blame' = blame \cup (IF JobActive THEN {"mounter"} ELSE {})
                      \cup (IF stack # <<>> THEN {"stacked"} ELSE {})

NoPush == UNCHANGED <<stack, blame>>

\* mount -o bind: works whatever is mounted on the path.
bindMountCommand(source) ==
    IF folder /\ source # "missing" /\ Len(stack) < MaxDepth THEN Push(source) ELSE NoPush

\* mount: refuses a blank device, and a device on top of itself.
mountDeviceCommand ==
    IF content # "blank" /\ (stack = <<>> \/ stack[Len(stack)] # "volume") THEN Push("volume")
    ELSE NoPush

\* An umount that fails gets in the way of the job too.
Refused == blame' = blame \cup {"refused"} /\ UNCHANGED stack

\* umount: takes off the mount on top, unless it is in use.
unmountPathCommand ==
    IF stack = <<>> THEN NoPush
    ELSE IF inUse THEN Refused
    ELSE stack' = SubSeq(stack, 1, Len(stack) - 1) /\ UNCHANGED blame

\* mkfs.xfs: refuses a device with a file system, by an error.
createXfs == content' = IF content = "blank" THEN "empty" ELSE content

\* Mutant of fsTypeCommand: the outcome of blkid is not looked at.
fsTypeCommandIgnored(p) ==
    /\ pod' = [pod EXCEPT ![p] = "format"]
    /\ UNCHANGED faults

\* blkid: no output on a blank device; it may fail, with or without output.
fsTypeCommand(p) ==
    \/ /\ pod' = [pod EXCEPT ![p] = IF content = "blank" THEN "format" ELSE "look"]
       /\ UNCHANGED faults
    \/ /\ Fault
       /\ \E next \in {"format", "look"} : pod' = [pod EXCEPT ![p] = next]

-----------------------------------------------------------------------------
(* The pod of the deployment: main's loop, one action per command.  After a *)
(* panic or an exit the container is restarted, and sleeps as after a round.*)

Goto(p, place) == pod' = [pod EXCEPT ![p] = place]

\* A block volume: is there a file system?
mountBlockVolume(p) ==
    /\ pod[p] = "sleep" /\ mode = "Block"
    /\ fsTypeCommand(p)
    /\ UNCHANGED <<volume, content, folder, stack, kubelet, from, job, blame, inUse, deployed, changes>>

\* Format it; a failure is a panic.
Format(p) ==
    /\ pod[p] = "format"
    /\ createXfs
    /\ Goto(p, IF content = "blank" THEN "look" ELSE "sleep")
    /\ UNCHANGED <<volume, folder, stack, kubelet, from, job, blame, inUse, deployed, bounds>>

\* The mounts of the volume on the path.
Layers == {i \in DOMAIN stack : stack[i] = "volume"}

\* findmnt -S: the mounts of the device that may be bound if the host has no device of
\* that name.  The only one, else the only global one.
filterGlobalMounts ==
    IF Cardinality(elsewhere) = 1 /\ Layers = {} THEN elsewhere ELSE elsewhere \cap {"globalmount"}

\* Mount the device, or bind another mount of it, or exit.
MountFrom(p) ==
    Goto(p, IF usual THEN "mount"
            ELSE IF filterGlobalMounts # {} THEN "bindOther" ELSE "sleep")

\* Is the volume on the path?  A lookup that fails counts as no.
mountIfNotMounted(p) ==
    /\ pod[p] = "look"
    /\ \/ findMntByVolume = "volume" /\ Goto(p, "sleep") /\ UNCHANGED faults
       \/ findMntByVolume # "volume" /\ MountFrom(p) /\ UNCHANGED faults
       \/ Fault /\ MountFrom(p)
    /\ UNCHANGED <<volume, content, folder, stack, kubelet, from, job, blame, inUse, deployed, changes>>

\* The path is created first.
MountDevice(p) ==
    /\ pod[p] = "mount"
    /\ folder' = TRUE
    /\ mountDeviceCommand
    /\ Goto(p, "sleep")
    /\ UNCHANGED <<volume, content, kubelet, from, job, inUse, deployed, bounds>>

BindOther(p) ==
    /\ pod[p] = "bindOther"
    /\ bindMountCommand("volume")
    /\ Goto(p, "sleep")
    /\ UNCHANGED <<volume, content, folder, kubelet, from, job, inUse, deployed, bounds>>

\* Mutant of bindMountPathOnHost: a mount that exists is not looked for.
bindMountPathOnHostAgain(p) ==
    /\ pod[p] = "sleep" /\ mode = "Filesystem" /\ usual
    /\ \E q \in Pods : /\ kubelet[q] = "mounted"
                       /\ from' = [from EXCEPT ![p] = {q}]
    /\ Goto(p, "bind")
    /\ UNCHANGED <<volume, content, folder, stack, kubelet, job, blame, inUse, deployed, bounds>>

\* Mutant of bindMountPathOnHost: binds whatever it found, nothing too.
bindMountPathOnHostAny(p) ==
    /\ pod[p] = "sleep" /\ mode = "Filesystem"
    /\ "volume" \notin OnPath
    /\ IF usual THEN \E q \in Pods : /\ kubelet[q] = "mounted"
                                     /\ from' = [from EXCEPT ![p] = {q}]
                ELSE UNCHANGED from
    /\ Goto(p, "bind")
    /\ UNCHANGED <<volume, content, folder, stack, kubelet, job, blame, inUse, deployed, bounds>>

\* A file system volume: if no mount of its device is on the path, take the directory
\* of any pod that has it; without one (usual is false) exit, and start again.
bindMountPathOnHost(p) ==
    /\ pod[p] = "sleep" /\ mode = "Filesystem"
    /\ "volume" \notin OnPath
    /\ usual
    /\ \E q \in Pods : /\ kubelet[q] = "mounted"
                       /\ from' = [from EXCEPT ![p] = {q}]
    /\ Goto(p, "bind")
    /\ UNCHANGED <<volume, content, folder, stack, kubelet, job, blame, inUse, deployed, bounds>>

\* By now the directory may have lost its mount, or be gone.
Bind(p) ==
    /\ pod[p] = "bind"
    /\ \E q \in from[p] :
         bindMountCommand(IF kubelet[q] = "mounted" THEN "volume"
                          ELSE IF kubelet[q] = "directory" THEN "directory" ELSE "missing")
    /\ Goto(p, "sleep") /\ from' = [from EXCEPT ![p] = {}]
    /\ UNCHANGED <<volume, content, folder, kubelet, job, inUse, deployed, bounds>>

\* A command fails: logged or a panic, the next round starts from the beginning.
MounterFails(p) ==
    /\ Fault
    /\ pod[p] \notin {"absent", "sleep"}
    /\ Goto(p, "sleep") /\ from' = [from EXCEPT ![p] = {}]
    /\ UNCHANGED <<volume, content, folder, stack, kubelet, job, blame, inUse, deployed, changes>>

MounterStep(p) ==
    \/ mountBlockVolume(p) \/ Format(p) \/ mountIfNotMounted(p) \/ MountDevice(p) \/ BindOther(p)
    \/ bindMountPathOnHost(p) \/ Bind(p)

-----------------------------------------------------------------------------
(* The cleanup job: unmountPath, until the path is on the same source before *)
(* and after the umount.                                                     *)

JobUnchanged == UNCHANGED <<volume, content, folder, kubelet, pod, from, inUse, deployed, changes>>

\* Mutant of LookBefore: a lookup that fails is taken for nothing mounted.
LookBeforeLax ==
    /\ job.pc = "before"
    /\ \/ /\ job' = [pc |-> "umount", saw |-> findMntByVolume]
          /\ UNCHANGED faults
       \/ Fault /\ job' = [pc |-> "done", saw |-> "none"]
    /\ NoPush /\ JobUnchanged

\* A lookup that fails yields nothing.
LookBefore ==
    /\ job.pc = "before"
    /\ \/ /\ job' = [pc |-> "umount", saw |-> findMntByVolume]
          /\ UNCHANGED faults
       \/ Fault /\ job' = [pc |-> "umount", saw |-> "none"]
    /\ NoPush /\ JobUnchanged

Unmount ==
    /\ job.pc = "umount"
    /\ \/ unmountPathCommand /\ UNCHANGED faults
       \/ Fault /\ Refused
    /\ job' = [pc |-> "after", saw |-> job.saw]
    /\ JobUnchanged

\* Mutant of LookAfter: done once the source has changed.
LookAfterInverted ==
    /\ job.pc = "after"
    /\ job' = IF job.saw # findMntByVolume THEN [pc |-> "done", saw |-> job.saw]
              ELSE [pc |-> "before", saw |-> "none"]
    /\ NoPush /\ UNCHANGED faults /\ JobUnchanged

\* Done if the source has not changed.  If one of the lookups yielded nothing the
\* job panics and is restarted.
LookAfter ==
    /\ job.pc = "after"
    /\ \/ /\ job' = IF job.saw = findMntByVolume THEN [pc |-> "done", saw |-> job.saw]
                    ELSE [pc |-> "before", saw |-> "none"]
          /\ UNCHANGED faults
       \/ Fault /\ job' = [pc |-> "before", saw |-> "none"]
    /\ NoPush /\ JobUnchanged

JobStep == LookBefore \/ Unmount \/ LookAfter

Next ==
    \/ \E p \in Pods : \/ PodStarts(p) \/ PodStops(p) \/ KubeletCleans(p)
                       \/ MounterStep(p) \/ MounterFails(p)
    \/ CreateFolder \/ Use
    \/ DeleteDeployment \/ CreateDeployment \/ CreateJob \/ RemoveJob
    \/ JobStep

\* The processes and the kubelet go on.  Nothing is assumed of workloads, rollouts,
\* evictions or the operator.
Fairness ==
    /\ \A p \in Pods : /\ WF_vars(MounterStep(p))
                      /\ WF_vars(Running = {} /\ PodStarts(p))
                      /\ WF_vars(KubeletCleans(p))
    /\ WF_vars(CreateFolder) /\ WF_vars(JobStep)

Spec == Init /\ [][Next]_vars /\ Fairness

-----------------------------------------------------------------------------
\* The variables have their types; a pod that is about to bind has found a
\* directory to bind (bindSource is not empty).
TypeOK ==
    /\ mode \in {"Block", "Filesystem"} /\ usual \in BOOLEAN
    /\ elsewhere \subseteq {"globalmount", "mount"}
    /\ content \in {"blank", "empty", "data"} /\ folder \in BOOLEAN
    /\ stack \in Seq({"volume", "directory"})
    /\ kubelet \in [Pods -> {"none", "mounted", "directory"}]
    /\ pod \in [Pods -> {"absent", "sleep", "format", "look", "mount", "bindOther", "bind"}]
    /\ from \in [Pods -> SUBSET Pods]
    /\ \A p \in Pods : IF pod[p] = "bind" THEN \E q \in Pods : from[p] = {q} ELSE from[p] = {}
    /\ job \in [pc : {"none", "before", "umount", "after", "done"},
               saw : {"none", "root", "volume", "directory"}]
    /\ blame \subseteq {"mounter", "stacked", "refused"}
    /\ inUse \in BOOLEAN /\ deployed \in BOOLEAN
    /\ changes \in 0..MaxChanges /\ faults \in 0..MaxFaults

\* Mounts of the volume do not pile up: pods of a rollout may look at the same time and
\* all mount, and a lookup that fails adds one (main.go 295, 325), but rounds, restarts
\* and replacements add none.
NoPileUp == Cardinality(Layers) <= Cardinality(Pods) + faults

\* A cleanup job that ends leaves nothing on the path (unmountPath, main.go 197), also
\* after lookups that failed, unless an umount failed, mounts were stacked, or a pod
\* mounted again meanwhile.
JobLeavesNothing ==
    [][job.pc # "done" /\ job'.pc = "done" => stack = <<>> \/ blame # {}]_vars

\* Once the deployment stays and no job runs, the volume gets mounted on the path and
\* stays there, if the host shows it as the mounter expects, or under one other mount.
Mounts ==
    <>[](deployed /\ ~JobActive /\ (usual \/ elsewhere # {}))
        => <>[]("volume" \in OnPath)

\* A cleanup job ends, also if umount keeps failing, unless a mounter runs.
JobEnds == JobActive ~> (job.pc = "done" \/ Running # {})

=============================================================================
