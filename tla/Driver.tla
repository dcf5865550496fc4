------------------------------- MODULE Driver -------------------------------
(***************************************************************************)
(* From the CR to the pods of the DaemonSets: the webhook admits a CR, a   *)
(* pass of the operator turns it into the pod templates of the CSI driver  *)
(* and of the legacy provisioner.  A template has to be right in itself (a *)
(* mount for every directory the driver is told of, a volume for every     *)
(* mount) and right for the CR, and what it takes from elsewhere, the TLS  *)
(* version, is as old as the last pass.                                    *)
(***************************************************************************)
EXTENDS CryptoPolicy, Names

CONSTANTS
    Specs,    \* specs a user may ask for
    FirstSpec,\* the spec of the CR to begin with
    Nodes,    \* names of nodes
    MaxSpecs, \* bound: edits of the CR
    MaxFails  \* bound: passes that fail

ASSUME SpecShape ==
    LET texts == {t \in [lead : Nat, parts : Seq(STRING), hashed : {<<>>}, len : Nat] : t.lead = t.len}
        paths == [dir : STRING, spelled : STRING, len : Nat]
        pools == [name : texts, path : paths, template : STRING, snapshots : BOOLEAN]
    IN /\ Specs \subseteq [pathConfig : Seq(paths), pools : Seq(pools), snapshotting : BOOLEAN]
       /\ Nodes \subseteq texts
ASSUME LengthAssumption ==  \* texts spelled alike are equally long
    \A spec \in Specs : \A i, j \in DOMAIN spec.pools :
        LET p == spec.pools[i].name
            q == spec.pools[j].name
        IN /\ p.parts = q.parts => p.len = q.len
           /\ \A n, m \in Nodes : p.parts \o n.parts = q.parts \o m.parts => p.len + n.len = q.len + m.len
ASSUME DriverBounds == MaxSpecs \in Nat /\ MaxFails \in Nat

VARIABLES
    cr,      \* spec of the CR
    request, \* is there a reconcile request?
    op,      \* the pass: its place, and the spec it works from
    legacy,  \* pod template of the legacy DaemonSet, if there is one
    csi,     \* pod template of the CSI DaemonSet, if there is one
    specs,   \* number of edits so far
    fails    \* number of failed passes so far

operatorVars == <<cr, request, op, legacy, csi, specs, fails>>
vars == <<cryptoVars, operatorVars>>

-----------------------------------------------------------------------------
(* The CR and its webhook.  A spec has a pathConfig, or not, and pools: each *)
(* has a name, a path (a directory and how it is spelled), a claim template  *)
(* or not, and snapshots or not.                                             *)

validateStoragePool(pool) ==
    /\ pool.name # Blank /\ pool.name.len <= 50
    /\ pool.path.len \in 1..255

\* A pathConfig or pools; no two pools with the same name or with paths spelled alike.
validatePathConfigAndStoragePools(spec) ==
    /\ (spec.pathConfig = <<>>) # (spec.pools = <<>>)
    /\ spec.pathConfig # <<>> => spec.pathConfig[1].len > 0
    /\ \A i \in DOMAIN spec.pools : validateStoragePool(spec.pools[i])
    /\ \A i, j \in DOMAIN spec.pools :
         i # j => /\ spec.pools[i].path # spec.pools[j].path
                  /\ spec.pools[i].name # spec.pools[j].name

ASSUME FirstAssumption == FirstSpec \in Specs /\ validatePathConfigAndStoragePools(FirstSpec)

isLegacy(spec) == spec.pathConfig # <<>>

isShared(pool) == pool.template = "ReadWriteMany"

-----------------------------------------------------------------------------
(* Pod templates: volumes, each a name and a directory of the host, and      *)
(* containers, each with mounts (a volume and where it is), the directories  *)
(* it is told to use, and the TLS version.                                   *)

Name(a, b, len) == Text(<<a, b>>, len)

socketDir       == Name("socket", "dir", 10)
mountpointDir   == Name("mountpoint", "dir", 14)
registrationDir == Name("registration", "dir", 16)
pluginsDir      == Name("plugins", "dir", 11)
pvVolume        == Name("pv", "volume", 9)

Host(dir) == [dir |-> dir, spelled |-> "plain", len |-> 1]

socketDirVolumeMount == [volume |-> socketDir, at |-> <<Text(<<"csi">>, 3)>>]

Container(name, mounts) == [name |-> name, mounts |-> mounts, dirs |-> <<>>, tls |-> 0]

\* The path of the legacy provisioner.
getPath(spec) ==
    CASE spec.pathConfig # <<>> -> spec.pathConfig[1]
      [] spec.pathConfig = <<>> -> spec.pools[1].path

createDaemonSetObject(spec) ==
    [volumes    |-> <<[name |-> pvVolume, path |-> getPath(spec)]>>,
     containers |-> <<Container("hostpath-provisioner", <<[volume |-> pvVolume, at |-> <<getPath(spec)>>]>>)>>]

\* The pools of the driver: a pathConfig is a pool without a name.
getStoragePoolPaths(spec) ==
    IF spec.pathConfig # <<>>
    THEN <<[name |-> Blank, path |-> spec.pathConfig[1], snapshots |-> FALSE, shared |-> FALSE]>>
    ELSE [i \in DOMAIN spec.pools |->
            [name      |-> spec.pools[i].name,      path   |-> spec.pools[i].path,
             snapshots |-> spec.pools[i].snapshots, shared |-> isShared(spec.pools[i])]]

\* The directories the driver is told of: one in the mount of each pool, and one in it
\* for snapshots.  The pool without a name is called legacy.
buildPathArgFromStoragePoolInfo(infos) ==
    [i \in DOMAIN infos |->
        [name      |-> IF infos[i].name = Blank THEN Text(<<"legacy">>, 6) ELSE infos[i].name,
         at        |-> <<getMountNameFromStoragePool(infos[i].name), Text(<<"csi">>, 3)>>,
         snapshots |-> IF infos[i].snapshots
                       THEN <<getMountNameFromStoragePool(infos[i].name), Text(<<"csi">>, 3),
                              Text(<<"snapshots">>, 9)>>
                       ELSE <<>>,
         shared    |-> infos[i].shared]]

\* Mutant of buildVolumesFromStoragePoolInfo: built after the path argument, which has
\* put its own path into the pools.
buildVolumesFromStoragePoolInfoLate(infos) ==
    [i \in DOMAIN infos |->
        [name |-> getMountNameFromStoragePool(infos[i].name), path |-> Host("data-dir/csi")]]

buildVolumesFromStoragePoolInfo(infos) ==
    [i \in DOMAIN infos |->
        [name |-> getMountNameFromStoragePool(infos[i].name), path |-> infos[i].path]]

buildVolumeMountsFromStoragePoolInfo(infos) ==
    [i \in DOMAIN infos |->
        [volume |-> getMountNameFromStoragePool(infos[i].name),
         at     |-> <<getMountNameFromStoragePool(infos[i].name)>>]]

\* The containers of the CSI driver's pod; the driver's and the registrar's get the
\* mounts of the pools.
DriverContainer(infos, version) ==
    [name   |-> "hostpath-provisioner",
     mounts |-> <<[volume |-> pluginsDir,    at |-> <<Text(<<"plugins">>, 7)>>],
                  [volume |-> mountpointDir, at |-> <<Text(<<"pods">>, 4)>>],
                  socketDirVolumeMount>> \o buildVolumeMountsFromStoragePoolInfo(infos),
     dirs   |-> buildPathArgFromStoragePoolInfo(infos),
     tls    |-> version]

RegistrarContainer(infos) ==
    Container("node-driver-registrar",
              <<socketDirVolumeMount, [volume |-> registrationDir, at |-> <<Text(<<"registration">>, 12)>>]>>
              \o buildVolumeMountsFromStoragePoolInfo(infos))

LivenessProbeContainer == Container("liveness-probe", <<socketDirVolumeMount>>)

ProvisionerContainer == Container("csi-provisioner", <<socketDirVolumeMount>>)

createSnapshotSideCarContainer == Container("csi-snapshotter", <<socketDirVolumeMount>>)

HostVolumes ==
    <<[name |-> socketDir,       path |-> Host("kubelet/plugins/csi-hostpath")],
      [name |-> mountpointDir,   path |-> Host("kubelet/pods")],
      [name |-> registrationDir, path |-> Host("kubelet/plugins_registry")],
      [name |-> pluginsDir,      path |-> Host("kubelet/plugins")]>>

createCSIDaemonSetObject(spec, version) ==
    LET infos == getStoragePoolPaths(spec)
    IN [volumes    |-> HostVolumes \o buildVolumesFromStoragePoolInfo(infos),
        containers |-> <<DriverContainer(infos, version), RegistrarContainer(infos), LivenessProbeContainer,
                         ProvisionerContainer>>
                       \o (IF spec.snapshotting THEN <<createSnapshotSideCarContainer>> ELSE <<>>)]

\* The templates, once for all states.
CSITemplates == [spec \in Specs |-> [version \in 10..13 |-> createCSIDaemonSetObject(spec, version)]]

\* Mutant of reconcileDaemonSetForSa: one more, whether or not there is one.
reconcileDaemonSetForSaAgain(found, desired) == Append(found, desired)

\* A DaemonSet that exists gets the desired template.
reconcileDaemonSetForSa(found, desired) == <<desired>>

-----------------------------------------------------------------------------
(* Users, and the operator's pass.                                          *)

Idle == [pc |-> "idle", held |-> <<>>]

Init ==
    /\ CryptoInit
    /\ cr = FirstSpec /\ request = TRUE /\ op = Idle
    /\ legacy = <<>> /\ csi = <<>>
    /\ specs = 0 /\ fails = 0

\* An edit goes through the webhook, that is through a handshake with the operator.
EditCR(spec) ==
    /\ specs < MaxSpecs /\ specs' = specs + 1
    /\ watcher # "down" /\ ~HandshakePanics
    /\ validatePathConfigAndStoragePools(spec)
    /\ cr' = spec /\ request' = TRUE
    /\ UNCHANGED <<cryptoVars, op, legacy, csi, fails>>

\* The CR is listed again from time to time, and every listed CR is reconciled: the
\* cache's resync, after ten hours.  External.
Resync ==
    /\ watcher # "down" /\ ~request /\ request' = TRUE
    /\ UNCHANGED <<cryptoVars, cr, op, legacy, csi, specs, fails>>

\* A pass reads the CR.
Begin ==
    /\ watcher # "down" /\ request /\ op = Idle
    /\ op' = [pc |-> "legacy", held |-> <<cr>>] /\ request' = FALSE
    /\ UNCHANGED <<cryptoVars, cr, legacy, csi, specs, fails>>

Held == op.held[1]

\* The legacy DaemonSet is updated, or removed.
ReconcileLegacy ==
    /\ op.pc = "legacy"
    /\ legacy' = IF isLegacy(Held) THEN reconcileDaemonSetForSa(legacy, createDaemonSetObject(Held))
                 ELSE <<>>
    /\ op' = [op EXCEPT !.pc = "csi"]
    /\ UNCHANGED <<cryptoVars, cr, request, csi, specs, fails>>

\* The CSI DaemonSet is updated; a panic in the middle ends the pass like an error.
ReconcileCsi ==
    /\ op.pc = "csi"
    /\ csi' = IF ArgumentPanics THEN csi ELSE reconcileDaemonSetForSa(csi, CSITemplates[Held][GetTLSMinVersionString])
    /\ request' = (request \/ ArgumentPanics)
    /\ op' = Idle
    /\ UNCHANGED <<cryptoVars, cr, legacy, specs, fails>>

\* A call fails: the request is queued again.
PassFails ==
    /\ fails < MaxFails /\ fails' = fails + 1
    /\ op # Idle /\ op' = Idle /\ request' = TRUE
    /\ UNCHANGED <<cryptoVars, cr, legacy, csi, specs>>

\* A new operator reconciles every CR that it lists.
Restart ==
    /\ Stop
    /\ op' = Idle /\ request' = TRUE
    /\ UNCHANGED <<cr, legacy, csi, specs, fails>>

Crypto ==
    /\ \/ \E p \in Profiles : EditProfile(p)
       \/ Notice \/ SetCache \/ Start \/ Handshake
    /\ UNCHANGED operatorVars

Pass == Begin \/ ReconcileLegacy \/ ReconcileCsi

Next ==
    \/ Crypto
    \/ \E spec \in Specs : EditCR(spec)
    \/ Resync \/ Pass \/ PassFails \/ Restart

\* The operator runs, its cache follows, and somebody connects to it: Prometheus.
Fairness ==
    /\ WF_vars(Pass) /\ WF_vars(Resync)
    /\ WF_vars((Notice \/ SetCache \/ Start) /\ UNCHANGED operatorVars)
    /\ WF_vars(Handshake /\ UNCHANGED operatorVars)

Spec == Init /\ [][Next]_vars /\ Fairness

-----------------------------------------------------------------------------
\* The variables have their types, and an operator that is down runs no pass.
TypeOK ==
    /\ CryptoTypeOK
    /\ cr \in Specs /\ request \in BOOLEAN
    /\ op.pc \in {"idle", "legacy", "csi"}
    /\ IF op.pc = "idle" THEN op.held = <<>> ELSE Len(op.held) = 1 /\ Held \in Specs
    /\ op.pc # "idle" => watcher # "down"
    /\ Len(legacy) <= 1 /\ Len(csi) <= 1
    /\ specs \in 0..MaxSpecs /\ fails \in 0..MaxFails

Distinct(s) == \A i, j \in DOMAIN s : s[i] = s[j] => i = j

\* Volumes have names of their own, every mount has a volume, and no two mounts of a
\* container are at the same place.
PodAccepted(t) ==
    /\ Distinct([i \in DOMAIN t.volumes |-> t.volumes[i].name])
    /\ \A i \in DOMAIN t.volumes : WellFormed(t.volumes[i].name)
    /\ \A i \in DOMAIN t.containers :
         LET m == t.containers[i].mounts
         IN /\ Distinct([k \in DOMAIN m |-> m[k].at])
            /\ \A k \in DOMAIN m : \E v \in DOMAIN t.volumes : t.volumes[v].name = m[k].volume

\* Directory d of the driver is in its mount of the volume with the given path.
LiesIn(t, d, path) ==
    \E k \in DOMAIN t.containers[1].mounts, v \in DOMAIN t.volumes :
        /\ t.containers[1].mounts[k].at = <<d[1]>>
        /\ t.volumes[v].name = t.containers[1].mounts[k].volume
        /\ t.volumes[v].path = path

\* Template t gives every pool of the spec a directory of its own.
Serves(t, spec) ==
    LET infos == getStoragePoolPaths(spec)
        dirs  == t.containers[1].dirs
    IN /\ DOMAIN dirs = DOMAIN infos
       /\ Distinct([i \in DOMAIN dirs |-> dirs[i].at])
       /\ Distinct([i \in DOMAIN dirs |-> dirs[i].name])
       /\ \A i \in DOMAIN infos :
            /\ LiesIn(t, dirs[i].at, infos[i].path)
            /\ infos[i].snapshots => LiesIn(t, dirs[i].snapshots, infos[i].path)

\* What a pass writes for the CSI driver is a pod the API accepts, in which every pool
\* of the CR it read has a directory of its own, for volumes and for snapshots, on the
\* pool's path (createCSIDaemonSetObject and the three build functions that it combines;
\* the webhook keeps names apart).
PoolsServed == [][csi' # csi => PodAccepted(csi'[1]) /\ Serves(csi'[1], Held)]_vars

Slots(pools) == {i \in DOMAIN pools : pools[i].template # "none"} \X Nodes

\* Two pools on two nodes may be spelled alike, like a on b-c and a-b on c.
Spelling(pools, s) == Dashed(pools[s[1]].name, s[2])

KeptApart(pools) ==
    /\ \A s, t \in Slots(pools) :
         LET p == pools[s[1]].name
             q == pools[t[1]].name
         IN Spelling(pools, s) # Spelling(pools, t) =>
              /\ DeploymentName(p, s[2]) # DeploymentName(q, t[2])
              /\ getStoragePoolPVCName(p, s[2]) # getStoragePoolPVCName(q, t[2])
              /\ CleanupJobName(p, s[2]) # CleanupJobName(q, t[2])
    /\ \A i, j \in DOMAIN pools :
         i # j => /\ PoolLabel(pools[i].name) # PoolLabel(pools[j].name)
                  /\ getSharedStoragePoolPVCName(pools[i].name)
                       # getSharedStoragePoolPVCName(pools[j].name)
    /\ \A s \in Slots(pools) :
         LET p == pools[s[1]].name
         IN /\ WellFormed(DeploymentName(p, s[2])) /\ WellFormed(PoolLabel(p))
            /\ Spelling(pools, s).len # 53 => WellFormed(CleanupJobName(p, s[2]))

\* The specs with names that are kept apart, once for all states.
SpecsKeptApart == {spec \in Specs : KeptApart(spec.pools)}

\* In a CR that is admitted the deployments and the claims of different pools or nodes
\* have different names unless pool and node are spelled alike, labels tell the pools
\* apart, and all are names the API accepts, also at the limit of 63 characters where
\* they are cut; except the cleanup job of a pool and a node with 53 characters, whose
\* name begins with a dash (util.go 142-159).
NamesApart == cr \in SpecsKeptApart

\* While the profile the driver's argument was made from is the one in the cache, the
\* driver does not accept older versions than the operator itself, although their
\* fallbacks differ (cryptopolicy.go 122, 195); except with an override of the cipher
\* suites alone.
Argument == csi[1].containers[1].tls

DriverAtLeast ==
    csi # <<>> /\ watcher = "ready" /\ ~ArgumentPanics /\ Argument = GetTLSMinVersionString
        /\ env \in {e \in Overrides : e.suites = {} \/ e.version # 0}
        => Argument >= GetTLSConfig.version

\* Operator and driver end up with the settings of the cluster's profile, and the
\* DaemonSets with what the CR asks for, although the profile is not watched: unless the
\* profile has no settings.
Follow ==
    /\ ~Panics(seen) /\ ~Panics(profile)
    /\ csi = <<CSITemplates[cr][GetTLSMinVersionString]>>
    /\ legacy = IF isLegacy(cr) THEN <<createDaemonSetObject(cr)>> ELSE <<>>
    /\ readable /\ env = NoOverride => /\ served = cryptoConfigFromProfile(profile)
                                       /\ Argument = served.version

EndpointsFollow == <>[](~Panics(profile)) => <>[]Follow

=============================================================================
