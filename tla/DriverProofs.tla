---------------------------- MODULE DriverProofs ----------------------------
(***************************************************************************)
(* What holds of the pod templates and of the TLS settings for any specs,  *)
(* nodes, profiles, overrides and bounds.                                  *)
(***************************************************************************)
EXTENDS Driver, NamesProofs

-----------------------------------------------------------------------------
(* TLS settings.                                                           *)

Suites == {"known", "old", "unknown"}

Settings(versions) == [suites : SUBSET Suites, version : versions]

LEMMA ProfileType ==
    ASSUME NEW p \in Profiles
    PROVE  /\ p \in [type : STRING, custom : {<<>>} \cup {<<s>> : s \in Settings(10..13)}]
           /\ p.custom # <<>> => p.custom[1] \in Settings(10..13)
BY ProfileShape DEF Settings, Suites

LEMMA OverrideType == Overrides \subseteq Settings(Nat)
BY ProfileShape DEF Settings, Suites

\* Whatever profile is selected without a panic has settings with a known version.
LEMMA SelectType ==
    ASSUME NEW p \in Profiles, ~Panics(p)
    PROVE  selectCipherSuitesAndMinTLSVersion(p) \in Settings(10..13)
<1>1. CASE p.custom # <<>>
  BY <1>1, ProfileType DEF selectCipherSuitesAndMinTLSVersion
<1>2. CASE p.custom = <<>>
  <2>1. /\ TLSProfiles["Old"] \in Settings(10..13)
        /\ TLSProfiles["Intermediate"] \in Settings(10..13)
        /\ TLSProfiles["Modern"] \in Settings(10..13)
    BY DEF TLSProfiles, Settings, Suites
  <2>2. p.type \in {"Old", "Intermediate", "Modern", "unset"}
    BY <1>2 DEF Panics, TLSProfiles
  <2>. QED  BY <1>2, <2>1, <2>2 DEF selectCipherSuitesAndMinTLSVersion
<1>. QED  BY <1>1, <1>2

\* What a handshake may be served with.
Served == [suites : SUBSET {"default", "known", "old"}, version : {0, 99} \cup 10..13]

\* What is served from a profile has the profile's version.
LEMMA ConfigType ==
    ASSUME NEW p \in Profiles, ~Panics(p)
    PROVE  /\ cryptoConfigFromProfile(p) \in Served
           /\ cryptoConfigFromProfile(p).version = selectCipherSuitesAndMinTLSVersion(p).version
BY SelectType DEF cryptoConfigFromProfile, cipherSuitesIDs, getTLSVersionOrDefault, Settings, Suites, Served

LEMMA DefaultType == NewManagedTLSWatcher \in Served /\ NewManagedTLSWatcher.version = 12
<1>. DEFINE p == [type |-> "Intermediate", custom |-> <<>>]
<1>1. selectCipherSuitesAndMinTLSVersion(p) = [suites |-> {"known", "unknown"}, version |-> 12]
  <2>1. TLSProfiles["Intermediate"] = [suites |-> {"known", "unknown"}, version |-> 12]
    BY DEF TLSProfiles
  <2>2. p.custom = <<>> /\ p.type = "Intermediate"
    OBVIOUS
  <2>3. selectCipherSuitesAndMinTLSVersion(p) = TLSProfiles["Intermediate"]
    BY <2>2 DEF selectCipherSuitesAndMinTLSVersion
  <2>. QED  BY <2>1, <2>3
<1>2. NewManagedTLSWatcher = [suites |-> cipherSuitesIDs({"known", "unknown"}), version |-> 12]
  <2>1. NewManagedTLSWatcher = cryptoConfigFromProfile(p)
    BY DEF NewManagedTLSWatcher
  <2>2. getTLSVersionOrDefault(12) = 12
    BY DEF getTLSVersionOrDefault
  <2>. HIDE DEF p
  <2>. QED  BY <1>1, <2>1, <2>2 DEF cryptoConfigFromProfile
<1>. QED  BY <1>2 DEF cipherSuitesIDs, Served

\* What a handshake is served is a setting.
LEMMA HandshakeType ==
    ASSUME env \in Overrides, seen \in Profiles, readable \in BOOLEAN, ~HandshakePanics
    PROVE  GetTLSConfig \in Served
<1>1. CASE env # NoOverride
  <2>1. GetTLSConfig = [suites  |-> IF env.suites = {} THEN {"default"} ELSE cipherSuitesIDs(env.suites),
                        version |-> IF env.version = 0 THEN 0 ELSE getTLSVersionOrDefault(env.version)]
    BY <1>1 DEF GetTLSConfig
  <2>. QED  BY <2>1, OverrideType DEF Settings, Suites, Served, cipherSuitesIDs, getTLSVersionOrDefault
<1>2. CASE env = NoOverride /\ ~(watcher = "ready" /\ readable)
  <2>1. GetTLSConfig = NewManagedTLSWatcher
    BY <1>2 DEF GetTLSConfig
  <2>. QED  BY <2>1, DefaultType
<1>3. CASE env = NoOverride /\ watcher = "ready" /\ readable
  <2>1. GetTLSConfig = cryptoConfigFromProfile(seen) /\ ~Panics(seen)
    BY <1>3 DEF GetTLSConfig, HandshakePanics
  <2>. QED  BY <2>1, ConfigType
<1>. QED  BY <1>1, <1>2, <1>3

-----------------------------------------------------------------------------
(* Types.                                                                  *)

OpType == op \in [pc : {"idle", "legacy", "csi"}, held : Seq(Specs)]

TypeInv == TypeOK /\ OpType

LEMMA IdleType == Idle \in [pc : {"idle", "legacy", "csi"}, held : Seq(Specs)] /\ Idle.pc = "idle" /\ Idle.held = <<>>
BY DEF Idle

\* The settings and the profile change under the operator.
LEMMA CryptoTypes ==
    ASSUME TypeInv, Crypto
    PROVE  TypeInv'
<1>. USE ProfileBounds
<1>1. ASSUME NEW p \in Profiles, EditProfile(p) PROVE CryptoTypeOK' /\ (watcher = "down" <=> watcher' = "down")
  BY <1>1 DEF TypeInv, TypeOK, CryptoTypeOK, EditProfile
<1>2. ASSUME Notice \/ SetCache \/ Start PROVE CryptoTypeOK' /\ (watcher' = "down" => watcher = "down")
  BY <1>2 DEF TypeInv, TypeOK, CryptoTypeOK, Notice, SetCache, Start
<1>3. ASSUME Handshake PROVE CryptoTypeOK' /\ watcher' = watcher
  <2>1. served' = NoSettings \/ served' \in Served
    BY <1>3, HandshakeType DEF TypeInv, TypeOK, CryptoTypeOK, Handshake
  <2>2. served'.suites \subseteq {"default", "known", "old"} /\ served'.version \in {0, 99} \cup 10..13
    BY <2>1 DEF NoSettings, Served
  <2>. QED  BY <1>3, <2>2 DEF TypeInv, TypeOK, CryptoTypeOK, Handshake
<1>4. CryptoTypeOK' /\ (watcher' = "down" => watcher = "down")
  BY <1>1, <1>2, <1>3 DEF Crypto
<1>. QED  BY <1>4 DEF Crypto, operatorVars, TypeInv, TypeOK, OpType, Held

\* The operator's pass: it works from a spec it has read.
LEMMA PassTypes ==
    ASSUME TypeInv, Pass
    PROVE  TypeInv'
<1>1. CASE Begin
  <2>1. op' = [pc |-> "legacy", held |-> <<cr>>] /\ cr \in Specs
    BY <1>1 DEF Begin, TypeInv, TypeOK
  <2>2. request' \in BOOLEAN
    BY <1>1, Zenon DEF Begin
  <2>3. op'.pc = "legacy" /\ Len(op'.held) = 1 /\ op'.held[1] \in Specs /\ op'.held \in Seq(Specs)
    BY <2>1
  <2>4. OpType'
    BY <2>1, <2>3 DEF OpType
  <2>5. TypeOK'
    BY <1>1, <2>2, <2>3 DEF Begin, TypeInv, TypeOK, CryptoTypeOK, cryptoVars, Held
  <2>. QED  BY <2>4, <2>5 DEF TypeInv
<1>2. CASE ReconcileLegacy
  <2>1. op' = [op EXCEPT !.pc = "csi"] /\ op.pc = "legacy"
    BY <1>2 DEF ReconcileLegacy
  <2>2. op'.pc = "csi" /\ op'.held = op.held /\ OpType'
    BY <2>1 DEF TypeInv, OpType
  <2>3. Len(legacy') <= 1
    BY <1>2 DEF ReconcileLegacy, reconcileDaemonSetForSa
  <2>. QED  BY <1>2, <2>1, <2>2, <2>3 DEF ReconcileLegacy, TypeInv, TypeOK, CryptoTypeOK, cryptoVars, Held
<1>3. CASE ReconcileCsi
  <2>1. op' = Idle
    BY <1>3 DEF ReconcileCsi
  <2>2. Len(csi') <= 1
    BY <1>3 DEF ReconcileCsi, reconcileDaemonSetForSa, TypeInv, TypeOK
  <2>3. request' \in BOOLEAN
    BY <1>3, Zenon DEF ReconcileCsi
  <2>. QED
    BY <1>3, <2>1, <2>2, <2>3, IdleType
       DEF ReconcileCsi, TypeInv, TypeOK, OpType, CryptoTypeOK, cryptoVars, Held
<1>. QED  BY <1>1, <1>2, <1>3 DEF Pass

\* Every action of the operator, of users and of the cluster keeps the types.
LEMMA TypeStep == TypeInv /\ [Next]_vars => TypeInv'
<1>. SUFFICES ASSUME TypeInv, [Next]_vars PROVE TypeInv'
  OBVIOUS
<1>1. ASSUME NEW spec \in Specs, EditCR(spec) PROVE TypeInv'
  <2>1. request' \in BOOLEAN
    BY <1>1, Zenon DEF EditCR
  <2>2. specs' \in 0..MaxSpecs
    BY <1>1, DriverBounds DEF EditCR, TypeInv, TypeOK
  <2>. QED
    BY <1>1, <2>1, <2>2 DEF EditCR, TypeInv, TypeOK, OpType, CryptoTypeOK, cryptoVars, Held
<1>2. ASSUME Resync PROVE TypeInv'
  <2>1. request' \in BOOLEAN
    BY <1>2, Zenon DEF Resync
  <2>. QED  BY <1>2, <2>1 DEF Resync, TypeInv, TypeOK, OpType, CryptoTypeOK, cryptoVars, Held
<1>3. ASSUME PassFails PROVE TypeInv'
  <2>1. request' \in BOOLEAN /\ op' = Idle
    BY <1>3, Zenon DEF PassFails
  <2>2. fails' \in 0..MaxFails
    BY <1>3, DriverBounds DEF PassFails, TypeInv, TypeOK
  <2>. QED
    BY <1>3, <2>1, <2>2, IdleType DEF PassFails, TypeInv, TypeOK, OpType, CryptoTypeOK, cryptoVars, Held
<1>4. ASSUME Restart PROVE TypeInv'
  <2>1. request' \in BOOLEAN /\ op' = Idle
    BY <1>4, Zenon DEF Restart
  <2>2. CryptoTypeOK'
    BY <1>4, ProfileBounds DEF Restart, Stop, TypeInv, TypeOK, CryptoTypeOK, NoSettings
  <2>. QED  BY <1>4, <2>1, <2>2, IdleType DEF Restart, TypeInv, TypeOK, OpType, Held
<1>5. ASSUME UNCHANGED vars PROVE TypeInv'
  BY <1>5 DEF vars, cryptoVars, operatorVars, TypeInv, TypeOK, OpType, CryptoTypeOK, Held
<1>. QED  BY <1>1, <1>2, <1>3, <1>4, <1>5, CryptoTypes, PassTypes DEF Next

LEMMA InitType == Init => TypeInv
<1>. SUFFICES ASSUME Init PROVE TypeInv
  OBVIOUS
<1>1. CryptoTypeOK
  BY ProfileBounds DEF Init, CryptoInit, CryptoTypeOK, NoSettings
<1>2. request \in BOOLEAN
  BY Zenon DEF Init
<1>. QED  BY <1>1, <1>2, IdleType, FirstAssumption, DriverBounds DEF Init, TypeInv, TypeOK, OpType

LEMMA TypeInvariant == Spec => []TypeInv
BY InitType, TypeStep, PTL DEF Spec

\* Every variable keeps its type: in particular no handshake is ever served with a cipher
\* suite or a version that is not one, and a pass runs only while the operator does.
THEOREM DriverTypes == Spec => []TypeOK
BY TypeInvariant, PTL DEF TypeInv

\* Whatever the profile and the overrides are, the driver is told of a version that is
\* not older than the one the operator's own servers accept, although the two are found
\* by different functions with different fallbacks.
THEOREM DriverNotOlder == Spec => []DriverAtLeast
<1>1. TypeOK => DriverAtLeast
  <2>. SUFFICES ASSUME CryptoTypeOK, watcher = "ready", ~ArgumentPanics, Argument = GetTLSMinVersionString,
                       env.suites = {} \/ env.version # 0
                PROVE  Argument >= GetTLSConfig.version
    BY DEF TypeOK, DriverAtLeast
  <2>1. env \in Settings(Nat) /\ seen \in Profiles /\ readable \in BOOLEAN
    BY OverrideType DEF CryptoTypeOK
  <2>2. CASE env.version # 0
    <3>1. GetTLSConfig.version = getTLSVersionOrDefault(env.version)
      BY <2>2 DEF GetTLSConfig, NoOverride
    <3>2. GetTLSMinVersionString = getTLSVersionOrDefault(env.version)
      BY <2>2 DEF GetTLSMinVersionString
    <3>3. getTLSVersionOrDefault(env.version) \in 10..13
      BY DEF getTLSVersionOrDefault
    <3>. QED  BY <3>1, <3>2, <3>3
  <2>3. CASE env.version = 0
    <3>1. env = NoOverride
      BY <2>1, <2>3 DEF NoOverride, Settings
    <3>2. CASE ~readable
      <4>1. GetTLSConfig.version = 12
        BY <3>1, <3>2, DefaultType DEF GetTLSConfig
      <4>2. GetTLSMinVersionString = 13
        BY <2>3, <3>2 DEF GetTLSMinVersionString
      <4>. QED  BY <4>1, <4>2
    <3>3. CASE readable
      <4>1. ~Panics(seen)
        BY <2>3, <3>3 DEF ArgumentPanics
      <4>2. GetTLSConfig = cryptoConfigFromProfile(seen)
        BY <3>1, <3>3 DEF GetTLSConfig
      <4>3. GetTLSMinVersionString = selectCipherSuitesAndMinTLSVersion(seen).version
        BY <2>3, <3>3 DEF GetTLSMinVersionString
      <4>4. selectCipherSuitesAndMinTLSVersion(seen).version \in 10..13
        BY <2>1, <4>1, SelectType DEF Settings
      <4>. QED  BY <2>1, <4>1, <4>2, <4>3, <4>4, ConfigType
    <3>. QED  BY <2>1, <3>2, <3>3
  <2>. QED  BY <2>2, <2>3
<1>. QED  BY <1>1, DriverTypes, PTL

-----------------------------------------------------------------------------
(* Names.                                                                  *)

Paths == [dir : STRING, spelled : STRING, len : Nat]

\* What the assumptions say of one spec and its pools.
LEMMA SpecType ==
    ASSUME NEW spec \in Specs
    PROVE  /\ spec.pathConfig \in Seq(Paths) /\ spec.snapshotting \in BOOLEAN
           /\ Len(spec.pools) \in Nat /\ DOMAIN spec.pools = 1..Len(spec.pools)
           /\ \A i \in DOMAIN spec.pools :
                spec.pools[i].name \in Texts /\ spec.pools[i].path \in Paths
<1>. DEFINE texts == {t \in [lead : Nat, parts : Seq(STRING), hashed : {<<>>}, len : Nat] : t.lead = t.len}
            pools == [name : texts, path : Paths, template : STRING, snapshots : BOOLEAN]
<1>1. spec \in [pathConfig : Seq(Paths), pools : Seq(pools), snapshotting : BOOLEAN]
  BY SpecShape, Zenon DEF Paths
<1>2. ASSUME NEW t \in texts PROVE t \in Texts
  <2>1. t.parts \in Seq(Words)
    BY DEF Words
  <2>. QED  BY <2>1 DEF Texts
<1>. HIDE DEF texts
<1>3. ASSUME NEW i \in DOMAIN spec.pools
      PROVE  spec.pools[i].name \in texts /\ spec.pools[i].path \in Paths
  <2>. HIDE DEF pools
  <2>1. spec.pools \in Seq(pools)
    BY <1>1
  <2>2. spec.pools[i] \in pools
    BY <2>1
  <2>. QED  BY <2>2 DEF pools
<1>. QED  BY <1>1, <1>2, <1>3

LEMMA NodeType == \A n \in Nodes : n \in Texts
<1>. DEFINE texts == {t \in [lead : Nat, parts : Seq(STRING), hashed : {<<>>}, len : Nat] : t.lead = t.len}
<1>1. Nodes \subseteq texts
  BY SpecShape, Zenon
<1>2. ASSUME NEW t \in texts PROVE t \in Texts
  <2>1. t.parts \in Seq(Words)
    BY DEF Words
  <2>. QED  BY <2>1 DEF Texts
<1>. HIDE DEF texts
<1>. QED  BY <1>1, <1>2

\* What the webhook admits has names that are kept apart.
LEMMA AdmittedKeptApart ==
    ASSUME NEW spec \in Specs, validatePathConfigAndStoragePools(spec)
    PROVE  KeptApart(spec.pools)
<1>. DEFINE pools == spec.pools
<1>1. \A i \in DOMAIN pools : pools[i].name \in Texts /\ pools[i].name.len <= 50
  BY SpecType DEF validatePathConfigAndStoragePools, validateStoragePool
<1>2. \A i, j \in DOMAIN pools : i # j => pools[i].name # pools[j].name
  BY DEF validatePathConfigAndStoragePools
<1>3. \A i, j \in DOMAIN pools : pools[i].name.parts = pools[j].name.parts => pools[i].name.len = pools[j].name.len
  BY LengthAssumption
<1>4. \A i, j \in DOMAIN pools : \A n, m \in Nodes :
        pools[i].name.parts \o n.parts = pools[j].name.parts \o m.parts
          => pools[i].name.len + n.len = pools[j].name.len + m.len
  BY LengthAssumption, Zenon
<1>. HIDE DEF pools
<1>5. \A s \in Slots(pools) : s[1] \in DOMAIN pools /\ s[2] \in Nodes /\ s[2] \in Texts
  BY NodeType DEF Slots
<1>6. ASSUME NEW s \in Slots(pools), NEW t \in Slots(pools), Spelling(pools, s) # Spelling(pools, t)
      PROVE  LET p == pools[s[1]].name
                 q == pools[t[1]].name
             IN /\ DeploymentName(p, s[2]) # DeploymentName(q, t[2])
                /\ getStoragePoolPVCName(p, s[2]) # getStoragePoolPVCName(q, t[2])
                /\ CleanupJobName(p, s[2]) # CleanupJobName(q, t[2])
  <2>. DEFINE p == pools[s[1]].name
              q == pools[t[1]].name
              n == s[2]
              m == t[2]
  <2>1. p \in Texts /\ q \in Texts /\ n \in Texts /\ m \in Texts
    BY <1>1, <1>5
  <2>2. p.parts \o n.parts = q.parts \o m.parts => p.len + n.len = q.len + m.len
    BY <1>4, <1>5, Zenon
  <2>3. Dashed(p, n) # Dashed(q, m)
    BY <1>6, Zenon DEF Spelling
  <2>. HIDE DEF p, q, n, m
  <2>4. /\ DeploymentName(p, n) # DeploymentName(q, m)
        /\ getStoragePoolPVCName(p, n) # getStoragePoolPVCName(q, m)
        /\ CleanupJobName(p, n) # CleanupJobName(q, m)
    BY <2>1, <2>2, <2>3, SlotsApart, Zenon
  <2>. QED  BY <2>4, Zenon DEF p, q, n, m
<1>7. ASSUME NEW i \in DOMAIN pools, NEW j \in DOMAIN pools, i # j
      PROVE  /\ PoolLabel(pools[i].name) # PoolLabel(pools[j].name)
             /\ getSharedStoragePoolPVCName(pools[i].name) # getSharedStoragePoolPVCName(pools[j].name)
  BY <1>1, <1>2, <1>3, <1>7, PoolsApart, Zenon
<1>8. ASSUME NEW s \in Slots(pools)
      PROVE  LET p == pools[s[1]].name
             IN /\ WellFormed(DeploymentName(p, s[2])) /\ WellFormed(PoolLabel(p))
                /\ Spelling(pools, s).len # 53 => WellFormed(CleanupJobName(p, s[2]))
  BY <1>1, <1>5, PoolNamesWellFormed, Zenon DEF Spelling
<1>9. KeptApart(pools)
  BY <1>6, <1>7, <1>8, Zenon DEF KeptApart
<1>. QED  BY <1>9 DEF pools

\* The CR and the spec of a pass went through the webhook.
AdmittedInv ==
    /\ validatePathConfigAndStoragePools(cr)
    /\ op.pc # "idle" => validatePathConfigAndStoragePools(Held)

LEMMA AdmittedInit == Init => AdmittedInv
BY FirstAssumption, IdleType DEF Init, AdmittedInv

\* The CR changes only through the webhook, and a pass holds a copy of the CR.
LEMMA AdmittedStep == TypeInv /\ AdmittedInv /\ [Next]_vars => AdmittedInv'
<1>. SUFFICES ASSUME TypeInv, AdmittedInv, [Next]_vars PROVE AdmittedInv'
  OBVIOUS
<1>1. ASSUME Crypto \/ Resync \/ UNCHANGED vars PROVE AdmittedInv'
  <2>1. cr' = cr /\ op' = op
    BY <1>1 DEF Crypto, Resync, vars, operatorVars
  <2>. QED  BY <2>1 DEF AdmittedInv, Held
<1>2. ASSUME NEW spec \in Specs, EditCR(spec) PROVE AdmittedInv'
  <2>1. cr' = spec /\ op' = op /\ validatePathConfigAndStoragePools(spec)
    BY <1>2 DEF EditCR
  <2>. QED  BY <2>1 DEF AdmittedInv, Held
<1>3. ASSUME PassFails \/ Restart \/ ReconcileCsi PROVE AdmittedInv'
  <2>1. cr' = cr /\ op' = Idle
    BY <1>3 DEF PassFails, Restart, ReconcileCsi
  <2>. QED  BY <2>1, IdleType DEF AdmittedInv
<1>4. ASSUME Begin PROVE AdmittedInv'
  <2>1. cr' = cr /\ op'.held[1] = cr
    BY <1>4 DEF Begin
  <2>. QED  BY <2>1 DEF AdmittedInv, Held
<1>5. ASSUME ReconcileLegacy PROVE AdmittedInv'
  <2>1. cr' = cr /\ op'.held = op.held /\ op.pc # "idle"
    BY <1>5 DEF ReconcileLegacy, TypeInv, OpType
  <2>. QED  BY <2>1 DEF AdmittedInv, Held
<1>. QED  BY <1>1, <1>2, <1>3, <1>4, <1>5 DEF Next, Pass

LEMMA AdmittedInvariant == Spec => [](TypeInv /\ AdmittedInv)
BY InitType, TypeStep, AdmittedInit, AdmittedStep, PTL DEF Spec

\* In every CR the webhook ever admits, whatever the lengths of pools' and nodes' names,
\* deployments, claims and jobs of slots that are not spelled alike have different names,
\* labels and shared claims tell the pools apart, and the API accepts the names, except the
\* job's with 53 characters.
THEOREM NamesKeptApart == Spec => []NamesApart
<1>1. TypeInv /\ AdmittedInv => NamesApart
  BY AdmittedKeptApart DEF TypeInv, TypeOK, AdmittedInv, NamesApart, SpecsKeptApart
<1>. QED  BY <1>1, AdmittedInvariant, PTL

-----------------------------------------------------------------------------
(* The pod template of the driver.                                         *)

IsTuple(a, m) == a = [i \in 1..m |-> a[i]]

\* The elements of c are those of a, and after them those of b.
Joins(c, a, m, b, n) ==
    /\ DOMAIN c = 1..(m + n)
    /\ \A i \in 1..m : i \in 1..(m + n) /\ c[i] = a[i]
    /\ \A i \in 1..n : m + i \in 1..(m + n) /\ c[m + i] = b[i]
    /\ \A k \in 1..(m + n) : k \in 1..m \/ \E i \in 1..n : k = m + i

LEMMA ConcatJoins ==
    ASSUME NEW m \in Nat, NEW n \in Nat, NEW a, NEW b, IsTuple(a, m), IsTuple(b, n)
    PROVE  Joins(a \o b, a, m, b, n)
<1>. DEFINE c == a \o b
<1>. DEFINE S == {a[i] : i \in 1..m} \cup {b[i] : i \in 1..n}
<1>1. a \in [1..m -> S] /\ b \in [1..n -> S]
  BY Zenon DEF IsTuple
<1>. HIDE DEF S
<1>2. a \in Seq(S) /\ Len(a) = m /\ b \in Seq(S) /\ Len(b) = n
  BY <1>1
<1>3. c \in Seq(S) /\ Len(c) = m + n
  BY <1>2, ConcatProperties
<1>4. \A i \in 1 .. Len(a) + Len(b) : c[i] = IF i <= Len(a) THEN a[i] ELSE b[i - Len(a)]
  BY <1>2, ConcatProperties, Zenon
<1>. HIDE DEF c
<1>5. DOMAIN c = 1..(m + n)
  BY <1>3
<1>6. ASSUME NEW i \in 1..m PROVE i \in 1..(m + n) /\ c[i] = a[i]
  BY <1>2, <1>4
<1>7. ASSUME NEW i \in 1..n PROVE m + i \in 1..(m + n) /\ c[m + i] = b[i]
  <2>1. m + i \in 1..(m + n) /\ ~(m + i <= m) /\ (m + i) - m = i
    OBVIOUS
  <2>. QED  BY <1>2, <1>4, <2>1
<1>8. ASSUME NEW k \in 1..(m + n), k \notin 1..m PROVE \E i \in 1..n : k = m + i
  <2>1. k - m \in 1..n /\ k = m + (k - m)
    BY <1>8
  <2>. QED  BY <2>1
<1>9. Joins(c, a, m, b, n)
  BY <1>5, <1>6, <1>7, <1>8 DEF Joins
<1>. QED  BY <1>9 DEF c

\* What the webhook leaves of the pools: names that fit into names of volumes, no two
\* spelled alike, and none empty unless there is one pool.
PoolInfos(infos, n) ==
    /\ n \in Nat /\ infos = [i \in 1..n |-> infos[i]]
    /\ \A i \in 1..n : infos[i].name \in Texts /\ infos[i].name.len <= 50
    /\ \A i, j \in 1..n : i # j =>
         /\ infos[i].name # infos[j].name /\ infos[i].name # Blank
         /\ infos[i].name.parts = infos[j].name.parts => infos[i].name.len = infos[j].name.len

LEMMA BlankType == Blank \in Texts /\ Blank.len = 0
<1>1. <<>> \in Seq(Words)
  OBVIOUS
<1>. QED  BY <1>1, TextType DEF Blank, Text

\* The pools that the driver serves for an admitted spec have different names and lie on different paths.
LEMMA AdmittedInfos ==
    ASSUME NEW spec \in Specs, validatePathConfigAndStoragePools(spec)
    PROVE  \E n \in Nat : PoolInfos(getStoragePoolPaths(spec), n)
<1>. DEFINE infos == getStoragePoolPaths(spec)
<1>1. CASE spec.pathConfig # <<>>
  <2>1. infos = <<[name |-> Blank, path |-> spec.pathConfig[1], snapshots |-> FALSE, shared |-> FALSE]>>
    BY <1>1 DEF getStoragePoolPaths
  <2>. HIDE DEF infos
  <2>2. infos = [i \in 1..1 |-> infos[i]] /\ infos[1].name = Blank
    BY <2>1
  <2>3. PoolInfos(infos, 1)
    <3>1. 1 \in Nat /\ (\A i \in 1..1 : i = 1) /\ Blank.len <= 50
      BY BlankType
    <3>2. \A i \in 1..1 : infos[i].name \in Texts /\ infos[i].name.len <= 50
      BY <2>2, <3>1, BlankType
    <3>. QED  BY <2>2, <3>1, <3>2 DEF PoolInfos
  <2>. QED  BY <2>3 DEF infos
<1>2. CASE spec.pathConfig = <<>>
  <2>. DEFINE n == Len(spec.pools)
  <2>1. infos = [i \in DOMAIN spec.pools |->
                  [name      |-> spec.pools[i].name,      path   |-> spec.pools[i].path,
                   snapshots |-> spec.pools[i].snapshots, shared |-> isShared(spec.pools[i])]]
    BY <1>2 DEF getStoragePoolPaths
  <2>2. n \in Nat /\ DOMAIN spec.pools = 1..n
    BY SpecType
  <2>. HIDE DEF infos, n
  <2>3. infos = [i \in 1..n |-> infos[i]] /\ \A i \in 1..n : infos[i].name = spec.pools[i].name
    BY <2>1, <2>2
  <2>4. \A i \in 1..n : spec.pools[i].name \in Texts /\ spec.pools[i].name.len <= 50 /\ spec.pools[i].name # Blank
    BY <2>2, SpecType DEF validatePathConfigAndStoragePools, validateStoragePool
  <2>5. \A i, j \in 1..n : i # j => spec.pools[i].name # spec.pools[j].name
    BY <2>2 DEF validatePathConfigAndStoragePools
  <2>6. \A i, j \in 1..n : spec.pools[i].name.parts = spec.pools[j].name.parts
                             => spec.pools[i].name.len = spec.pools[j].name.len
    BY <2>2, LengthAssumption
  <2>7. PoolInfos(infos, n)
    <3>1. \A i \in 1..n : infos[i].name \in Texts /\ infos[i].name.len <= 50
      BY <2>3, <2>4
    <3>2. \A i, j \in 1..n : i # j => infos[i].name # infos[j].name /\ infos[i].name # Blank
      BY <2>3, <2>4, <2>5
    <3>3. \A i, j \in 1..n : infos[i].name.parts = infos[j].name.parts => infos[i].name.len = infos[j].name.len
      BY <2>3, <2>6
    <3>. QED  BY <2>2, <2>3, <3>1, <3>2, <3>3 DEF PoolInfos
  <2>. QED  BY <2>2, <2>7 DEF infos
<1>. QED  BY <1>1, <1>2, Zenon

\* The names of the volumes of the pools.
Mounts(infos, n) == [i \in 1..n |-> getMountNameFromStoragePool(infos[i].name)]

\* The pools' mounts have valid and different names, none of which is spelled like one of the driver's own.
LEMMA MountsFacts ==
    ASSUME NEW infos, NEW n \in Nat, PoolInfos(infos, n)
    PROVE  /\ \A i, j \in 1..n : Mounts(infos, n)[i] = Mounts(infos, n)[j] => i = j
           /\ \A i \in 1..n :
                /\ WellFormed(Mounts(infos, n)[i])
                /\ \A x : x # "data" => Mounts(infos, n)[i].parts # <<x, "dir">>
                /\ \A x : Mounts(infos, n)[i].parts # <<x>>
<1>1. ASSUME NEW i \in 1..n PROVE Mounts(infos, n)[i] = getMountNameFromStoragePool(infos[i].name)
  BY DEF Mounts
<1>2. ASSUME NEW i \in 1..n, NEW j \in 1..n, i # j
      PROVE  getMountNameFromStoragePool(infos[i].name) # getMountNameFromStoragePool(infos[j].name)
  BY <1>2, MountsApart, Zenon DEF PoolInfos
<1>3. ASSUME NEW i \in 1..n
      PROVE  LET M == getMountNameFromStoragePool(infos[i].name)
             IN WellFormed(M) /\ (\A x : x # "data" => M.parts # <<x, "dir">>) /\ (\A x : M.parts # <<x>>)
  BY MountFacts, Zenon DEF PoolInfos
<1>4. ASSUME NEW i \in 1..n
      PROVE  LET M == Mounts(infos, n)[i]
             IN WellFormed(M) /\ (\A x : x # "data" => M.parts # <<x, "dir">>) /\ (\A x : M.parts # <<x>>)
  BY <1>1, <1>3, Zenon
<1>5. ASSUME NEW i \in 1..n, NEW j \in 1..n, Mounts(infos, n)[i] = Mounts(infos, n)[j] PROVE i = j
  BY <1>1, <1>2, <1>5, Zenon
<1>. QED  BY <1>4, <1>5, Zenon

\* The driver's own volumes.
LEMMA HostFacts ==
    /\ HostVolumes = [i \in 1..4 |-> HostVolumes[i]]
    /\ HostVolumes[1].name = socketDir /\ HostVolumes[2].name = mountpointDir
    /\ HostVolumes[3].name = registrationDir /\ HostVolumes[4].name = pluginsDir
BY DEF HostVolumes

\* The names of the volumes that do not belong to a pool.
LEMMA HostNames ==
    /\ WellFormed(socketDir) /\ socketDir.parts = <<"socket", "dir">>
    /\ WellFormed(mountpointDir) /\ mountpointDir.parts = <<"mountpoint", "dir">>
    /\ WellFormed(registrationDir) /\ registrationDir.parts = <<"registration", "dir">>
    /\ WellFormed(pluginsDir) /\ pluginsDir.parts = <<"plugins", "dir">>
BY DEF socketDir, mountpointDir, registrationDir, pluginsDir, Name, Text, WellFormed

\* The driver's own volumes have different names.
LEMMA HostApart ==
    /\ socketDir # mountpointDir /\ socketDir # registrationDir /\ socketDir # pluginsDir
    /\ mountpointDir # registrationDir /\ mountpointDir # pluginsDir /\ registrationDir # pluginsDir
<1>1. \A x, y : <<x, "dir">> = <<y, "dir">> => x = y
  OBVIOUS
<1>2. /\ "socket" # "mountpoint" /\ "socket" # "registration" /\ "socket" # "plugins"
      /\ "mountpoint" # "registration" /\ "mountpoint" # "plugins" /\ "registration" # "plugins"
  OBVIOUS
<1>. QED  BY <1>1, <1>2, HostNames, Zenon

Volumes(infos) == HostVolumes \o buildVolumesFromStoragePoolInfo(infos)

\* The volumes of a template: the driver's own and those of the pools.
LEMMA VolumeIndex ==
    ASSUME NEW infos, NEW n \in Nat, PoolInfos(infos, n)
    PROVE  LET V == Volumes(infos)
           IN /\ DOMAIN V = 1..(4 + n) /\ 1..4 \subseteq DOMAIN V
              /\ V[1].name = socketDir /\ V[2].name = mountpointDir
              /\ V[3].name = registrationDir /\ V[4].name = pluginsDir
              /\ \A i \in 1..n : /\ 4 + i \in DOMAIN V /\ V[4 + i].name = Mounts(infos, n)[i]
                                 /\ V[4 + i].path = infos[i].path
              /\ \A k \in DOMAIN V : k \in 1..4 \/ \E i \in 1..n : k = 4 + i
<1>. DEFINE b == buildVolumesFromStoragePoolInfo(infos)
            V == HostVolumes \o b
<1>1. b = [i \in 1..n |-> [name |-> getMountNameFromStoragePool(infos[i].name), path |-> infos[i].path]]
  BY DEF buildVolumesFromStoragePoolInfo, PoolInfos
<1>2. /\ b = [i \in 1..n |-> b[i]]
      /\ \A i \in 1..n : b[i].name = Mounts(infos, n)[i] /\ b[i].path = infos[i].path
  BY <1>1 DEF Mounts
<1>. HIDE DEF b
<1>3. /\ DOMAIN V = 1..(4 + n)
      /\ \A i \in 1..4 : i \in 1..(4 + n) /\ V[i] = HostVolumes[i]
      /\ \A i \in 1..n : 4 + i \in 1..(4 + n) /\ V[4 + i] = b[i]
      /\ \A k \in 1..(4 + n) : k \in 1..4 \/ \E i \in 1..n : k = 4 + i
  <2>1. 4 \in Nat
    OBVIOUS
  <2>2. IsTuple(HostVolumes, 4)
    BY HostFacts, Zenon DEF IsTuple
  <2>3. IsTuple(b, n)
    BY <1>2, Zenon DEF IsTuple
  <2>4. Joins(V, HostVolumes, 4, b, n)
    BY <2>1, <2>2, <2>3, ConcatJoins, Zenon
  <2>. HIDE DEF V
  <2>. QED  BY <2>4, Zenon DEF Joins
<1>. HIDE DEF V
<1>4. 1 \in 1..4 /\ 2 \in 1..4 /\ 3 \in 1..4 /\ 4 \in 1..4
  OBVIOUS
<1>5. V[1].name = socketDir /\ V[2].name = mountpointDir /\ V[3].name = registrationDir /\ V[4].name = pluginsDir
  BY <1>3, <1>4, HostFacts, Zenon
<1>6. ASSUME NEW i \in 1..n
      PROVE  4 + i \in DOMAIN V /\ V[4 + i].name = Mounts(infos, n)[i] /\ V[4 + i].path = infos[i].path
  BY <1>2, <1>3, Zenon
<1>. QED  BY <1>3, <1>5, <1>6 DEF V, b, Volumes

\* The volumes of a pod template have valid and different names, the pools' and the driver's own.
LEMMA VolumesAccepted ==
    ASSUME NEW infos, NEW n \in Nat, PoolInfos(infos, n)
    PROVE  LET V == Volumes(infos)
           IN /\ Distinct([i \in DOMAIN V |-> V[i].name])
              /\ \A i \in DOMAIN V : WellFormed(V[i].name)
<1>. DEFINE V == Volumes(infos)
            M == Mounts(infos, n)
<1>1. /\ V[1].name = socketDir /\ V[2].name = mountpointDir
      /\ V[3].name = registrationDir /\ V[4].name = pluginsDir
      /\ \A i \in 1..n : V[4 + i].name = M[i]
      /\ \A k \in DOMAIN V : k \in 1..4 \/ \E i \in 1..n : k = 4 + i
  BY VolumeIndex, Zenon
<1>. HIDE DEF V, M
<1>2. \A k \in 1..4 : k = 1 \/ k = 2 \/ k = 3 \/ k = 4
  OBVIOUS
<1>3. \A i, j \in 1..n : M[i] = M[j] => i = j
  BY MountsFacts, Zenon DEF M
<1>4. \A i \in 1..n : WellFormed(M[i]) /\ \A x : x # "data" => M[i].parts # <<x, "dir">>
  BY MountsFacts, Zenon DEF M
<1>5. \A i \in 1..n : M[i] # socketDir /\ M[i] # mountpointDir /\ M[i] # registrationDir /\ M[i] # pluginsDir
  <2>1. "socket" # "data" /\ "mountpoint" # "data" /\ "registration" # "data" /\ "plugins" # "data"
    OBVIOUS
  <2>. QED  BY <1>4, <2>1, HostNames, Zenon
<1>6. ASSUME NEW i \in DOMAIN V PROVE WellFormed(V[i].name)
  BY <1>1, <1>2, <1>4, HostNames, Zenon
<1>7. ASSUME NEW k \in 1..4, NEW l \in 1..4, V[k].name = V[l].name PROVE k = l
  BY <1>1, <1>2, <1>7, HostApart, Zenon
<1>8. ASSUME NEW k \in 1..4, NEW i \in 1..n PROVE V[k].name # V[4 + i].name
  BY <1>1, <1>2, <1>5, Zenon
<1>9. ASSUME NEW k \in DOMAIN V, NEW l \in DOMAIN V, V[k].name = V[l].name PROVE k = l
  <2>1. CASE k \in 1..4 /\ l \in 1..4
    BY <1>7, <1>9, <2>1, Zenon
  <2>2. CASE k \in 1..4 /\ \E i \in 1..n : l = 4 + i
    BY <1>8, <1>9, <2>2, Zenon
  <2>3. CASE l \in 1..4 /\ \E i \in 1..n : k = 4 + i
    BY <1>8, <1>9, <2>3, Zenon
  <2>4. CASE (\E i \in 1..n : k = 4 + i) /\ (\E i \in 1..n : l = 4 + i)
    BY <1>1, <1>3, <1>9, <2>4, Zenon
  <2>. QED  BY <1>1, <2>1, <2>2, <2>3, <2>4, Zenon
<1>10. Distinct([i \in DOMAIN V |-> V[i].name])
  BY <1>9 DEF Distinct
<1>. QED  BY <1>6, <1>10, Zenon DEF V

\* Mounts that are all at different places, each of a volume there is.
MountsAccepted(ms, V) ==
    /\ Distinct([k \in DOMAIN ms |-> ms[k].at])
    /\ \A k \in DOMAIN ms : \E v \in DOMAIN V : V[v].name = ms[k].volume

\* A container's own mounts: at different places with names of one word.
OwnMounts(own, m) ==
    /\ m \in Nat /\ IsTuple(own, m)
    /\ \A k, l \in 1..m : own[k].at = own[l].at => k = l
    /\ \A k \in 1..m : \E x : own[k].at[1].parts = <<x>>
    /\ \A k \in 1..m : own[k].volume \in {socketDir, mountpointDir, registrationDir, pluginsDir}

\* After m mounts, those of the pools.
PoolsMounted(ms, m, infos, n) ==
    \A i \in 1..n : /\ m + i \in DOMAIN ms /\ ms[m + i].volume = Mounts(infos, n)[i]
                    /\ ms[m + i].at = <<Mounts(infos, n)[i]>>

\* The pools' mounts can be added to them.
LEMMA MountsJoin ==
    ASSUME NEW infos, NEW n \in Nat, PoolInfos(infos, n), NEW own, NEW m \in Nat, OwnMounts(own, m)
    PROVE  LET ms == own \o buildVolumeMountsFromStoragePoolInfo(infos)
           IN /\ MountsAccepted(ms, Volumes(infos))
              /\ PoolsMounted(ms, m, infos, n)
<1>. DEFINE b  == buildVolumeMountsFromStoragePoolInfo(infos)
            ms == own \o b
            M  == Mounts(infos, n)
            V  == Volumes(infos)
<1>1. b = [i \in 1..n |-> [volume |-> getMountNameFromStoragePool(infos[i].name),
                           at     |-> <<getMountNameFromStoragePool(infos[i].name)>>]]
  BY DEF buildVolumeMountsFromStoragePoolInfo, PoolInfos
<1>2. IsTuple(b, n) /\ \A i \in 1..n : b[i].volume = M[i] /\ b[i].at = <<M[i]>>
  BY <1>1 DEF Mounts, IsTuple
<1>. HIDE DEF b
<1>3. Joins(ms, own, m, b, n)
  BY <1>2, ConcatJoins, Zenon DEF OwnMounts
<1>. HIDE DEF ms
<1>4. \A i \in 1..n : m + i \in DOMAIN ms /\ ms[m + i].volume = M[i] /\ ms[m + i].at = <<M[i]>>
  BY <1>2, <1>3, Zenon DEF Joins
<1>5. \A k \in 1..m : ms[k] = own[k]
  BY <1>3, Zenon DEF Joins
<1>6. \A k \in DOMAIN ms : k \in 1..m \/ \E i \in 1..n : k = m + i
  BY <1>3, Zenon DEF Joins
<1>7. /\ 1 \in DOMAIN V /\ 2 \in DOMAIN V /\ 3 \in DOMAIN V /\ 4 \in DOMAIN V
      /\ V[1].name = socketDir /\ V[2].name = mountpointDir
      /\ V[3].name = registrationDir /\ V[4].name = pluginsDir
      /\ \A i \in 1..n : 4 + i \in DOMAIN V /\ V[4 + i].name = M[i]
  <2>1. 1 \in 1..4 /\ 2 \in 1..4 /\ 3 \in 1..4 /\ 4 \in 1..4
    OBVIOUS
  <2>. QED  BY <2>1, VolumeIndex, Zenon
<1>. HIDE DEF V, M
<1>8. ASSUME NEW k \in DOMAIN ms PROVE \E v \in DOMAIN V : V[v].name = ms[k].volume
  <2>1. CASE k \in 1..m
    <3>1. ms[k].volume \in {socketDir, mountpointDir, registrationDir, pluginsDir}
      BY <1>5, <2>1, Zenon DEF OwnMounts
    <3>. QED  BY <1>7, <3>1, Zenon
  <2>2. CASE \E i \in 1..n : k = m + i
    BY <1>4, <1>7, <2>2, Zenon
  <2>. QED  BY <1>6, <2>1, <2>2
<1>9. ASSUME NEW k \in 1..m, NEW i \in 1..n PROVE ms[k].at # ms[m + i].at
  <2>1. \A x : M[i].parts # <<x>>
    BY MountsFacts, Zenon DEF M
  <2>2. ms[k].at[1] # M[i]
    <3>1. \E x : ms[k].at[1].parts = <<x>>
      BY <1>5, Zenon DEF OwnMounts
    <3>. QED  BY <2>1, <3>1, Zenon
  <2>3. <<M[i]>>[1] = M[i]
    OBVIOUS
  <2>. QED  BY <1>4, <2>2, <2>3, Zenon
<1>10. ASSUME NEW i \in 1..n, NEW j \in 1..n, ms[m + i].at = ms[m + j].at PROVE m + i = m + j
  <2>1. <<M[i]>> = <<M[j]>>
    BY <1>4, <1>10, Zenon
  <2>2. M[i] = M[j]
    BY <2>1
  <2>. QED  BY <2>2, MountsFacts, Zenon DEF M
<1>11. ASSUME NEW k \in DOMAIN ms, NEW l \in DOMAIN ms, ms[k].at = ms[l].at PROVE k = l
  <2>1. CASE k \in 1..m /\ l \in 1..m
    BY <1>5, <1>11, <2>1, Zenon DEF OwnMounts
  <2>2. CASE k \in 1..m /\ \E i \in 1..n : l = m + i
    BY <1>9, <1>11, <2>2, Zenon
  <2>3. CASE l \in 1..m /\ \E i \in 1..n : k = m + i
    BY <1>9, <1>11, <2>3, Zenon
  <2>4. CASE (\E i \in 1..n : k = m + i) /\ (\E i \in 1..n : l = m + i)
    BY <1>10, <1>11, <2>4, Zenon
  <2>. QED  BY <1>6, <2>1, <2>2, <2>3, <2>4, Zenon
<1>12. Distinct([k \in DOMAIN ms |-> ms[k].at])
  BY <1>11 DEF Distinct
<1>13. MountsAccepted(ms, V)
  BY <1>8, <1>12, Zenon DEF MountsAccepted
<1>. QED  BY <1>4, <1>13, Zenon DEF ms, b, V, M, PoolsMounted

DriverOwn ==
    <<[volume |-> pluginsDir,    at |-> <<Text(<<"plugins">>, 7)>>],
      [volume |-> mountpointDir, at |-> <<Text(<<"pods">>, 4)>>],
      socketDirVolumeMount>>

RegistrarOwn == <<socketDirVolumeMount, [volume |-> registrationDir, at |-> <<Text(<<"registration">>, 12)>>]>>

\* The mounts that the containers have besides those of the pools.
LEMMA OwnMountsOfContainers ==
    /\ OwnMounts(DriverOwn, 3) /\ OwnMounts(RegistrarOwn, 2) /\ OwnMounts(<<socketDirVolumeMount>>, 1)
<1>. DEFINE At(word, len) == <<Text(<<word>>, len)>>
<1>1. \A word, len : At(word, len)[1].parts = <<word>> /\ <<word>>[1] = word
  BY DEF Text
<1>. HIDE DEF At
<1>2. \A w, x, k, l : At(w, k) = At(x, l) => w = x
  BY <1>1
<1>3. /\ At("plugins", 7) # At("pods", 4) /\ At("plugins", 7) # At("csi", 3)
      /\ At("pods", 4) # At("csi", 3) /\ At("registration", 12) # At("csi", 3)
  <2>1. "plugins" # "pods" /\ "plugins" # "csi" /\ "pods" # "csi" /\ "registration" # "csi"
    OBVIOUS
  <2>. QED  BY <1>2, <2>1, Zenon
<1>4. socketDirVolumeMount = [volume |-> socketDir, at |-> At("csi", 3)]
  BY DEF socketDirVolumeMount, At
<1>5. OwnMounts(DriverOwn, 3)
  <2>1. DriverOwn = <<[volume |-> pluginsDir, at |-> At("plugins", 7)],
                      [volume |-> mountpointDir, at |-> At("pods", 4)],
                      [volume |-> socketDir, at |-> At("csi", 3)]>>
    BY <1>4 DEF DriverOwn, At
  <2>2. /\ IsTuple(DriverOwn, 3)
        /\ DriverOwn[1].at = At("plugins", 7) /\ DriverOwn[2].at = At("pods", 4) /\ DriverOwn[3].at = At("csi", 3)
        /\ DriverOwn[1].volume = pluginsDir /\ DriverOwn[2].volume = mountpointDir /\ DriverOwn[3].volume = socketDir
    BY <2>1 DEF IsTuple
  <2>3. 3 \in Nat /\ \A k \in 1..3 : k = 1 \/ k = 2 \/ k = 3
    OBVIOUS
  <2>4. \A k \in 1..3 : \E x : DriverOwn[k].at[1].parts = <<x>>
    <3>1. DriverOwn[1].at[1].parts = <<"plugins">> /\ DriverOwn[2].at[1].parts = <<"pods">> /\ DriverOwn[3].at[1].parts = <<"csi">>
      BY <1>1, <2>2, Zenon
    <3>. QED  BY <2>3, <3>1
  <2>5. \A k, l \in 1..3 : DriverOwn[k].at = DriverOwn[l].at => k = l
    BY <1>3, <2>2, <2>3, Zenon
  <2>6. \A k \in 1..3 : DriverOwn[k].volume \in {socketDir, mountpointDir, registrationDir, pluginsDir}
    BY <2>2, <2>3, Zenon
  <2>. QED  BY <2>2, <2>3, <2>4, <2>5, <2>6, Zenon DEF OwnMounts
<1>6. OwnMounts(RegistrarOwn, 2)
  <2>1. RegistrarOwn = <<[volume |-> socketDir, at |-> At("csi", 3)],
                         [volume |-> registrationDir, at |-> At("registration", 12)]>>
    BY <1>4 DEF RegistrarOwn, At
  <2>2. /\ IsTuple(RegistrarOwn, 2)
        /\ RegistrarOwn[1].at = At("csi", 3) /\ RegistrarOwn[2].at = At("registration", 12)
        /\ RegistrarOwn[1].volume = socketDir /\ RegistrarOwn[2].volume = registrationDir
    BY <2>1 DEF IsTuple
  <2>3. 2 \in Nat /\ \A k \in 1..2 : k = 1 \/ k = 2
    OBVIOUS
  <2>4. \A k \in 1..2 : \E x : RegistrarOwn[k].at[1].parts = <<x>>
    <3>1. RegistrarOwn[1].at[1].parts = <<"csi">> /\ RegistrarOwn[2].at[1].parts = <<"registration">>
      BY <1>1, <2>2, Zenon
    <3>. QED  BY <2>3, <3>1
  <2>5. \A k, l \in 1..2 : RegistrarOwn[k].at = RegistrarOwn[l].at => k = l
    BY <1>3, <2>2, <2>3, Zenon
  <2>6. \A k \in 1..2 : RegistrarOwn[k].volume \in {socketDir, mountpointDir, registrationDir, pluginsDir}
    BY <2>2, <2>3, Zenon
  <2>. QED  BY <2>2, <2>3, <2>4, <2>5, <2>6, Zenon DEF OwnMounts
<1>7. OwnMounts(<<socketDirVolumeMount>>, 1)
  <2>. DEFINE own == <<socketDirVolumeMount>>
  <2>1. IsTuple(own, 1) /\ own[1].at = At("csi", 3) /\ own[1].volume = socketDir
    BY <1>4 DEF IsTuple
  <2>2. 1 \in Nat /\ \A k \in 1..1 : k = 1
    OBVIOUS
  <2>. HIDE DEF own
  <2>3. \A k \in 1..1 : \E x : own[k].at[1].parts = <<x>>
    <3>1. own[1].at[1].parts = <<"csi">>
      BY <1>1, <2>1, Zenon
    <3>. QED  BY <2>2, <3>1
  <2>4. OwnMounts(own, 1)
    BY <2>1, <2>2, <2>3 DEF OwnMounts
  <2>. QED  BY <2>4 DEF own
<1>. QED  BY <1>5, <1>6, <1>7

\* The sidecars have the socket only.
LEMMA SidecarMounts ==
    ASSUME NEW infos, NEW n \in Nat, PoolInfos(infos, n)
    PROVE  MountsAccepted(<<socketDirVolumeMount>>, Volumes(infos))
<1>. DEFINE own == <<socketDirVolumeMount>>
            V   == Volumes(infos)
<1>1. DOMAIN own = 1..1 /\ own[1].volume = socketDir
  BY DEF socketDirVolumeMount
<1>2. 1 \in DOMAIN V /\ V[1].name = socketDir
  <2>1. 1 \in 1..4
    OBVIOUS
  <2>. QED  BY <2>1, VolumeIndex, Zenon
<1>3. \A k \in 1..1 : k = 1
  OBVIOUS
<1>. HIDE DEF own, V
<1>4. Distinct([k \in DOMAIN own |-> own[k].at])
  BY <1>1, <1>3 DEF Distinct
<1>5. \A k \in DOMAIN own : \E v \in DOMAIN V : V[v].name = own[k].volume
  BY <1>1, <1>2, <1>3, Zenon
<1>. QED  BY <1>4, <1>5, Zenon DEF own, V, MountsAccepted

LEMMA DriverContainerFields ==
    ASSUME NEW infos, NEW version
    PROVE  LET c == DriverContainer(infos, version)
           IN /\ c.mounts = DriverOwn \o buildVolumeMountsFromStoragePoolInfo(infos)
              /\ c.dirs = buildPathArgFromStoragePoolInfo(infos)
BY DEF DriverContainer, DriverOwn

\* The containers of a template: the driver, and others without directories.
LEMMA ContainerIndex ==
    ASSUME NEW infos, NEW version, NEW snapshotting \in BOOLEAN
    PROVE  LET C == <<DriverContainer(infos, version), RegistrarContainer(infos), LivenessProbeContainer,
                      ProvisionerContainer>>
                    \o (IF snapshotting THEN <<createSnapshotSideCarContainer>> ELSE <<>>)
           IN /\ C[1] = DriverContainer(infos, version)
              /\ \A k \in DOMAIN C : \/ C[k].mounts = DriverOwn \o buildVolumeMountsFromStoragePoolInfo(infos)
                                     \/ C[k].mounts = RegistrarOwn \o buildVolumeMountsFromStoragePoolInfo(infos)
                                     \/ C[k].mounts = <<socketDirVolumeMount>>
<1>. DEFINE a == <<DriverContainer(infos, version), RegistrarContainer(infos), LivenessProbeContainer,
                   ProvisionerContainer>>
            b == IF snapshotting THEN <<createSnapshotSideCarContainer>> ELSE <<>>
            n == IF snapshotting THEN 1 ELSE 0
            C == a \o b
            Mounted(c) == \/ c.mounts = DriverOwn \o buildVolumeMountsFromStoragePoolInfo(infos)
                          \/ c.mounts = RegistrarOwn \o buildVolumeMountsFromStoragePoolInfo(infos)
                          \/ c.mounts = <<socketDirVolumeMount>>
<1>1. /\ DriverContainer(infos, version).mounts = DriverOwn \o buildVolumeMountsFromStoragePoolInfo(infos)
      /\ RegistrarContainer(infos).mounts = RegistrarOwn \o buildVolumeMountsFromStoragePoolInfo(infos)
      /\ LivenessProbeContainer.mounts = <<socketDirVolumeMount>>
      /\ ProvisionerContainer.mounts = <<socketDirVolumeMount>>
      /\ createSnapshotSideCarContainer.mounts = <<socketDirVolumeMount>>
  <2>1. ASSUME NEW name, NEW mounts PROVE Container(name, mounts).mounts = mounts
    BY DEF Container
  <2>. QED
    BY <2>1, DriverContainerFields, Zenon
       DEF RegistrarContainer, RegistrarOwn, LivenessProbeContainer, ProvisionerContainer,
           createSnapshotSideCarContainer
<1>2. /\ IsTuple(a, 4) /\ a[1] = DriverContainer(infos, version) /\ a[2] = RegistrarContainer(infos)
      /\ a[3] = LivenessProbeContainer /\ a[4] = ProvisionerContainer
  BY DEF IsTuple
<1>3. IsTuple(b, n) /\ n \in Nat /\ \A k \in 1..n : b[k] = createSnapshotSideCarContainer
  BY DEF IsTuple
<1>. HIDE DEF a, b, n
<1>4. 4 \in Nat /\ 1 \in 1..4 /\ \A k \in 1..4 : k = 1 \/ k = 2 \/ k = 3 \/ k = 4
  OBVIOUS
<1>5. Joins(C, a, 4, b, n)
  BY <1>2, <1>3, <1>4, ConcatJoins, Zenon
<1>. HIDE DEF C
<1>6. C[1] = DriverContainer(infos, version)
  BY <1>2, <1>4, <1>5, Zenon DEF Joins
<1>7. \A k \in 1..4 : Mounted(a[k])
  BY <1>1, <1>2, <1>4, Zenon
<1>8. \A k \in 1..n : Mounted(b[k])
  BY <1>1, <1>3, Zenon
<1>. HIDE DEF Mounted
<1>9. ASSUME NEW k \in DOMAIN C PROVE Mounted(C[k])
  <2>1. k \in 1..4 \/ \E i \in 1..n : k = 4 + i
    BY <1>5, Zenon DEF Joins
  <2>2. CASE k \in 1..4
    <3>1. C[k] = a[k]
      BY <1>5, <2>2, Zenon DEF Joins
    <3>. QED  BY <1>7, <2>2, <3>1, Zenon
  <2>3. CASE \E i \in 1..n : k = 4 + i
    <3>1. PICK i \in 1..n : k = 4 + i
      BY <2>3
    <3>2. C[k] = b[i]
      BY <1>5, <3>1, Zenon DEF Joins
    <3>. QED  BY <1>8, <3>2, Zenon
  <2>. QED  BY <2>1, <2>2, <2>3
<1>. QED  BY <1>6, <1>9, Zenon DEF C, a, b, Mounted

\* The directories the driver is told of.
LEMMA DirFacts ==
    ASSUME NEW infos, NEW n \in Nat, PoolInfos(infos, n)
    PROVE  LET dirs == buildPathArgFromStoragePoolInfo(infos)
           IN /\ DOMAIN dirs = 1..n
              /\ \A i \in 1..n : /\ dirs[i].at[1] = Mounts(infos, n)[i]
                                 /\ infos[i].snapshots => dirs[i].snapshots[1] = Mounts(infos, n)[i]
              /\ \A i, j \in 1..n : i # j => dirs[i].name # dirs[j].name
<1>. DEFINE dirs == buildPathArgFromStoragePoolInfo(infos)
<1>1. DOMAIN infos = 1..n
  BY DEF PoolInfos
<1>2. DOMAIN dirs = 1..n
  BY <1>1 DEF buildPathArgFromStoragePoolInfo
<1>3. ASSUME NEW i \in 1..n
      PROVE  /\ dirs[i].name = IF infos[i].name = Blank THEN Text(<<"legacy">>, 6) ELSE infos[i].name
             /\ dirs[i].at = <<getMountNameFromStoragePool(infos[i].name), Text(<<"csi">>, 3)>>
             /\ infos[i].snapshots => dirs[i].snapshots = <<getMountNameFromStoragePool(infos[i].name),
                                                           Text(<<"csi">>, 3), Text(<<"snapshots">>, 9)>>
  BY <1>1 DEF buildPathArgFromStoragePoolInfo
<1>. HIDE DEF dirs
<1>4. ASSUME NEW i \in 1..n
      PROVE  /\ dirs[i].at[1] = Mounts(infos, n)[i]
             /\ infos[i].snapshots => dirs[i].snapshots[1] = Mounts(infos, n)[i]
  BY <1>3 DEF Mounts
<1>5. ASSUME NEW i \in 1..n, NEW j \in 1..n, i # j PROVE dirs[i].name # dirs[j].name
  <2>1. infos[i].name # Blank /\ infos[j].name # Blank /\ infos[i].name # infos[j].name
    BY <1>5 DEF PoolInfos
  <2>. QED  BY <1>3, <2>1
<1>. QED  BY <1>2, <1>4, <1>5, Zenon DEF dirs

\* The template made from a spec the webhook admits is right in itself and for the spec.
LEMMA TemplateServes ==
    ASSUME NEW spec \in Specs, validatePathConfigAndStoragePools(spec), NEW version
    PROVE  /\ PodAccepted(createCSIDaemonSetObject(spec, version))
           /\ Serves(createCSIDaemonSetObject(spec, version), spec)
<1>. DEFINE infos == getStoragePoolPaths(spec)
            t     == createCSIDaemonSetObject(spec, version)
            V     == Volumes(infos)
            D     == DriverOwn \o buildVolumeMountsFromStoragePoolInfo(infos)
            dirs  == buildPathArgFromStoragePoolInfo(infos)
<1>1. PICK n \in Nat : PoolInfos(infos, n)
  BY AdmittedInfos
<1>. DEFINE C == <<DriverContainer(infos, version), RegistrarContainer(infos), LivenessProbeContainer,
                   ProvisionerContainer>>
                 \o (IF spec.snapshotting THEN <<createSnapshotSideCarContainer>> ELSE <<>>)
            M == Mounts(infos, n)
<1>2. t.volumes = V /\ t.containers = C
  BY DEF createCSIDaemonSetObject, Volumes
<1>3. /\ C[1] = DriverContainer(infos, version)
      /\ \A k \in DOMAIN C : \/ C[k].mounts = D
                             \/ C[k].mounts = RegistrarOwn \o buildVolumeMountsFromStoragePoolInfo(infos)
                             \/ C[k].mounts = <<socketDirVolumeMount>>
  <2>1. spec.snapshotting \in BOOLEAN
    BY SpecType
  <2>. QED  BY <2>1, ContainerIndex, Zenon
<1>4. C[1].mounts = D /\ C[1].dirs = dirs
  BY <1>3, DriverContainerFields, Zenon
<1>5. /\ MountsAccepted(D, V)
      /\ \A i \in 1..n : 3 + i \in DOMAIN D /\ D[3 + i].volume = M[i] /\ D[3 + i].at = <<M[i]>>
  <2>1. 3 \in Nat
    OBVIOUS
  <2>2. MountsAccepted(D, V)
    BY <1>1, <2>1, OwnMountsOfContainers, MountsJoin, Zenon
  <2>3. \A i \in 1..n : 3 + i \in DOMAIN D /\ D[3 + i].volume = M[i] /\ D[3 + i].at = <<M[i]>>
    <3>1. PoolsMounted(D, 3, infos, n)
      BY <1>1, <2>1, OwnMountsOfContainers, MountsJoin, Zenon
    <3>. QED  BY <3>1, Zenon DEF PoolsMounted
  <2>. QED  BY <2>2, <2>3, Zenon
<1>6. MountsAccepted(RegistrarOwn \o buildVolumeMountsFromStoragePoolInfo(infos), V)
  <2>1. 2 \in Nat
    OBVIOUS
  <2>. QED  BY <1>1, <2>1, OwnMountsOfContainers, MountsJoin, Zenon
<1>7. MountsAccepted(<<socketDirVolumeMount>>, V)
  BY <1>1, SidecarMounts, Zenon
<1>8. /\ Distinct([i \in DOMAIN V |-> V[i].name]) /\ \A i \in DOMAIN V : WellFormed(V[i].name)
      /\ \A i \in 1..n : 4 + i \in DOMAIN V /\ V[4 + i].name = M[i] /\ V[4 + i].path = infos[i].path
  BY <1>1, VolumesAccepted, VolumeIndex, Zenon
<1>9. /\ DOMAIN dirs = 1..n
      /\ \A i \in 1..n : dirs[i].at[1] = M[i] /\ (infos[i].snapshots => dirs[i].snapshots[1] = M[i])
      /\ \A i, j \in 1..n : i # j => dirs[i].name # dirs[j].name
  BY <1>1, DirFacts, Zenon
<1>10. DOMAIN infos = 1..n
  BY <1>1 DEF PoolInfos
<1>11. \A i, j \in 1..n : M[i] = M[j] => i = j
  BY <1>1, MountsFacts, Zenon
<1>. HIDE DEF infos, t, V, D, dirs, C, M
<1>12. PodAccepted(t)
  <2>1. ASSUME NEW k \in DOMAIN C PROVE MountsAccepted(C[k].mounts, V)
    BY <1>3, <1>5, <1>6, <1>7, Zenon
  <2>. QED  BY <1>2, <1>8, <2>1, Zenon DEF PodAccepted, MountsAccepted
<1>13. ASSUME NEW i \in 1..n, NEW d, d[1] = M[i] PROVE LiesIn(t, d, infos[i].path)
  <2>1. <<d[1]>> = <<M[i]>>
    BY <1>13, Zenon
  <2>2. t.containers[1].mounts = D /\ t.volumes = V
    BY <1>2, <1>4, Zenon
  <2>. QED  BY <1>5, <1>8, <2>1, <2>2, Zenon DEF LiesIn
<1>14. t.containers[1].dirs = dirs
  BY <1>2, <1>4, Zenon
<1>15. Distinct([i \in DOMAIN dirs |-> dirs[i].at])
  <2>1. ASSUME NEW i \in DOMAIN dirs, NEW j \in DOMAIN dirs, dirs[i].at = dirs[j].at PROVE i = j
    <3>1. dirs[i].at[1] = M[i] /\ dirs[j].at[1] = M[j]
      BY <1>9, Zenon
    <3>2. M[i] = M[j]
      BY <2>1, <3>1, Zenon
    <3>. QED  BY <1>9, <1>11, <3>2, Zenon
  <2>. QED  BY <2>1 DEF Distinct
<1>16. Distinct([i \in DOMAIN dirs |-> dirs[i].name])
  <2>1. ASSUME NEW i \in DOMAIN dirs, NEW j \in DOMAIN dirs, dirs[i].name = dirs[j].name PROVE i = j
    BY <1>9, <2>1, Zenon
  <2>. QED  BY <2>1 DEF Distinct
<1>17. Serves(t, spec)
  <2>1. ASSUME NEW i \in DOMAIN infos
        PROVE  /\ LiesIn(t, dirs[i].at, infos[i].path)
               /\ infos[i].snapshots => LiesIn(t, dirs[i].snapshots, infos[i].path)
    BY <1>9, <1>10, <1>13, Zenon
  <2>. QED  BY <1>9, <1>10, <1>14, <1>15, <1>16, <2>1, Zenon DEF Serves, infos
<1>. QED  BY <1>12, <1>17 DEF t

\* The argument of the driver is a version, whatever profile the cache has.
LEMMA ArgumentType ==
    ASSUME CryptoTypeOK, ~ArgumentPanics
    PROVE  GetTLSMinVersionString \in 10..13
<1>1. \A v : getTLSVersionOrDefault(v) \in 10..13
  BY DEF getTLSVersionOrDefault
<1>2. env \in Settings(Nat) /\ seen \in Profiles /\ readable \in BOOLEAN
  BY OverrideType DEF CryptoTypeOK
<1>3. env.version = 0 /\ readable => selectCipherSuitesAndMinTLSVersion(seen).version \in 10..13
  BY <1>2, SelectType DEF ArgumentPanics, Settings
<1>. QED  BY <1>1, <1>2, <1>3 DEF GetTLSMinVersionString

\* Whatever CR the webhook admits, and whatever happens to it during the pass: what the pass
\* writes for the CSI driver is a pod the API accepts, with a directory of its own for every
\* pool of the CR that the pass read.
THEOREM PoolsAlwaysServed == Spec => PoolsServed
<1>. DEFINE Written == csi' # csi => PodAccepted(csi'[1]) /\ Serves(csi'[1], Held)
<1>1. TypeInv /\ AdmittedInv /\ [Next]_vars => Written
  <2>. SUFFICES ASSUME TypeInv, AdmittedInv, Next, csi' # csi
                PROVE  PodAccepted(csi'[1]) /\ Serves(csi'[1], Held)
    BY DEF vars, operatorVars
  <2>1. ReconcileCsi
    BY DEF Next, Crypto, operatorVars, EditCR, Resync, Pass, Begin, ReconcileLegacy, PassFails, Restart
  <2>2. Held \in Specs /\ validatePathConfigAndStoragePools(Held) /\ ~ArgumentPanics
    BY <2>1 DEF ReconcileCsi, TypeInv, TypeOK, AdmittedInv
  <2>3. GetTLSMinVersionString \in 10..13
    BY <2>2, ArgumentType DEF TypeInv, TypeOK
  <2>4. csi' = <<CSITemplates[Held][GetTLSMinVersionString]>>
    BY <2>1, <2>2 DEF ReconcileCsi, reconcileDaemonSetForSa
  <2>5. CSITemplates[Held][GetTLSMinVersionString] = createCSIDaemonSetObject(Held, GetTLSMinVersionString)
    BY <2>2, <2>3 DEF CSITemplates
  <2>6. csi'[1] = createCSIDaemonSetObject(Held, GetTLSMinVersionString)
    BY <2>4, <2>5
  <2>. QED  BY <2>2, <2>6, TemplateServes, Zenon
<1>. QED  BY <1>1, AdmittedInvariant, PTL DEF Spec, PoolsServed

=============================================================================
