---------------------------- MODULE CryptoPolicy ----------------------------
(***************************************************************************)
(* The TLS settings of the operator's own servers (metrics and webhook) and*)
(* of the CSI driver's.  The cluster has a profile, in the APIServer CR;   *)
(* the operator reads it from a cache that it fills after it has started to*)
(* serve, on every handshake, and hands the version to the driver as an    *)
(* argument.  Two variables of its environment override the profile.       *)
(***************************************************************************)
EXTENDS Naturals, Sequences, FiniteSets

CONSTANTS
    Profiles,    \* profiles the APIServer CR may have
    Overrides,   \* environments of the operator
    MaxProfiles, \* bound: changes of the profile
    MaxRestarts  \* bound: restarts of the operator

ASSUME ProfileAssumption == [type |-> "unset", custom |-> <<>>] \in Profiles
ASSUME ProfileShape ==  \* the API admits no other versions in a profile
    LET settings(versions) == [suites : SUBSET {"known", "old", "unknown"}, version : versions]
    IN /\ Profiles \subseteq [type : STRING, custom : {<<>>} \cup {<<s>> : s \in settings(10..13)}]
       /\ Overrides \subseteq settings(Nat)
ASSUME ProfileBounds == MaxProfiles \in Nat /\ MaxRestarts \in Nat

VARIABLES
    profile,  \* of the APIServer CR
    seen,     \* the cached copy of it
    readable, \* does the cluster have the APIServer CR?
    env,      \* the overrides: of the cipher suites, and of the version
    watcher,  \* "down", "serving" (the cache is not ready) or "ready"
    served,   \* settings of the last handshake
    profiles, \* number of changes so far
    restarts  \* number of restarts so far

cryptoVars == <<profile, seen, readable, env, watcher, served, profiles, restarts>>

-----------------------------------------------------------------------------
\* Settings: cipher suites and the lowest version, 10 to 13; Go has a default for each,
\* "default" and 0.  cipherSuitesIDs drops the names that it does not know.
NoSettings == [suites |-> {}, version |-> 99]

\* A profile is unset, names a type, or has settings of its own.
NoProfile == [type |-> "unset", custom |-> <<>>]

\* The types that have settings: external.
TLSProfiles == [Old          |-> [suites |-> {"known", "old", "unknown"}, version |-> 10],
                Intermediate |-> [suites |-> {"known", "unknown"},        version |-> 12],
                Modern       |-> [suites |-> {"known"},                   version |-> 13]]

\* A profile without a type that has settings: a nil pointer is dereferenced.
Panics(p) == p.custom = <<>> /\ p.type \notin DOMAIN TLSProfiles \cup {"unset"}

selectCipherSuitesAndMinTLSVersion(p) ==
    IF p.custom # <<>> THEN p.custom[1]
    ELSE TLSProfiles[IF p.type = "unset" THEN "Intermediate" ELSE p.type]

cipherSuitesIDs(names) == names \ {"unknown"}

\* A version that is not known counts as 13.
getTLSVersionOrDefault(version) == IF version \in 10..13 THEN version ELSE 13

cryptoConfigFromProfile(p) ==
    LET s == selectCipherSuitesAndMinTLSVersion(p)
    IN [suites |-> cipherSuitesIDs(s.suites), version |-> getTLSVersionOrDefault(s.version)]

\* The watcher before it has read a profile.
NewManagedTLSWatcher == cryptoConfigFromProfile([type |-> "Intermediate", custom |-> <<>>])

NoOverride == [suites |-> {}, version |-> 0]

\* Mutant of GetTLSConfig: what the watcher starts with, for good.
GetTLSConfigOnce == NewManagedTLSWatcher

\* The settings of a handshake.  An override of one replaces both.
GetTLSConfig ==
    CASE env # NoOverride -> [suites  |-> IF env.suites = {} THEN {"default"}
                                          ELSE cipherSuitesIDs(env.suites),
                              version |-> IF env.version = 0 THEN 0
                                          ELSE getTLSVersionOrDefault(env.version)]
      [] env = NoOverride /\ ~(watcher = "ready" /\ readable) -> NewManagedTLSWatcher
      [] env = NoOverride /\ watcher = "ready" /\ readable    -> cryptoConfigFromProfile(seen)

\* A handshake panics, and the connection is closed.
HandshakePanics == env = NoOverride /\ watcher = "ready" /\ readable /\ Panics(seen)

\* Mutant of GetTLSMinVersionString: the lowest version if there is no profile.
GetTLSMinVersionStringLax ==
    CASE env.version # 0              -> getTLSVersionOrDefault(env.version)
      [] env.version = 0 /\ ~readable -> 10
      [] env.version = 0 /\ readable  -> selectCipherSuitesAndMinTLSVersion(seen).version

\* The argument of the driver.
GetTLSMinVersionString ==
    CASE env.version # 0              -> getTLSVersionOrDefault(env.version)
      [] env.version = 0 /\ ~readable -> 13
      [] env.version = 0 /\ readable  -> selectCipherSuitesAndMinTLSVersion(seen).version

ArgumentPanics == env.version = 0 /\ readable /\ Panics(seen)

CryptoInit ==
    /\ profile \in Profiles /\ seen = profile
    /\ readable \in BOOLEAN /\ (readable \/ profile = NoProfile)
    /\ env \in Overrides
    /\ watcher = "down" /\ served = NoSettings
    /\ profiles = 0 /\ restarts = 0

-----------------------------------------------------------------------------
\* An administrator changes the profile; the cache follows.  External.
EditProfile(p) ==
    /\ profiles < MaxProfiles /\ profiles' = profiles + 1
    /\ readable /\ p # profile /\ profile' = p
    /\ UNCHANGED <<seen, readable, env, watcher, served, restarts>>

Notice ==
    /\ watcher # "down"
    /\ seen # profile /\ seen' = profile
    /\ UNCHANGED <<profile, readable, env, watcher, served, profiles, restarts>>

\* The watcher is given the manager's cache, and the servers start.
SetCache ==
    /\ watcher = "down" /\ watcher' = "serving"
    /\ UNCHANGED <<profile, seen, readable, env, served, profiles, restarts>>

\* The cache is filled.
Start ==
    /\ watcher = "serving" /\ watcher' = "ready"
    /\ UNCHANGED <<profile, seen, readable, env, served, profiles, restarts>>

\* CryptoPolicyOpt: every handshake asks for the settings.
Handshake ==
    /\ watcher # "down"
    /\ served' = IF HandshakePanics THEN NoSettings ELSE GetTLSConfig
    /\ UNCHANGED <<profile, seen, readable, env, watcher, profiles, restarts>>

\* The operator is stopped; a new one starts with an empty cache.
Stop ==
    /\ restarts < MaxRestarts /\ restarts' = restarts + 1
    /\ watcher # "down" /\ watcher' = "down"
    /\ served' = NoSettings /\ seen' = profile
    /\ UNCHANGED <<profile, readable, env, profiles>>

CryptoTypeOK ==
    /\ profile \in Profiles /\ seen \in Profiles
    /\ readable \in BOOLEAN /\ env \in Overrides
    /\ watcher \in {"down", "serving", "ready"}
    /\ served.suites \subseteq {"default", "known", "old"} /\ served.version \in {0, 99} \cup 10..13
    /\ profiles \in 0..MaxProfiles /\ restarts \in 0..MaxRestarts

=============================================================================
