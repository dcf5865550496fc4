---------------------------- MODULE Permissions ----------------------------
(***************************************************************************)
(* What the operator may do and what it grants.  The rules of the          *)
(* operator's own ClusterRole and Role come from the generated manifests,  *)
(* the rules it hands on to the provisioner and to Prometheus from the     *)
(* objects it builds.  The API server refuses a call that no rule allows,  *)
(* and it refuses to let anybody write or bind a role with rules that the  *)
(* writer does not have himself.                                           *)
(***************************************************************************)
EXTENDS FiniteSets

Read   == {"get", "list", "watch"}
Change == {"update", "delete"}

\* A rule for every object of some resources, and one for the named ones only.
Rule(resources, verbs) == [resources |-> resources, verbs |-> verbs, names |-> {}]
RuleFor(resources, verbs, names) == [resources |-> resources, verbs |-> verbs, names |-> names]

\* Does a set of rules allow the verb on the object?
Allowed(rules, verb, resource, name) ==
    \E r \in rules : /\ resource \in r.resources
                     /\ verb \in r.verbs
                     /\ r.names = {} \/ name \in r.names

\* Does whoever holds one set of rules hold all of another?
Covers(held, granted) ==
    \A g \in granted : \A resource \in g.resources, verb \in g.verbs :
        \E h \in held : resource \in h.resources /\ verb \in h.verbs /\ h.names = {}

-----------------------------------------------------------------------------
(* The names the operator gives to what it manages.                        *)

MultiPurposeHostPathProvisionerName == "hostpath-provisioner"
CsiName                             == "hostpath-provisioner-csi"
ProvisionerServiceAccountName       == "hostpath-provisioner-admin"
ProvisionerServiceAccountNameCsi    == "hostpath-provisioner-admin-csi"
rbacName                            == "hostpath-provisioner-monitoring"
PrometheusServiceName               == "hpp-prometheus-metrics"
driverName                          == "kubevirt.io.hostpath-provisioner"

RbacNames == {MultiPurposeHostPathProvisionerName, ProvisionerServiceAccountName,
              ProvisionerServiceAccountNameCsi}

-----------------------------------------------------------------------------
(* The ClusterRole of the operator.                                        *)

VolumeRules ==
    {Rule({"persistentvolumes"}, Read \cup {"create", "delete", "patch"}),
     Rule({"persistentvolumeclaims"}, Read \cup {"create", "update"}),
     Rule({"events"}, Read \cup {"create", "patch", "update"})}

ClusterRbacRules ==
    {RuleFor({"clusterrolebindings", "clusterroles"}, Change, RbacNames),
     Rule({"clusterrolebindings", "clusterroles"}, Read \cup {"create"}),
     RuleFor({"deployments/finalizers"}, {"update"}, {"hostpath-provisioner-operator"}),
     Rule({"hostpathprovisioners"}, Read \cup Change \cup {"create", "patch"})}

ClusterObjectRules ==
    {Rule({"securitycontextconstraints"}, Read \cup {"create"}),
     RuleFor({"securitycontextconstraints"}, Change, {MultiPurposeHostPathProvisionerName, CsiName}),
     Rule({"apiservers", "nodes", "csinodes"}, Read),
     Rule({"storageclasses"}, Read \cup Change \cup {"create"}),
     Rule({"csidrivers"}, Read \cup {"create"}),
     RuleFor({"csidrivers"}, Change, {driverName})}

SnapshotRules ==
    {Rule({"volumeattachments"}, Read \cup {"patch"}),
     Rule({"volumeattachments/status"}, {"patch"}),
     Rule({"volumesnapshotclasses", "pods"}, Read),
     Rule({"volumesnapshots"}, {"get"}),
     Rule({"volumesnapshotcontents"}, Read \cup Change \cup {"create", "patch"}),
     Rule({"volumesnapshotcontents/status"}, {"update", "patch"})}

(* The Role of the operator in its own namespace.                          *)

WorkloadRules ==
    {Rule({"daemonsets", "services", "serviceaccounts"}, Read \cup {"create"}),
     RuleFor({"daemonsets"}, Change, {MultiPurposeHostPathProvisionerName, CsiName}),
     Rule({"deployments"}, Read \cup Change \cup {"create"}),
     Rule({"endpoints"}, Read),
     RuleFor({"services"}, Change, {PrometheusServiceName}),
     Rule({"configmaps"}, {"create", "get"}),
     RuleFor({"configmaps"}, {"update"}, {"hostpath-provisioner-operator-lock"}),
     RuleFor({"serviceaccounts"}, Change,
             {ProvisionerServiceAccountName, ProvisionerServiceAccountNameCsi})}

\* Mutant of NamespaceRules: the monitoring role is not among the names that
\* may be updated.
NamespaceRulesRbacNames ==
    {Rule({"leases", "csistoragecapacities"}, Read \cup Change \cup {"create"}),
     Rule({"servicemonitors", "prometheusrules"}, Read \cup Change \cup {"create", "patch"}),
     Rule({"rolebindings", "roles"}, Read \cup {"create"}),
     RuleFor({"rolebindings", "roles"}, Change, RbacNames),
     Rule({"jobs"}, {"create", "delete", "list", "watch"})}

NamespaceRules ==
    {Rule({"leases", "csistoragecapacities"}, Read \cup Change \cup {"create"}),
     Rule({"servicemonitors", "prometheusrules"}, Read \cup Change \cup {"create", "patch"}),
     Rule({"rolebindings", "roles"}, Read \cup {"create"}),
     RuleFor({"rolebindings", "roles"}, Change, RbacNames \cup {rbacName}),
     Rule({"jobs"}, {"create", "delete", "list", "watch"})}

\* What the operator may do anywhere, and what it may do in its own namespace.
HppOperatorClusterRules ==
    VolumeRules \cup ClusterRbacRules \cup ClusterObjectRules \cup SnapshotRules

HppOperatorRules == HppOperatorClusterRules \cup WorkloadRules \cup NamespaceRules

-----------------------------------------------------------------------------
(* The rules the operator writes into the roles it creates.                *)

createClusterRoleObjectProvisioner ==
    {Rule({"persistentvolumes"}, Read \cup {"create", "delete"}),
     Rule({"persistentvolumeclaims"}, Read \cup {"update"}),
     Rule({"storageclasses"}, Read),
     Rule({"events"}, {"list", "watch", "create", "patch", "update"}),
     Rule({"nodes"}, {"get"})}

createSnapshotCsiClusterRoles ==
    {Rule({"volumesnapshotclasses"}, Read),
     Rule({"volumesnapshots"}, {"get"}),
     Rule({"volumesnapshotcontents"}, Read \cup Change \cup {"create", "patch"}),
     Rule({"volumesnapshotcontents/status"}, {"update", "patch"})}

\* With the feature gate Snapshotting the snapshot rules are added.
createCsiClusterRoleObjectProvisioner(snapshotting) ==
    {Rule({"persistentvolumes"}, Read \cup {"create", "delete", "patch"}),
     Rule({"persistentvolumeclaims"}, Read \cup {"update"}),
     Rule({"storageclasses"}, Read \cup {"create"}),
     Rule({"events"}, {"list", "watch", "create", "patch", "update"}),
     Rule({"csinodes", "nodes"}, Read),
     Rule({"volumeattachments"}, Read \cup {"patch"}),
     Rule({"volumeattachments/status"}, {"patch"})}
    \cup IF snapshotting THEN createSnapshotCsiClusterRoles ELSE {}

createRoleObjectProvisioner ==
    {Rule({"leases"}, {"get", "update", "create"}),
     Rule({"csistoragecapacities"}, Read \cup Change \cup {"create"}),
     Rule({"pods"}, {"get"})}

createPrometheusRole == {Rule({"services", "endpoints", "pods"}, Read)}
=============================================================================
