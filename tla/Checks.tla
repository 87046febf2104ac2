------------------------------- MODULE Checks -------------------------------
(***************************************************************************)
(* The detection engine of internal/checks: the 22 built-in checks over a  *)
(* resource graph, and the profiles that select and re-grade them.  The    *)
(* findings of a scan are a set: `at' keeps apart the findings one check   *)
(* has on one resource (its container, volume or capability), so that a    *)
(* count of the set is the length of the code's list.                      *)
(***************************************************************************)
EXTENDS ResourceGraph

Rank == [critical |-> 5, high |-> 4, medium |-> 3, low |-> 2, info |-> 1]

Ref(r) == [kind |-> r.kind, ns |-> r.ns, name |-> r.name]

Finding(id, sev, res, at) == [id |-> id, sev |-> sev, res |-> res, at |-> at]

SensitiveHostPaths == {"/", "/var/run", "/var/run/docker.sock", "/run/docker.sock",
  "/run/containerd/containerd.sock", "/var/run/crio/crio.sock", "/proc",
  "/var/lib/kubelet", "/etc/kubernetes", "/var/lib/docker"}

DangerousCaps == {"ALL", "SYS_ADMIN", "NET_ADMIN", "SYS_PTRACE", "SYS_MODULE",
  "SYS_BOOT", "SYS_RAWIO", "DAC_READ_SEARCH", "BPF", "NET_RAW"}

-----------------------------------------------------------------------------
(* What a container is asked.  Its own security context wins over its pod's. *)

EffectiveSeccomp(c, w) == IF c.seccomp # "" THEN c.seccomp ELSE w.seccomp

RunsAsRoot(c, w) ==
  LET user == IF c.user # {} THEN c.user ELSE w.user
      nonRoot == IF c.nonRoot # {} THEN c.nonRoot ELSE w.nonRoot
  IN 0 \in user \/ (TRUE \notin nonRoot /\ \A u \in user : u <= 0)

\* Faulty variant: the digest is not looked at.
IsMutableImage_tagOnly(i) == i.tag \in {"", "latest"}

\* An image without a digest is mutable when its tag is missing or "latest".
IsMutableImage(i) == ~i.digest /\ i.tag \in {"", "latest"}

\* The first path segment is a registry only if it looks like a host.
ImplicitRegistry(i) == i.host \in {"none", "plain"}

-----------------------------------------------------------------------------
(* The checks. *)

AllContainers(g) ==
  UNION {{[c |-> c, w |-> w] : c \in Containers(w)} : w \in Workloads(g)}

AllRoles(g) == Range(g.roles) \cup Range(g.clusterRoles)

\* One finding per offending container, and one per offending object.
PerContainer(id, sev, offending) ==
  {Finding(id, sev, Ref(x.w), <<x.c.name>>) : x \in offending}

PerObject(id, sev, offending) == {Finding(id, sev, Ref(r), <<>>) : r \in offending}

HostPathCheck(g) ==
  UNION {{Finding("KG-002", IF v.path \in SensitiveHostPaths THEN "critical" ELSE "high",
                  Ref(w), <<v.name>>) : v \in HostPaths(w)} : w \in Workloads(g)}

DangerousCapsCheck(g) ==
  UNION {UNION {{Finding("KG-008", "high", Ref(w), <<c.name, cap>>) : cap \in c.add \cap DangerousCaps}
                 : c \in Containers(w)} : w \in Workloads(g)}

ClusterAdminBindingCheck(g) ==
  {Finding("KG-011", "critical", Ref(b), <<>>)
    : b \in {x \in g.clusterRoleBindings \cup g.roleBindings :
               /\ \E s \in x.subjects : s.kind \in {"ServiceAccount", "Group"}
               /\ RefIsAdmin(g, x.ref)}}

NetworkPolicyCheck(g) ==
  {Finding("KG-017", "medium", [kind |-> "Namespace", ns |-> "", name |-> ns], <<>>)
    : ns \in {w.ns : w \in {x \in Workloads(g) : x.ns # "" /\ ~HasDefaultDeny(g, x.ns)}}}

WorkloadDangerous(g, w) ==
  \/ \E c \in Containers(w) : Privileged(c)
  \/ HostPaths(w) # {}
  \/ SAIsClusterAdmin(g, w.ns, ServiceAccountName(w))

\* Faulty variant: only LoadBalancers count as exposed.
ExposureCheck_loadBalancers(g) ==
  {Finding("KG-018", "medium", Ref(s), <<>>) : s \in {x \in g.services : x.type = "LoadBalancer"}}

ExposureCheck(g) ==
  {Finding("KG-018",
           IF /\ ServiceType(s) = "LoadBalancer"
              /\ \E w \in WorkloadsForService(g, s) : WorkloadDangerous(g, w)
           THEN "high" ELSE "medium", Ref(s), <<>>)
    : s \in {x \in g.services : Exposing(x)}}

PrivilegedCheck(g) ==
  PerContainer("KG-001", "critical",
    {x \in AllContainers(g) : Privileged(x.c)})

HostNetworkCheck(g) ==
  PerObject("KG-003", "high", {w \in Workloads(g) : w.hostNetwork})

HostPIDCheck(g) ==
  PerObject("KG-004", "high", {w \in Workloads(g) : w.hostPID})

HostIPCCheck(g) ==
  PerObject("KG-005", "medium", {w \in Workloads(g) : w.hostIPC})

RunAsRootCheck(g) ==
  PerContainer("KG-006", "medium",
    {x \in AllContainers(g) : RunsAsRoot(x.c, x.w)})

AllowPrivEscCheck(g) ==
  PerContainer("KG-007", "medium",
    {x \in AllContainers(g) : FALSE \notin x.c.privEsc})

ReadOnlyRootFSCheck(g) ==
  PerContainer("KG-009", "low",
    {x \in AllContainers(g) : TRUE \notin x.c.readOnly})

ResourceLimitsCheck(g) ==
  PerContainer("KG-010", "low",
    {x \in AllContainers(g) : ~(x.c.cpu /\ x.c.memory)})

\* The rules of a role are looked up again by its kind and name.
WildcardRBACCheck(g) ==
  PerObject("KG-012", "high",
    {r \in AllRoles(g) : \E x \in RoleRules(g, r) : RuleAnyWildcard(x)})

SecretsAccessCheck(g) ==
  PerObject("KG-013", "high",
    {r \in AllRoles(g) : \E x \in RoleRules(g, r) : RuleGrantsSecrets(x)})

PodCreateCheck(g) ==
  PerObject("KG-014", "high",
    {r \in AllRoles(g) : \E x \in RoleRules(g, r) : RuleGrantsPodCreate(x)})

AutomountTokenCheck(g) ==
  PerObject("KG-015", "medium", {w \in Workloads(g) : AutomountEffective(g, w)})

DefaultSACheck(g) ==
  PerObject("KG-016", "low", {w \in Workloads(g) : ServiceAccountName(w) = "default"})

MutableImageCheck(g) ==
  PerContainer("KG-019", "low",
    {x \in AllContainers(g) : IsMutableImage(x.c.image)})

SeccompCheck(g) ==
  PerContainer("KG-020", "low",
    {x \in AllContainers(g) : EffectiveSeccomp(x.c, x.w) # "RuntimeDefault"})

CapDropAllCheck(g) ==
  PerContainer("KG-021", "medium",
    {x \in AllContainers(g) : "ALL" \notin x.c.drop})

UntrustedRegistryCheck(g) ==
  PerContainer("KG-022", "low",
    {x \in AllContainers(g) : ImplicitRegistry(x.c.image)})

\* Every check of the registry over g, before a profile re-grades them.
RunAll(g) ==
  PrivilegedCheck(g) \cup HostPathCheck(g) \cup HostNetworkCheck(g)
  \cup HostPIDCheck(g) \cup HostIPCCheck(g) \cup RunAsRootCheck(g)
  \cup AllowPrivEscCheck(g) \cup DangerousCapsCheck(g) \cup ReadOnlyRootFSCheck(g)
  \cup ResourceLimitsCheck(g) \cup ClusterAdminBindingCheck(g) \cup WildcardRBACCheck(g)
  \cup SecretsAccessCheck(g) \cup PodCreateCheck(g) \cup AutomountTokenCheck(g)
  \cup DefaultSACheck(g) \cup NetworkPolicyCheck(g) \cup ExposureCheck(g)
  \cup MutableImageCheck(g) \cup SeccompCheck(g) \cup CapDropAllCheck(g)
  \cup UntrustedRegistryCheck(g)

-----------------------------------------------------------------------------
(* Profiles.  An empty include list selects every check; a profile may       *)
(* override the severity of all findings of a check.                         *)

CheckIDs == {"KG-001", "KG-002", "KG-003", "KG-004", "KG-005", "KG-006", "KG-007",
  "KG-008", "KG-009", "KG-010", "KG-011", "KG-012", "KG-013", "KG-014", "KG-015",
  "KG-016", "KG-017", "KG-018", "KG-019", "KG-020", "KG-021", "KG-022"}

Includes(p, id) == id \notin p.exclude /\ (p.include = {} \/ id \in p.include)

RunnableIDs(p) == {id \in CheckIDs : Includes(p, id)}

Scan(g, p) ==
  {[f EXCEPT !.sev = IF f.id \in DOMAIN p.override THEN p.override[f.id] ELSE @]
    : f \in {x \in RunAll(g) : Includes(p, x.id)}}

None == [id \in {} |-> "info"]

ProfileByName(name) ==
  CASE name = "zeal-default" -> [include |-> {}, exclude |-> {}, override |-> None]
    [] name = "cis" -> [include |-> {}, exclude |-> {}, override |-> [id \in {"KG-018"} |-> "medium"]]

=============================================================================
