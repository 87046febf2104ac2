--------------------------- MODULE ResourceGraph ---------------------------
(***************************************************************************)
(* The resource graph of internal/graph: what the engines may ask of a     *)
(* loaded set of Kubernetes objects.  A cluster g is a record of           *)
(*                                                                         *)
(*   workloads  a set of workload objects, each with its pod template;     *)
(*   accounts   a set of ServiceAccounts;                                  *)
(*   roles, clusterRoles  sequences, because a reference is resolved to    *)
(*              the first object of that name;                             *)
(*   roleBindings, clusterRoleBindings, services, policies  sets.          *)
(*                                                                         *)
(* A Go pointer is a set of at most one element: {} is nil and {v} points  *)
(* to v.  A label map is a set of key/value atoms with non-empty values.   *)
(* A rule is `named' when it lists resourceNames, which nothing looks at.  *)
(***************************************************************************)
EXTENDS SequencesExt

WorkloadKinds == {"Pod", "Deployment", "StatefulSet", "DaemonSet", "Job", "CronJob"}

-----------------------------------------------------------------------------
(* Normalization.  A workload whose document cannot be decoded is left out *)
(* of the graph.  Init, regular and ephemeral containers become one list.  *)

Workloads(g) == {w \in g.workloads : w.kind \in WorkloadKinds /\ w.decodes}

Containers(w) == w.init \cup w.containers \cup w.ephemeral

ServiceAccountName(w) == IF w.sa = "" THEN "default" ELSE w.sa

\* A Pod is selected by its own labels, any other workload by its template's.
PodLabels(w) == IF w.kind = "Pod" THEN w.labels ELSE w.templateLabels

Privileged(c) == TRUE \in c.privileged

ServiceType(s) == IF s.type = "" THEN "ClusterIP" ELSE s.type

Exposing(s) == ServiceType(s) \in {"LoadBalancer", "NodePort"}

HostPaths(w) == {v \in w.volumes : v.path # ""}

IsDefaultDeny(n) ==
  /\ n.selector = {}
  /\ \/ "Ingress" \in n.types /\ n.ingress = 0
     \/ "Egress" \in n.types /\ n.egress = 0

-----------------------------------------------------------------------------
(* Rules. *)

Wildcard(ss) == "*" \in ss

RuleFullWildcard(r) == Wildcard(r.groups) /\ Wildcard(r.resources) /\ Wildcard(r.verbs)

RuleAnyWildcard(r) == Wildcard(r.groups) \/ Wildcard(r.resources) \/ Wildcard(r.verbs)

RuleGrantsSecrets(r) ==
  /\ "secrets" \in r.resources \/ Wildcard(r.resources)
  /\ r.verbs \cap {"get", "list", "watch"} # {} \/ Wildcard(r.verbs)

RuleGrantsPodCreate(r) ==
  \/ /\ "pods" \in r.resources \/ Wildcard(r.resources)
     /\ "create" \in r.verbs \/ Wildcard(r.verbs)
  \/ r.resources \cap {"pods/exec", "pods/attach"} # {}

-----------------------------------------------------------------------------
(* Relations between objects. *)

\* The rules of the first role of that kind and name, whatever its namespace;
\* a role that is not loaded has none.
RoleRules(g, ref) ==
  LET roles == CASE ref.kind = "ClusterRole" -> g.clusterRoles
                 [] ref.kind = "Role" -> g.roles
                 [] OTHER -> <<>>
      i == SelectInSeq(roles, LAMBDA r : r.name = ref.name)
  IN IF i = 0 THEN {} ELSE roles[i].rules

\* In a RoleBinding a subject without a namespace is in the binding's.
SubjectsInclude(b, ns, name, bindingNS) ==
  \E s \in b.subjects : /\ s.kind = "ServiceAccount" /\ s.name = name
                        /\ ns = IF s.ns = "" THEN bindingNS ELSE s.ns

GrantedRoles(g, ns, name) ==
  {b.ref : b \in {c \in g.clusterRoleBindings : SubjectsInclude(c, ns, name, "")}}
  \cup {b.ref : b \in {c \in g.roleBindings : SubjectsInclude(c, ns, name, c.ns)}}

IsClusterAdmin(ref) == ref.kind = "ClusterRole" /\ ref.name = "cluster-admin"

RefIsAdmin(g, ref) ==
  IsClusterAdmin(ref) \/ \E r \in RoleRules(g, ref) : RuleFullWildcard(r)

\* cluster-admin brings its wildcard rule even when its object is not loaded.
SARules(g, ns, name) ==
  LET refs == GrantedRoles(g, ns, name)
      everything == [groups |-> {"*"}, resources |-> {"*"}, verbs |-> {"*"}, named |-> FALSE]
  IN UNION {RoleRules(g, ref) : ref \in refs}
     \cup {everything : ref \in {r \in refs : IsClusterAdmin(r)}}

SAIsClusterAdmin(g, ns, name) == \E ref \in GrantedRoles(g, ns, name) : RefIsAdmin(g, ref)

SACanReadSecrets(g, ns, name) == \E r \in SARules(g, ns, name) : RuleGrantsSecrets(r)

SACanCreatePods(g, ns, name) == \E r \in SARules(g, ns, name) : RuleGrantsPodCreate(r)

\* A Service without a selector selects nothing.
WorkloadsForService(g, s) ==
  {w \in Workloads(g) : s.selector # {} /\ w.ns = s.ns /\ s.selector \subseteq PodLabels(w)}

\* The pod's own setting, else its ServiceAccount's, else the cluster default.
AutomountEffective(g, w) ==
  LET sa == {a \in g.accounts : a.ns = w.ns /\ a.name = ServiceAccountName(w)}
      set == UNION {a.automount : a \in sa}
  IN IF w.automount # {} THEN TRUE \in w.automount ELSE set = {} \/ TRUE \in set

HasDefaultDeny(g, ns) == \E n \in g.policies : n.ns = ns /\ IsDefaultDeny(n)

=============================================================================
