---------------------------- MODULE MCHardening ----------------------------
(***************************************************************************)
(* Instances of Hardening and of Publishing.  A behaviour is one of one of *)
(* them; the other rests.  Clusters to be hardened differ from a hardened  *)
(* one in combinations of container weaknesses, in the relations between   *)
(* objects, in several workloads at once, in objects without a namespace,  *)
(* or in Roles that share a name.  Those that are reported on              *)
(* have or lack exposure, rights and weak containers; policy directories   *)
(* load or do not; bundles are for a new and for an existing account.      *)
(***************************************************************************)
EXTENDS Hardening

VARIABLES
  job,                                                   \* which one
  target, lens, breached, files, published               \* Publishing

SafeImage == [host |-> "dotted", tag |-> "1.0", digest |-> TRUE]

SafeContainer ==
  [name |-> "c", privileged |-> {FALSE}, privEsc |-> {FALSE}, user |-> {}, nonRoot |-> {},
   readOnly |-> {TRUE}, add |-> {}, drop |-> {"ALL"}, seccomp |-> "", cpu |-> TRUE,
   memory |-> TRUE, image |-> SafeImage]

SafePod ==
  [kind |-> "Deployment", ns |-> "pay", name |-> "web", decodes |-> TRUE, labels |-> {},
   templateLabels |-> {"app=web"}, sa |-> "web-sa", automount |-> {FALSE},
   hostNetwork |-> FALSE, hostPID |-> FALSE, hostIPC |-> FALSE, volumes |-> {},
   user |-> {1000}, nonRoot |-> {TRUE}, seccomp |-> "RuntimeDefault",
   init |-> {}, containers |-> {SafeContainer}, ephemeral |-> {}]

DefaultDeny ==
  [ns |-> "pay", name |-> "default-deny", selector |-> {}, types |-> {"Ingress", "Egress"},
   ingress |-> 0, egress |-> 0]

SafeCluster ==
  [workloads |-> {SafePod}, accounts |-> {}, roles |-> <<>>, clusterRoles |-> <<>>,
   roleBindings |-> {}, clusterRoleBindings |-> {}, services |-> {}, policies |-> {DefaultDeny}]

-----------------------------------------------------------------------------
(* Container weaknesses, in the init container of a Pod: those that bear on   *)
(* privilege, and the others.                                                 *)

Unprivileged == [SafeContainer EXCEPT !.user = {1000}, !.nonRoot = {TRUE}, !.seccomp = "RuntimeDefault"]

WeakContainers ==
  {[Unprivileged EXCEPT !.privileged = p, !.privEsc = e, !.user = u, !.add = a, !.drop = d]
    : p \in {{FALSE}, {TRUE}}, e \in {{}, {FALSE}}, u \in {{1000}, {0}},
      a \in {{}, {"NET_ADMIN", "SYS_ADMIN"}}, d \in {{}, {"ALL"}}}
  \cup
  {[Unprivileged EXCEPT !.readOnly = r, !.seccomp = s, !.cpu = l, !.image = i]
    : r \in {{TRUE}, {FALSE}}, s \in {"RuntimeDefault", "Unconfined"}, l \in BOOLEAN,
      i \in {SafeImage, [host |-> "none", tag |-> "latest", digest |-> FALSE]}}

ContainerClusters ==
  {[SafeCluster EXCEPT !.workloads =
      {[SafePod EXCEPT !.kind = "Pod", !.labels = {"app=web"}, !.init = {c}, !.containers = {}]}]
    : c \in WeakContainers}

-----------------------------------------------------------------------------
(* Relations: exposure, escape, token, RBAC and network policy. *)

PrivilegedContainer == [SafeContainer EXCEPT !.privileged = {TRUE}]

Escapes == {SafeContainer, PrivilegedContainer, [SafeContainer EXCEPT !.add = {"SYS_ADMIN"}]}

Vol(path) == {[name |-> "v", path |-> path]}

Named(kind, ns, rules) == [kind |-> kind, ns |-> ns, name |-> "r", rules |-> rules]

Binding(kind, ns, ref, subNS) ==
  [kind |-> kind, ns |-> ns, name |-> "b", ref |-> ref,
   subjects |-> {[kind |-> "ServiceAccount", name |-> sa, ns |-> subNS] : sa \in {"web-sa", "default"}}]

ClusterBinding(name) ==
  Binding("ClusterRoleBinding", "", [kind |-> "ClusterRole", name |-> name], "pay")

\* No RBAC, the built-in cluster-admin, a wildcard ClusterRole, and a Role that
\* reads Secrets and creates pods, bound without naming the subject's namespace.
RBAC ==
  {[r |-> <<>>, cr |-> <<>>, rb |-> {}, crb |-> {}],
   [r |-> <<>>, cr |-> <<>>, rb |-> {}, crb |-> {ClusterBinding("cluster-admin")}],
   [r |-> <<>>, cr |-> <<Named("ClusterRole", "", {[groups |-> {"*"}, resources |-> {"*"}, verbs |-> {"*"}, named |-> FALSE]})>>, rb |-> {},
    crb |-> {ClusterBinding("r")}],
   [r |-> <<Named("Role", "pay", {[groups |-> {""}, resources |-> {"pods", "secrets"}, verbs |-> {"create", "get"}, named |-> FALSE]})>>,
    cr |-> <<>>, crb |-> {},
    rb |-> {Binding("RoleBinding", "pay", [kind |-> "Role", name |-> "r"], "")}]}

Svc(type, sel) == {[kind |-> "Service", ns |-> "pay", name |-> "s", type |-> type, selector |-> sel]}

\* The pod's ServiceAccount, its token setting and what the account says, the service
\* and the network policies beside it: an open surrounding and a guarded one.
Open == [sa |-> "web-sa", automount |-> {TRUE}, account |-> {}, svc |-> Svc("LoadBalancer", {"app=web"}),
         policies |-> {}]
Guarded == [sa |-> "", automount |-> {}, account |-> {FALSE}, svc |-> Svc("NodePort", {"app=web"}),
            policies |-> {DefaultDeny}]

Related(x, b) ==
  [workloads |-> {[SafePod EXCEPT !.containers = {[SafeContainer EXCEPT !.add = {"SYS_ADMIN"}]},
                                  !.volumes = Vol("/proc"), !.sa = x.sa, !.automount = x.automount]},
   accounts |-> {[ns |-> "pay", name |-> "default", automount |-> x.account]},
   roles |-> b.r, clusterRoles |-> b.cr, roleBindings |-> b.rb, clusterRoleBindings |-> b.crb,
   services |-> x.svc, policies |-> x.policies]

RelationClusters ==
  {Related(x, b) : x \in {Open, Guarded}, b \in RBAC}

-----------------------------------------------------------------------------
(* Several workloads: a second, host-sharing pod beside the first, and one that *)
(* cannot be decoded.                                                            *)

SharingPod ==
  [SafePod EXCEPT !.kind = "Pod", !.name = "host", !.labels = {"app=web"}, !.hostNetwork = TRUE,
                  !.user = {}, !.nonRoot = {}, !.seccomp = "", !.volumes = Vol("/proc")]

Broken == [SafePod EXCEPT !.name = "broken", !.decodes = FALSE, !.hostPID = TRUE]

SeveralClusters ==
  {[SafeCluster EXCEPT !.workloads =
      {[SafePod EXCEPT !.containers = {c}], SharingPod, Broken},
      !.services = r[1], !.clusterRoleBindings = r[2]]
    : c \in Escapes, r \in {<<Svc("LoadBalancer", {"app=web"}), {ClusterBinding("cluster-admin")}>>,
                            <<Svc("LoadBalancer", {}), {}>>}}

-----------------------------------------------------------------------------
(* Objects of a manifest that name no namespace, for which no policy can be asked. *)

BareClusters ==
  {[SafeCluster EXCEPT !.workloads = {[SafePod EXCEPT !.ns = "", !.containers = {c}, !.automount = {},
                                                       !.hostPID = TRUE, !.hostIPC = TRUE]},
      !.services = {[s EXCEPT !.ns = ""] : s \in Svc("NodePort", {"app=web"})},
      !.clusterRoleBindings = b, !.policies = {}]
    : c \in Escapes,
      b \in {{}, {Binding("ClusterRoleBinding", "", [kind |-> "ClusterRole", name |-> "cluster-admin"], "")}}}

-----------------------------------------------------------------------------
(* Two privileged workloads beside an exposed one that escapes otherwise. *)

ManyClusters ==
  {[SafeCluster EXCEPT !.services = Svc("LoadBalancer", {"app=web"}), !.workloads =
      {[SafePod EXCEPT !.containers = {[SafeContainer EXCEPT !.add = {"SYS_ADMIN"}]}, !.volumes = Vol("/proc")]}
      \cup {[SafePod EXCEPT !.name = n, !.templateLabels = {"app=job"}, !.containers = {PrivilegedContainer}]
             : n \in {"b", "c"}}]}

-----------------------------------------------------------------------------
\* Two Roles of one name in two namespaces.
SameNameClusters ==
  {[SafeCluster EXCEPT !.roles =
      <<Named("Role", "pay", {[groups |-> {""}, resources |-> {"secrets"}, verbs |-> v[1], named |-> FALSE]}),
        Named("Role", "ops", {[groups |-> {""}, resources |-> {"secrets"}, verbs |-> v[2], named |-> FALSE]})>>]
    : v \in {{"get"}, {"delete"}} \X {{"get"}, {"delete"}}}

MCClusters ==
  ContainerClusters \cup RelationClusters \cup SeveralClusters \cup BareClusters \cup ManyClusters
  \cup SameNameClusters

-----------------------------------------------------------------------------
Control(id, checks, assessable) == [id |-> id, mapsTo |-> checks, assessable |-> assessable]

MCPacks ==
  {[id |-> "cis-k8s", controls |->
      {Control("5.1.1", {"KG-011"}, TRUE), Control("5.2.4", {"KG-003", "KG-004"}, TRUE),
       Control("5.7.3", {"KG-006", "KG-007", "KG-009", "KG-020"}, TRUE)}],
   [id |-> "other", controls |->
      {Control("a", {"KG-013", "KG-017", "KG-018"}, TRUE), Control("b", {"KG-999"}, TRUE),
       Control("c", {}, FALSE), Control("d", {"KG-008"}, TRUE)}]}

MCWaivers ==
  {[id |-> "KG-001", resource |-> {}, expires |-> 1],
   [id |-> "KG-008", resource |-> {[kind |-> "Pod", ns |-> "", name |-> ""]}, expires |-> 1]}

-----------------------------------------------------------------------------
(* What is published. *)

Image(digest, host) == [host |-> host, tag |-> "1.0", digest |-> digest]

Container(privileged, escalation, user) ==
  [name |-> "c", privileged |-> privileged, privEsc |-> escalation, user |-> user, nonRoot |-> {TRUE},
   readOnly |-> {TRUE}, add |-> {}, drop |-> {"ALL"}, seccomp |-> "RuntimeDefault", cpu |-> TRUE,
   memory |-> TRUE, image |-> Image(TRUE, "dotted")]

Pod(c, labels, automount, hostNetwork) ==
  [kind |-> "Pod", ns |-> "pay", name |-> "web", decodes |-> TRUE, labels |-> labels,
   templateLabels |-> {}, sa |-> "web-sa", automount |-> automount, hostNetwork |-> hostNetwork,
   hostPID |-> FALSE, hostIPC |-> FALSE, volumes |-> {}, user |-> {}, nonRoot |-> {},
   seccomp |-> "", init |-> {}, containers |-> {c}, ephemeral |-> {}]

Bound(name) ==
  {[kind |-> "ClusterRoleBinding", ns |-> "", name |-> "b", ref |-> [kind |-> "ClusterRole", name |-> name],
    subjects |-> {[kind |-> "ServiceAccount", name |-> "web-sa", ns |-> "pay"]}]}

Reader ==
  <<[kind |-> "ClusterRole", ns |-> "", name |-> "reader",
     rules |-> {[groups |-> {""}, resources |-> {"secrets"}, verbs |-> {"get"}, named |-> FALSE]}]>>

\* An existing load balancer that selects the application's label as well.
Balancer == {[kind |-> "Service", ns |-> "pay", name |-> "lb", type |-> "LoadBalancer", selector |-> {"app=web"}]}

WeakPods ==
  {Pod(Container({FALSE}, {}, {}), {"app=web", "team=a"}, {}, TRUE),
   Pod(Container({FALSE}, {FALSE}, {0}), {"app=web", "env=prod"}, {TRUE}, FALSE),
   Pod(Container({TRUE}, {TRUE}, {1000}), {"app=web"}, {TRUE}, FALSE)}

ReportedClusters ==
  {[workloads |-> {pod},
    accounts |-> {[ns |-> "pay", name |-> "web-sa", automount |-> {}]},
    roles |-> <<>>, clusterRoles |-> Reader, roleBindings |-> {}, clusterRoleBindings |-> r[1],
    services |-> r[2], policies |-> {}]
    : pod \in WeakPods, r \in {<<Bound("cluster-admin"), {}>>, <<Bound("reader"), Balancer>>}}

ReportedPacks ==
  {[id |-> "a", controls |-> {Control("1", {"KG-001", "KG-011"}, TRUE), Control("2", {"KG-007"}, TRUE),
                              Control("3", {}, FALSE)}],
   [id |-> "b", controls |-> {Control("1", {"KG-999"}, TRUE), Control("2", {"KG-017", "KG-018"}, TRUE)}]}

P(id, sev, what, match) == [id |-> id, complete |-> TRUE, sev |-> sev, target |-> what, match |-> match]

File(policies) == [decodes |-> TRUE, version |-> TRUE, policies |-> policies]

Labels == File(<<P("ORG-1", "low", "", "unowned"), P("ORG-2", "medium", "workload", "prod")>>)
Escalation == File(<<P("ORG-3", "high", "container", "escalates")>>)
Users == File(<<P("ORG-4", "info", "container", "root"), P("ORG-5", "critical", "", "name"),
                P("ORG-6", "high", "workload", "hostNetwork"), P("ORG-7", "low", "", "mounts")>>)

\* Not a Boolean, a container policy on workloads, an unknown severity, a missing
\* title, an empty pack, a wrong version, a file that does not decode.
BadFiles ==
  {File(<<P("ORG-8", "low", "", "sum")>>), File(<<P("ORG-8", "low", "", "root")>>),
   File(<<P("ORG-8", "severe", "", "unowned")>>),
   File(<<[P("ORG-8", "low", "", "unowned") EXCEPT !.complete = FALSE]>>), File(<<>>),
   [Escalation EXCEPT !.version = FALSE], [Escalation EXCEPT !.decodes = FALSE]}

\* The ids of built-in checks; one id for two rules.
Reused == File(<<P("KG-007", "critical", "container", "root"), P("KG-001", "low", "", "unowned")>>)
Twice == File(<<P("ORG-1", "high", "workload", "hostNetwork")>>)

MCPolicyDirs ==
  {<<>>, <<Labels>>, <<Labels, Escalation>>, <<Users, Escalation>>, <<Labels, Labels>>,
   <<Labels, Twice>>, <<Reused>>}
  \cup {<<Labels, bad>> : bad \in BadFiles}

Option(ns, sa, image) == [ns |-> ns, app |-> "app", label |-> "app=web", sa |-> sa, image |-> image]

MCOptions ==
  {Option("pay", "web-sa", Image(TRUE, "dotted")), Option("pay", "app-sa", Image(TRUE, "dotted")),
   Option("pay", "default", Image(FALSE, "none")), Option("new", "app-sa", Image(TRUE, "dotted"))}

Pub == INSTANCE Publishing WITH
  cluster <- target, profile <- lens, assumeBreach <- breached, report <- published,
  Clusters <- ReportedClusters, Profiles <- {"zeal-default"}, Packs <- ReportedPacks, PolicyDirs <- MCPolicyDirs,
  Options <- MCOptions

publishing == <<target, lens, breached, files, published>>

-----------------------------------------------------------------------------
\* A hardened cluster, every waiver expired; nothing published.
Hard ==
  /\ cluster = SafeCluster /\ profile = "zeal-default" /\ assumeBreach = FALSE
  /\ now = MaxTime /\ report = Analyze(cluster, profile, assumeBreach)
NotPublished ==
  target = SafeCluster /\ lens = "zeal-default" /\ breached = FALSE /\ files = <<>> /\ published = <<>>

EngineInit ==
  \/ job = "harden" /\ Init /\ NotPublished
  \/ job = "publish" /\ Hard /\ Pub!Init

EngineNext ==
  \/ job = "harden" /\ Next /\ UNCHANGED <<job, publishing>>
  \/ job = "publish" /\ Pub!Next /\ UNCHANGED <<job, vars>>

EngineSpec == EngineInit /\ [][EngineNext]_<<job, vars, publishing>> /\ Fairness

\* All outputs tell of the same findings, grade them alike and give the same
\* figures, and a custom policy breaches a control only by taking the id of a
\* built-in check (sarif.go, gitops.go, asff.go, export.go, compliance.go).
OneStory == job = "publish" => Pub!OneStory

\* The hardened bundle adds no issue that its options did not ask for
\* (templates.go), and no rule of the policy directory is silently disabled
\* (policy.parse).
RescansHonest == Pub!RescansHonest
=============================================================================
