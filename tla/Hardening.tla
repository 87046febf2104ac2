----------------------------- MODULE Hardening -----------------------------
(***************************************************************************)
(* A cluster being hardened by what its own report says.  Every step       *)
(* applies the remediation that one finding of the current report carries  *)
(* (Meta.Remediation and remediationSnippets of internal/checks), in any   *)
(* of the ways its words allow, upon which the changed objects are scanned *)
(* again, or lets time pass, which only waivers notice.  The properties    *)
(* compare the report before a fix with the report after it.               *)
(***************************************************************************)
EXTENDS Report

CONSTANTS
  Clusters,     \* the clusters a behaviour may start from
  Profiles,     \* the profiles scanned with
  Packs,        \* the compliance packs
  Waivers,      \* the waiver file of the gate and of the webhook
  Required,     \* resources a wildcard rule may really have been needed for
  NeededCaps,   \* capabilities a privileged container may really have needed
  MaxTime       \* bound on the clock; every waiver expires by then

\* A rule that names pods/exec or pods/attach fires KG-014 whatever its verbs: a
\* wildcard is not narrowed to these.
ASSUME HardeningAssumption ==
  /\ \A pack \in Packs : ValidPack(pack)
  /\ \A e \in Waivers : e.expires \in 0 .. MaxTime
  /\ Required \cap {"*", "pods/exec", "pods/attach"} = {}

VARIABLES
  cluster,       \* the loaded objects
  profile,       \* --profile, fixed in a behaviour
  assumeBreach,  \* --assume-breach, fixed in a behaviour
  now,           \* the clock that waivers expire by
  report         \* the last scan

vars == <<cluster, profile, assumeBreach, now, report>>

\* The checks that run, the base of every denominator.
Executed == RunnableIDs(ProfileByName(profile))

Init ==
  /\ cluster \in Clusters
  /\ profile \in Profiles
  /\ assumeBreach \in BOOLEAN
  /\ now = 0
  /\ report = Analyze(cluster, profile, assumeBreach)

-----------------------------------------------------------------------------
(* The remediations.  Where the words leave a choice, every choice is a step. *)

\* The dangerous one of the capabilities a container has without asking; it is lost
\* with drop: [ALL] and may be added back as required.
DefaultCaps == {"NET_RAW"}

AddBack(c) == c.add \cup IF "ALL" \in c.drop THEN {} ELSE DefaultCaps

\* "Drop ALL capabilities and add back only those strictly required"; the snippet
\* leaves `add' alone.
DropAll(c) == {[c EXCEPT !.drop = @ \cup {"ALL"}, !.add = s] : s \in SUBSET AddBack(c)}

HardenedContainer(id, c) ==
  CASE id = "KG-001" -> {[c EXCEPT !.privileged = {FALSE}, !.add = @ \cup s] : s \in SUBSET NeededCaps}
    [] id = "KG-006" -> {[c EXCEPT !.nonRoot = {TRUE}, !.user = {1000}]}
    [] id = "KG-007" -> {[c EXCEPT !.privEsc = {FALSE}]}
    [] id \in {"KG-008", "KG-021"} -> DropAll(c)
    [] id = "KG-009" -> {[c EXCEPT !.readOnly = {TRUE}]}
    [] id = "KG-010" -> {[c EXCEPT !.cpu = TRUE, !.memory = TRUE]}
    [] id = "KG-019" -> {[c EXCEPT !.image.digest = TRUE], [c EXCEPT !.image.tag = "1.0"]}
    [] id = "KG-020" -> {[c EXCEPT !.seccomp = "RuntimeDefault"]}
    [] id = "KG-022" -> {[c EXCEPT !.image.host = "dotted"]}

\* Volumes are named in `at' of the finding, containers as well.  The user and the
\* seccomp profile may be set for the pod; a dedicated account is bound to nothing.
HardenedPod(f, w) ==
  CASE f.id = "KG-002" -> [w EXCEPT !.volumes = {v \in @ : v.name # f.at[1]}]
    [] f.id = "KG-003" -> [w EXCEPT !.hostNetwork = FALSE]
    [] f.id = "KG-004" -> [w EXCEPT !.hostPID = FALSE]
    [] f.id = "KG-005" -> [w EXCEPT !.hostIPC = FALSE]
    [] f.id = "KG-006" -> [w EXCEPT !.nonRoot = {TRUE}, !.user = {1000}]
    [] f.id = "KG-015" -> [w EXCEPT !.automount = {FALSE}]
    [] f.id = "KG-016" -> [w EXCEPT !.sa = w.name]
    [] f.id = "KG-020" -> [w EXCEPT !.seccomp = "RuntimeDefault"]

\* A rule without wildcards, for a resource that is really required.
Narrowed(rule, res) ==
  [rule EXCEPT !.groups = IF Wildcard(@) THEN {""} ELSE @,
               !.resources = IF Wildcard(@) THEN {res} ELSE @,
               !.verbs = IF Wildcard(@) THEN {"get"} ELSE @]

\* The rules that allow what a rule does but for some verbs on some resources.
Without(rule, resources, verbs) ==
  {r \in {[rule EXCEPT !.resources = @ \ resources],
          [rule EXCEPT !.resources = @ \cap resources, !.verbs = @ \ verbs]} :
     r.resources # {} /\ r.verbs # {}}

\* Reading Secrets is taken away, or scoped to named ones.
HardenedRules(id, rule, res) ==
  LET r == Narrowed(rule, res)
  IN CASE id = "KG-012" -> {{r}}
       [] id = "KG-013" /\ RuleGrantsSecrets(rule) ->
            {Without(r, {"secrets"}, {"get", "list", "watch"}), {[rule EXCEPT !.named = TRUE]}}
       [] id = "KG-014" /\ RuleGrantsPodCreate(rule) ->
            {Without([r EXCEPT !.resources = @ \ {"pods/exec", "pods/attach"}], {"pods"}, {"create"})}
       [] OTHER -> {{rule}}

ContainerChecks == {"KG-001", "KG-006", "KG-007", "KG-008", "KG-009", "KG-010",
                    "KG-019", "KG-020", "KG-021", "KG-022"}

PodChecks == {"KG-002", "KG-003", "KG-004", "KG-005", "KG-006", "KG-015", "KG-016", "KG-020"}

\* The workload, and its container, that a finding is about.
Subject(f) == CHOOSE w \in Workloads(cluster) : Ref(w) = f.res
Offender(f) == CHOOSE c \in Containers(Subject(f)) : c.name = f.at[1]

Swap(S, old, new) == IF old \in S THEN (S \ {old}) \cup {new} ELSE S

FixContainer(f) ==
  /\ f.id \in ContainerChecks
  /\ \E d \in HardenedContainer(f.id, Offender(f)) :
       LET w == Subject(f)
           v == [w EXCEPT !.init = Swap(@, Offender(f), d), !.containers = Swap(@, Offender(f), d),
                          !.ephemeral = Swap(@, Offender(f), d)]
       IN cluster' = [cluster EXCEPT !.workloads = Swap(@, w, v)]

FixPod(f) ==
  /\ f.id \in PodChecks
  /\ cluster' = [cluster EXCEPT !.workloads = Swap(@, Subject(f), HardenedPod(f, Subject(f)))]

\* "on the pod or ServiceAccount".
FixAccount(f) ==
  /\ f.id = "KG-015"
  /\ LET w == Subject(f)
         sa == ServiceAccountName(w)
     IN cluster' = [cluster EXCEPT !.accounts =
          {a \in @ : <<a.ns, a.name>> # <<w.ns, sa>>} \cup {[ns |-> w.ns, name |-> sa, automount |-> {FALSE}]}]

\* The binding is given a role that is not among the loaded ones.
Rebound(b, f) == IF Ref(b) = f.res THEN [b EXCEPT !.ref.name = "least-privilege"] ELSE b

FixBinding(f) ==
  /\ f.id = "KG-011"
  /\ cluster' = [cluster EXCEPT !.roleBindings = {Rebound(b, f) : b \in @},
                                !.clusterRoleBindings = {Rebound(b, f) : b \in @}]

FixRole(f) ==
  /\ f.id \in {"KG-012", "KG-013", "KG-014"}
  /\ \E r \in AllRoles(cluster), res \in Required :
       /\ Ref(r) = f.res
       /\ \E choice \in [r.rules -> UNION {HardenedRules(f.id, x, res) : x \in r.rules}] :
            /\ \A x \in r.rules : choice[x] \in HardenedRules(f.id, x, res)
            /\ LET Fixed(q) == IF q = r THEN [r EXCEPT !.rules = UNION Range(choice)] ELSE q
               IN cluster' = [cluster EXCEPT !.roles = [i \in DOMAIN @ |-> Fixed(@[i])],
                                             !.clusterRoles = [i \in DOMAIN @ |-> Fixed(@[i])]]

FixNamespace(f) ==
  /\ f.id = "KG-017"
  /\ cluster' = [cluster EXCEPT !.policies = @ \cup
       {[ns |-> f.res.name, name |-> "default-deny", selector |-> {},
         types |-> {"Ingress", "Egress"}, ingress |-> 0, egress |-> 0]}]

FixService(f) ==
  /\ f.id = "KG-018"
  /\ cluster' = [cluster EXCEPT !.services =
       {IF Ref(s) = f.res THEN [s EXCEPT !.type = "ClusterIP"] ELSE s : s \in @}]

Apply(f) ==
  \/ FixContainer(f) \/ FixPod(f) \/ FixAccount(f) \/ FixBinding(f)
  \/ FixRole(f) \/ FixNamespace(f) \/ FixService(f)

\* One finding is fixed, and the changed objects are scanned.
Fix ==
  /\ \E f \in report.findings : Apply(f)
  /\ report' = Analyze(cluster', profile, assumeBreach)
  /\ UNCHANGED <<profile, assumeBreach, now>>

TimePasses ==
  /\ now < MaxTime
  /\ now' = now + 1
  /\ UNCHANGED <<cluster, profile, assumeBreach, report>>

Next == Fix \/ TimePasses

Spec == Init /\ [][Next]_vars

\* Somebody keeps applying what the report proposes, and where one way has changed
\* all it can and the finding stands, takes another of the ways its words allow.
Fairness == WF_cluster(\E f \in report.findings : Apply(f))
FairSpec == Spec /\ Fairness

-----------------------------------------------------------------------------
(* Properties. *)

\* The scanned set stays one the loader can produce: objects keep their names,
\* one workload per reference, and the report speaks of loaded objects only.
TypeOK ==
  /\ profile \in Profiles /\ assumeBreach \in BOOLEAN /\ now \in 0 .. MaxTime
  /\ \A w, v \in cluster.workloads : Ref(w) = Ref(v) => w = v
  /\ \A f \in report.findings : f.id \in Executed /\ f.sev \in DOMAIN Rank

\* What a finding is about, whatever its severity.
Issue(f) == <<f.id, f.res, f.at>>

Issues(findings) == {Issue(f) : f \in findings}

SameOffender(f) == \E w \in cluster'.workloads : Ref(w) = f.res /\ Offender(f) \in Containers(w)

\* The Role of a finding is not the one its rules are looked up in.
Shadowed(f) ==
  \E i \in DOMAIN cluster.roles :
    /\ f.res.kind = "Role" /\ cluster.roles[i].name = f.res.name /\ Ref(cluster.roles[i]) # f.res
    /\ \A j \in 1 .. i - 1 : cluster.roles[j].name # f.res.name

\* A way was taken that leaves the finding standing: the pod or the account was set
\* and the container or the pod says otherwise, the capability was added back, the
\* rule was scoped by resourceNames, or another Role of that name is looked at.
InVain(f) ==
  CASE f.id = "KG-006" -> SameOffender(f) /\ \E u \in Offender(f).user :
                            u = 0 \/ (u < 0 /\ FALSE \in Offender(f).nonRoot)
    [] f.id = "KG-008" -> \E w \in cluster'.workloads : \E c \in Containers(w) :
                            Ref(w) = f.res /\ c.name = f.at[1] /\ f.at[2] \in c.add
    [] f.id = "KG-015" -> Subject(f) \in cluster'.workloads /\ TRUE \in Subject(f).automount
    [] f.id = "KG-020" -> SameOffender(f) /\ Offender(f).seccomp # ""
    [] f.id = "KG-013" -> Shadowed(f) \/ \E r \in AllRoles(cluster') : \E x \in r.rules :
                            Ref(r) = f.res /\ x.named /\ RuleGrantsSecrets(x)
    [] f.id \in {"KG-012", "KG-014"} -> Shadowed(f)
    [] OTHER -> FALSE

Clears ==
  \A f \in report.findings : Apply(f) => (Issue(f) \in Issues(report'.findings) <=> InVain(f))

\* The findings that were not there before, at any severity.
Brought ==
  LET known == Issues(report.findings)
  IN {f \in report'.findings : Issue(f) \notin known}

\* A fix of g may bring f: a new ServiceAccount mounts its token, and a capability is
\* granted in place of privilege or added back after drop: [ALL].
Concedes(g, f) ==
  /\ g.res = f.res
  /\ \/ g.id = "KG-016" /\ f.id = "KG-015"
     \/ g.id \in {"KG-001", "KG-008", "KG-021"} /\ f.id = "KG-008" /\ f.at[1] = g.at[1]
        /\ f.at[2] \in NeededCaps \cup DefaultCaps

AddsNothing ==
  /\ \A f \in Brought : \E g \in report.findings : Concedes(g, f) /\ Apply(g)
  /\ \A f \in (report'.findings \ report.findings) \ Brought :
       \E g \in report.findings : Issue(g) = Issue(f) /\ Rank[f.sev] <= Rank[g.sev]

\* Whichever finding is fixed, in whichever way its remediation allows, the next
\* report does not show it any more unless the way was one that the check does not
\* see (InVain: check.go:66 leaves `add', graph/rbac.go:39 ignores resourceNames, a
\* setting of the pod or of the account is overridden, rbac_checks.go:12 looks at
\* another Role), and then it does; and the fix brings up no other issue
\* but a conceded one and makes none graver (checks: Meta.Remediation,
\* remediationSnippets).
FixClears == [][Clears /\ AddsNothing]_vars

PathsNoWorse ==
  \A p \in report'.paths :
    \E q \in report.paths : q.entry = p.entry /\ Rank[p.sev] <= Rank[q.sev]

TopScore(rep) == Max({0} \cup {Score(f, rep) : f \in rep.findings})

\* The check takes over the escape of a workload whose path it had no part in.
TakesOver(id) ==
  \E p \in report.paths, q \in report'.paths :
    /\ p.entry = q.entry /\ id \notin Enablers(p)
    /\ \E h \in Range(q.hops) : h.by = id /\ h.to \in {"ContainerEscape", "NodeAccess"}

TopRiskExplained ==
  LET top == TopScore(report)
  IN \A f \in report'.findings :
       Score(f, report') > top => TakesOver(f.id) \/ f.id \in FiredChecks(Brought)

PostureNoLower ==
  LET ran == Executed
      conceded == FiredChecks(Brought)
  IN \A pack \in Packs :
       LET before == Evaluate(pack, ran, FiredChecks(report.findings))
           after == Evaluate(pack, ran, FiredChecks(report'.findings))
           lost == {c \in pack.controls : c.mapsTo \cap conceded # {}}
       IN after.passed >= before.passed - Cardinality(lost)

\* A fix opens no attack path and makes none graver (attack.BuildPaths), no framework
\* loses a passed control but for those a conceded finding breaches
\* (compliance.Evaluate), and the head of the fix-first list gets more urgent in two
\* cases only (risk.Score): by a conceded finding, or because an escape that the fix
\* left open is now another check's (engine.go:85).
FixesOnlyHelp == [][PathsNoWorse /\ TopRiskExplained /\ PostureNoLower]_vars

\* The check of a hop fired on the object that the hop is about.
FiredOn(p, h) ==
  LET w == CHOOSE x \in Workloads(cluster) : Ref(x) = p.entry
      sa == ServiceAccountName(w)
      About(res) ==
        CASE h.by = "KG-018" -> \E s \in cluster.services : Ref(s) = res /\ w \in WorkloadsForService(cluster, s)
          [] h.by = "KG-011" -> \E b \in cluster.roleBindings \cup cluster.clusterRoleBindings :
                                  Ref(b) = res /\ SubjectsInclude(b, w.ns, sa, b.ns)
          [] h.by \in {"KG-013", "KG-014"} ->
               \E ref \in GrantedRoles(cluster, w.ns, sa) : ref.kind = res.kind /\ ref.name = res.name
          [] h.by = "KG-017" -> res.name = w.ns
          [] OTHER -> res = p.entry
  IN \E f \in report.findings : f.id = h.by /\ About(f.res)

\* The node hop of an escape by a capability alone names KG-001, and the lateral hop of
\* a workload without a namespace names KG-017.
Unfounded(p, h) ==
  \/ /\ h.to = "NodeAccess" /\ h.by = "KG-001"
     /\ \A w \in Workloads(cluster) : Ref(w) = p.entry => ~AnyPrivileged(w)
  \/ h.by = "KG-017" /\ p.entry.ns = ""

\* The check that a hop of a path names has fired in the same report on the workload,
\* the service, the binding, the role or the namespace of that hop, so that the path can be
\* broken by a fix, in all cases but two, in which it has not
\* (attack.buildForWorkload: engine.go:85 whatever the escape, engine.go:118 where
\* network_checks.go:25 skips the namespace "").
EnablersFired ==
  /\ TypeOK
  /\ \A p \in report.paths : \A h \in Range(p.hops) : FiredOn(p, h) <=> ~Unfounded(p, h)

GatePassAdmits ==
  ~GateBreached(report.findings, "medium", Waivers, now) =>
    \A w \in Workloads(cluster) : w.kind = "Pod" => Admits(w, FALSE, Waivers, now)

\* The webhook, which sees one pod, and the scanner, which sees the cluster, find
\* the same violations in a pod (webhook.Violations); and a scan that passes the
\* gate at medium, waivers included, has only pods that the webhook admits under
\* the same waivers at the same time.
WebhookAgrees ==
  /\ \A w \in Workloads(cluster) : w.kind = "Pod" =>
       Violations(w) = {f \in report.findings : f.res = Ref(w) /\ f.id \in DenyChecks}
  /\ GatePassAdmits

\* Applying the fixes of the report in any order, and in any of the ways they allow as
\* long as each step changes something, drives findings and attack paths to none, and
\* they stay away: no remediation undoes another, and for every finding one of its ways
\* is seen by the check (remediationSnippets, Meta.Remediation, attack.BuildPaths).
FixesReachZero == <>[](report.findings = {} /\ report.paths = {})

-----------------------------------------------------------------------------
(* What a comment says and the code does not do when two namespaces have a  *)
(* Role of one name. *)

\* The KG-013 finding of a Role tells whether that Role's own rules let Secrets
\* be read (checks.secretsAccessCheck, rulesOf).
RoleFindingsAreItsOwn ==
  \A r \in Range(cluster.roles) :
    (\E f \in report.findings : f.id = "KG-013" /\ f.res = Ref(r))
      <=> \E x \in r.rules : RuleGrantsSecrets(x)

=============================================================================
