------------------------------ MODULE Exports ------------------------------
(***************************************************************************)
(* What leaves the scanner: the posture summary and the evidence packs of  *)
(* internal/compliance, the SARIF, GitHub-annotation and ASFF writers of   *)
(* internal/report, the PDF and CSV of internal/dashboard, and the         *)
(* baseline bundle of internal/harden.  Of a written item its finding and  *)
(* its grade are kept, of the bundle the objects the engine looks at.      *)
(***************************************************************************)
EXTENDS Report

-----------------------------------------------------------------------------
(* Grades. *)

SarifLevel(sev) ==
  CASE sev \in {"critical", "high"} -> "error"
    [] sev = "medium"               -> "warning"
    [] OTHER                        -> "note"

\* Faulty variant: only critical findings are errors.
AnnotationLevel_critical(sev) ==
  CASE sev = "critical"           -> "error"
    [] sev \in {"high", "medium"} -> "warning"
    [] OTHER                      -> "notice"

AnnotationLevel(sev) ==
  CASE sev \in {"critical", "high"} -> "error"
    [] sev = "medium"               -> "warning"
    [] OTHER                        -> "notice"

AsffSeverity ==
  [critical |-> 90, high |-> 70, medium |-> 40, low |-> 10, info |-> 0]

-----------------------------------------------------------------------------
(* The writers. *)

CountOf(findings, sev) == Cardinality({f \in findings : f.sev = sev})

\* A rule for every check id, its default level that of the id's first finding
\* (the gravest: findings are sorted by severity); a result for every finding.
Sarif(rep) ==
  [rules   |-> {[id |-> i, level |-> SarifLevel(CHOOSE s \in DOMAIN Rank :
                    Rank[s] = Max({Rank[f.sev] : f \in {x \in rep.findings : x.id = i}}))]
                 : i \in FiredChecks(rep.findings)},
   results |-> {[finding |-> f, rule |-> f.id, level |-> SarifLevel(f.sev)] : f \in rep.findings}]

\* A line for every finding, and the headline.
GitOpsAnnotations(rep) ==
  [lines    |-> {[finding |-> f, level |-> AnnotationLevel(f.sev)] : f \in rep.findings},
   headline |-> [total |-> Cardinality(rep.findings),
                 by |-> [s \in DOMAIN Rank \ {"info"} |-> CountOf(rep.findings, s)]]]

BuildASFF(rep) ==
  {[finding |-> f, normalized |-> AsffSeverity[f.sev]] : f \in rep.findings}

ExportCSV(rep) == {[finding |-> f, sev |-> f.sev] : f \in rep.findings}

-----------------------------------------------------------------------------
(* Posture and evidence. *)

Summarize(rep) ==
  [total    |-> Cardinality(rep.findings),
   by       |-> [s \in DOMAIN Rank |-> CountOf(rep.findings, s)],
   critical |-> Cardinality({p \in rep.paths : p.sev = "critical"}),
   assessed |-> MapThenSumSet(LAMBDA k : rep.compliance[k].assessed, DOMAIN rep.compliance),
   breached |-> MapThenSumSet(LAMBDA k : rep.compliance[k].breached, DOMAIN rep.compliance)]

\* The figures of the posture summary, and the paths told below it.
ExportPDF(rep) ==
  LET s == Summarize(rep)
  IN [total |-> s.total, attackPaths |-> s.critical, assessed |-> s.assessed, narrated |-> rep.paths]

\* Every assessed control with the findings of the checks it maps to.
BuildEvidence(rep, pack, executed) ==
  {[control |-> c, findings |-> {f \in rep.findings : f.id \in c.mapsTo}]
    : c \in Assessed(pack, executed)}

-----------------------------------------------------------------------------
(* The hardened baseline for an application o = [ns, app, sa, image].        *)

BundleContainer(o) ==
  [name |-> o.app, privileged |-> {FALSE}, privEsc |-> {FALSE}, user |-> {1000}, nonRoot |-> {TRUE},
   readOnly |-> {TRUE}, add |-> {}, drop |-> {"ALL"}, seccomp |-> "RuntimeDefault",
   cpu |-> TRUE, memory |-> TRUE, image |-> o.image]

\* o.label stands for "app: {{.App}}".
BundleDeployment(o) ==
  [kind |-> "Deployment", ns |-> o.ns, name |-> o.app, decodes |-> TRUE,
   labels |-> {o.label}, templateLabels |-> {o.label}, sa |-> o.sa, automount |-> {FALSE},
   hostNetwork |-> FALSE, hostPID |-> FALSE, hostIPC |-> FALSE, volumes |-> {},
   user |-> {}, nonRoot |-> {TRUE}, seccomp |-> "RuntimeDefault",
   init |-> {}, containers |-> {BundleContainer(o)}, ephemeral |-> {}]

NetPolicy(o, name, types, egress) ==
  [ns |-> o.ns, name |-> name, selector |-> {}, types |-> types, ingress |-> 0, egress |-> egress]

\* Kyverno and Gatekeeper objects and the checklist are no kinds of the graph.
Bundle(o) ==
  [workloads |-> {BundleDeployment(o)},
   accounts  |-> {[ns |-> o.ns, name |-> o.sa, automount |-> {FALSE}]},
   roles     |-> <<[kind |-> "Role", ns |-> o.ns, name |-> "app-reader",
                    rules |-> {[groups |-> {""}, resources |-> {"configmaps"}, verbs |-> {"get"}, named |-> FALSE]}]>>,
   clusterRoles |-> <<>>,
   roleBindings |-> {[kind |-> "RoleBinding", ns |-> o.ns, name |-> "app-reader-binding",
                      ref |-> [kind |-> "Role", name |-> "app-reader"],
                      subjects |-> {[kind |-> "ServiceAccount", name |-> o.sa, ns |-> o.ns]}]},
   clusterRoleBindings |-> {},
   services  |-> {[kind |-> "Service", ns |-> o.ns, name |-> o.app, type |-> "ClusterIP",
                   selector |-> {o.label}]},
   policies  |-> {NetPolicy(o, "default-deny", {"Ingress", "Egress"}, 0),
                  NetPolicy(o, "allow-dns", {"Egress"}, 1)}]

=============================================================================
