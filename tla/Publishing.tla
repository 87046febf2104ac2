----------------------------- MODULE Publishing -----------------------------
(***************************************************************************)
(* Scans with custom policies and what is published of them.  Between two  *)
(* scans the policy directory is edited, or the hardened bundle is applied *)
(* to the cluster.  A scan whose policies do not load is refused and       *)
(* publishes nothing.                                                      *)
(***************************************************************************)
EXTENDS Policies, Exports

CONSTANTS
  Clusters,     \* the clusters a behaviour may start from
  Profiles,     \* the profiles scanned with
  Packs,        \* the compliance packs, valid ones
  PolicyDirs,   \* contents of the policy directory: sequences of pack files
  Options       \* what kubeguard harden may be asked for

VARIABLES
  cluster,       \* the loaded objects
  profile,       \* --profile, fixed in a behaviour
  assumeBreach,  \* --assume-breach, fixed in a behaviour
  files,         \* the policy directory
  report         \* the last report that was published

vars == <<cluster, profile, assumeBreach, files, report>>

Init ==
  /\ cluster \in Clusters
  /\ profile \in Profiles
  /\ assumeBreach \in BOOLEAN
  /\ files = <<>>
  /\ report = AnalyzeWith(cluster, profile, assumeBreach, {}, Packs)

\* runScan: the policies are loaded first, and an error ends it.
ScanCluster(g, dir) ==
  LET set == LoadPolicies(dir)
  IN report' = IF set.ok THEN AnalyzeWith(g, profile, assumeBreach, set.policies, Packs) ELSE report

EditPolicies ==
  /\ files' \in PolicyDirs \ {files}
  /\ ScanCluster(cluster, files')
  /\ UNCHANGED <<cluster, profile, assumeBreach>>

\* Applying the bundle replaces an account of that name and adds the rest.
Applied(g, o) ==
  LET b == Bundle(o)
  IN [g EXCEPT !.workloads = @ \cup b.workloads,
               !.accounts = {a \in @ : <<a.ns, a.name>> # <<o.ns, o.sa>>} \cup b.accounts,
               !.roles = @ \o b.roles,
               !.roleBindings = @ \cup b.roleBindings,
               !.services = @ \cup b.services,
               !.policies = @ \cup b.policies]

Apply(o) ==
  /\ \A w \in cluster.workloads : <<w.ns, w.name>> # <<o.ns, o.app>>
  /\ cluster' = Applied(cluster, o)
  /\ ScanCluster(cluster', files)
  /\ UNCHANGED <<profile, assumeBreach, files>>

Next == EditPolicies \/ \E o \in Options : Apply(o)

Spec == Init /\ [][Next]_vars

-----------------------------------------------------------------------------
(* Properties. *)

Executed == RunnableIDs(ProfileByName(profile))

Custom == {f \in report.findings : f.at # <<>> /\ f.at[1] = "policy"}

\* The report has findings of known severities, and counts that add up.
TypeOK ==
  /\ files \in PolicyDirs \cup {<<>>}
  /\ \A f \in report.findings : f.sev \in DOMAIN Rank
  /\ \A k \in Packs : LET r == report.compliance[k] IN r.breached + r.passed = r.assessed

OutputsAgree ==
  LET sarif == Sarif(report)
      lines == GitOpsAnnotations(report)
      asff == BuildASFF(report)
      errors == {f \in report.findings : Rank[f.sev] >= Rank["high"]}
  IN /\ {x.finding : x \in sarif.results} = report.findings
     /\ {x.finding : x \in {y \in sarif.results : y.level = "error"}} = errors
     /\ {x.finding : x \in {y \in lines.lines : y.level = "error"}} = errors
     /\ {x.finding : x \in {y \in asff : y.normalized >= 70}} = errors
     /\ {x.finding : x \in ExportCSV(report)} = report.findings
     /\ GateBreached(report.findings, "high", {}, 0) = (errors # {})
     /\ \A x \in sarif.results : \E r \in sarif.rules :
          r.id = x.rule /\ (x.level = "error" => r.level = "error")
     /\ Cardinality(lines.lines) = lines.headline.total

EvidenceAgrees ==
  LET ev == [k \in Packs |-> BuildEvidence(report, k, Executed)]
      failed == [k \in Packs |-> {c \in ev[k] : c.findings # {}}]
      posture == Summarize(report)
      headline == GitOpsAnnotations(report).headline
      pdf == ExportPDF(report)
  IN /\ \A k \in Packs : /\ Cardinality(ev[k]) = report.compliance[k].assessed
                        /\ Cardinality(failed[k]) = report.compliance[k].breached
     /\ posture.breached = MapThenSumSet(LAMBDA k : Cardinality(failed[k]), Packs)
     /\ pdf.assessed = MapThenSumSet(LAMBDA k : Cardinality(ev[k]), Packs)
     /\ pdf.total = headline.total
     /\ \A s \in DOMAIN headline.by : headline.by[s] = posture.by[s]

\* The controls that only the custom findings breach are those mapped to an id that
\* one of them shares with a built-in check.
PostureOwned ==
  LET plain == Analyze(cluster, profile, assumeBreach)
      taken == FiredChecks(Custom) \cap CheckIDs
  IN LoadPolicies(files).ok =>
       \A k \in Packs :
         LET own == Breached(k, Executed, FiredChecks(plain.findings))
             extra == {c \in Assessed(k, Executed) \ own : c.mapsTo \cap taken # {}}
         IN report.compliance[k].breached = Cardinality(own) + Cardinality(extra)

\* All outputs tell of the same findings and grade them alike: the levels of
\* SARIF and of the annotations and the ASFF score agree, a job that is not
\* stopped by --fail-on high shows no error anywhere, a rule is declared for
\* every SARIF result and no rule is milder than its results, and the headline
\* counts the lines (docs/shift-left.md: "one policy story").
\* The evidence handed to an auditor gives the figures of the report: its
\* controls are the assessed ones and those with findings the breached ones
\* (BuildEvidence and Pack.Evaluate go through the findings separately), and the
\* posture summary, the PDF and the headline give the same totals.
\* And a custom policy breaches a control only by taking the id of a built-in check
\* that the control maps to (Pack.Evaluate takes what fired from all findings;
\* docs/custom-policies.md: "without distorting the honest-metrics posture").
OneStory == TypeOK /\ OutputsAgree /\ EvidenceAgrees /\ PostureOwned

NoRuleDisabled ==
  [][report' # report =>
       \A i \in DOMAIN files' : \A j \in DOMAIN files'[i].policies :
         LET p == files'[i].policies[j]
         IN /\ CompilePolicy(p) /\ EvaluatePolicy(p, cluster') \subseteq report'.findings
            /\ p.match = "escalates" =>
                 \A x \in AllContainers(cluster') : FALSE \notin x.c.privEsc =>
                   \E f \in report'.findings : f.id = p.id /\ f.res = Ref(x.w)]_vars

\* What an issue is about, whatever its severity.
Issues(findings) == {<<f.id, f.res, f.at>> : f \in findings}

\* What the options of the bundle themselves bring: an account named "default"
\* and an image that is mutable or without a registry.
Asked(o) ==
  (IF o.sa = "default" THEN {"KG-016"} ELSE {})
  \cup (IF IsMutableImage(o.image) THEN {"KG-019"} ELSE {})
  \cup (IF ImplicitRegistry(o.image) THEN {"KG-022"} ELSE {})

BundleAddsNothing ==
  [][\A o \in Options : cluster' # cluster /\ cluster' = Applied(cluster, o) /\ LoadPolicies(files).ok =>
       /\ \A f \in report'.findings \ Custom' :
            <<f.id, f.res, f.at>> \in Issues(report.findings) \/ f.id \in Asked(o)
       /\ {p.entry : p \in report'.paths} \subseteq {p.entry : p \in report.paths}
       /\ \A f \in report'.findings : f.id = "KG-017" => f.res.name # o.ns]_vars

\* Applying the bundle to a running cluster adds no built-in issue that its options
\* did not ask for, opens no attack path, and leaves its namespace denied by
\* default (templates.go: "loading the bundle through the KubeGuard engine yields
\* zero findings").  And no rule of the directory is silently disabled: once a
\* directory has led to a new report, all its rules are well-formed and what each of
\* them matches is reported, of two rules of one id as of any others, and one against
\* privilege escalation has a finding for every container that may escalate, by
\* default too (policy.parse: "a typo'd field fails loudly rather than silently
\* disabling a policy"; merge refuses a repeated id).
RescansHonest == NoRuleDisabled /\ BundleAddsNothing

-----------------------------------------------------------------------------
(* What documents and comments say that the code does not do. *)

\* The PDF states the number of attack paths that it goes on to tell
\* (export.go: "Attack paths: %d").
PdfCountsPaths ==
  LET pdf == ExportPDF(report) IN pdf.attackPaths = Cardinality(pdf.narrated)

=============================================================================
