------------------------------- MODULE Report -------------------------------
(***************************************************************************)
(* The report of internal/analyzer and what is computed from it: posture   *)
(* and compliance (internal/compliance), risk (internal/risk), the CI gate *)
(* with its waivers (internal/cli, internal/waiver) and the admission      *)
(* webhook (internal/webhook).                                             *)
(***************************************************************************)
EXTENDS AttackPaths, Naturals, FiniteSets

-----------------------------------------------------------------------------
(* Compliance.  A pack is a set of controls; a control counts only if it is  *)
(* assessable and every check it maps to ran.                                *)

ValidPack(pack) ==
  pack.controls # {} /\ \A c \in pack.controls : c.assessable => c.mapsTo # {}

Assessed(pack, executed) ==
  {c \in pack.controls : c.assessable /\ c.mapsTo \subseteq executed}

FiredChecks(findings) == {f.id : f \in findings}

Breached(pack, executed, fired) ==
  {c \in Assessed(pack, executed) : c.mapsTo \cap fired # {}}

Evaluate(pack, executed, fired) ==
  LET a == Cardinality(Assessed(pack, executed))
      b == Cardinality(Breached(pack, executed, fired))
  IN [assessed |-> a, breached |-> b, passed |-> a - b]

-----------------------------------------------------------------------------
(* Risk: a published weighted sum over what the report already holds.        *)

SeverityPoints == [critical |-> 50, high |-> 30, medium |-> 15, low |-> 5, info |-> 0]

\* Only the strongest outcome counts of the paths that the check enables.
PathPoints(id, paths) ==
  LET mine == {p \in paths : id \in Enablers(p)}
      Reached(cap) == \E p \in mine : Reaches(p, cap)
  IN IF mine = {} THEN 0
     ELSE 25 + (IF \E p \in mine : p.internet THEN 20 ELSE 0)
          + (CASE Reached("ClusterAdmin") -> 30
               [] Reached("NodeAccess") -> 20
               [] Reached("ServiceAccountToken") \/ Reached("SecretRead") -> 10
               [] OTHER -> 0)

\* Two points for every further resource the check fires on, at most ten.
BreadthPoints(id, findings) ==
  LET n == Cardinality({f.res : f \in {x \in findings : x.id = id}})
  IN Min({2 * (n - 1), 10})

Score(f, rep) ==
  SeverityPoints[f.sev] + PathPoints(f.id, rep.paths) + BreadthPoints(f.id, rep.findings)

-----------------------------------------------------------------------------
(* The report. *)

Analyze(g, profile, assumeBreach) ==
  LET p == ProfileByName(profile)
      findings == Scan(g, p)
  IN [findings |-> findings,
      paths |-> BuildPaths(g, assumeBreach)]

-----------------------------------------------------------------------------
(* Waivers, the gate and the webhook.  A selector field "" matches all.      *)

MatchesResource(e, r) ==
  \A s \in e.resource : /\ s.kind \in {"", r.kind}
                        /\ s.ns \in {"", r.ns}
                        /\ s.name \in {"", r.name}

Waived(f, waivers, now) ==
  \E e \in waivers : e.id = f.id /\ now < e.expires /\ MatchesResource(e, f.res)

Blocking(findings, waivers, now) == {f \in findings : ~Waived(f, waivers, now)}

\* Exit code 2 of scan --fail-on.
GateBreached(findings, threshold, waivers, now) ==
  \E f \in Blocking(findings, waivers, now) : Rank[f.sev] >= Rank[threshold]

DenyChecks == {"KG-001", "KG-002", "KG-003", "KG-004", "KG-005", "KG-006", "KG-008"}

\* A graph of one pod.
Alone(pod) ==
  [workloads |-> {pod}, accounts |-> {}, roles |-> <<>>, clusterRoles |-> <<>>,
   roleBindings |-> {}, clusterRoleBindings |-> {}, services |-> {}, policies |-> {}]

\* Faulty variant: init containers are not looked at.
Violations_noInit(pod) ==
  {f \in Scan(Alone([pod EXCEPT !.init = {}]), ProfileByName("zeal-default")) : f.id \in DenyChecks}

\* The webhook scans the one pod of the request.
Violations(pod) ==
  {f \in Scan(Alone(pod), ProfileByName("zeal-default")) : f.id \in DenyChecks}

\* A pod that cannot be decoded is admitted only when failing open.
Admits(pod, failOpen, waivers, now) ==
  IF ~pod.decodes THEN failOpen ELSE Blocking(Violations(pod), waivers, now) = {}

=============================================================================
