------------------------------ MODULE Policies ------------------------------
(***************************************************************************)
(* Custom policies (internal/policy): a directory of packs is read in the  *)
(* order of its file names, strictly, into one set; a policy is evaluated  *)
(* on every workload or on every container, and what it matches joins the  *)
(* findings of the built-in checks.                                        *)
(*                                                                         *)
(* A pack file is [decodes, version, policies]: whether strict decoding    *)
(* and the apiVersion pass, and its policies.  A policy is [id, complete,  *)
(* sev, target, match]; `complete' says that title and category are given. *)
(* A CEL expression is its name in Expressions: its static type, and       *)
(* whether it speaks of the container.                                     *)
(***************************************************************************)
EXTENDS Report

Expressions ==
  [hostNetwork |-> [type |-> "dyn",  container |-> FALSE],  \* workload.hostNetwork
   unowned     |-> [type |-> "bool", container |-> FALSE],  \* !("team" in workload.labels)
   prod        |-> [type |-> "bool", container |-> FALSE],  \* workload.labels["env"] == "prod"
   name        |-> [type |-> "dyn",  container |-> FALSE],  \* workload.name
   mounts      |-> [type |-> "dyn",  container |-> FALSE],  \* workload.automountServiceAccountToken
   root        |-> [type |-> "bool", container |-> TRUE],   \* container.runAsUser == 0
   escalates   |-> [type |-> "dyn",  container |-> TRUE],   \* container.allowPrivilegeEscalation
   sum         |-> [type |-> "int",  container |-> FALSE]]  \* 1 + 1

-----------------------------------------------------------------------------
(* Loading. *)

Target(p) == IF p.target = "" THEN "workload" ELSE p.target

\* The fields are there, the target is known, and the expression compiles in the
\* target's environment to a type that may be a Boolean.
CompilePolicy(p) ==
  /\ p.id # "" /\ p.complete /\ p.sev \in DOMAIN Rank
  /\ Target(p) \in {"workload", "container"}
  /\ p.match \in DOMAIN Expressions
  /\ Expressions[p.match].container => Target(p) = "container"
  /\ Expressions[p.match].type \in {"bool", "dyn"}

ParsePack(file) ==
  /\ file.decodes /\ file.version /\ file.policies # <<>>
  /\ \A i \in DOMAIN file.policies : CompilePolicy(file.policies[i])

\* Faulty variant: a file that does not parse, and an id that was there before, are
\* passed over.
LoadPolicies_lenient(files) ==
  LET good == SelectSeq(files, ParsePack)
      all == FlattenSeq([i \in DOMAIN good |-> good[i].policies])
  IN [ok |-> TRUE, policies |-> {all[i] : i \in {k \in DOMAIN all :
                                                  \A j \in 1 .. k - 1 : all[j].id # all[k].id}}]

\* All packs merge into one set; one bad pack, or an id that comes twice in the
\* whole directory, fails the load.
LoadPolicies(files) ==
  LET all == FlattenSeq([i \in DOMAIN files |-> files[i].policies])
  IN IF /\ \A i \in DOMAIN files : ParsePack(files[i])
        /\ \A i, j \in DOMAIN all : all[i].id = all[j].id => i = j
     THEN [ok |-> TRUE, policies |-> Range(all)]
     ELSE [ok |-> FALSE, policies |-> {}]

-----------------------------------------------------------------------------
(* Evaluation.  A pointer that is nil gets the default of workloadMap or      *)
(* containerMap.                                                              *)

Deref(pointer, default) == IF pointer = {} THEN default ELSE CHOOSE v \in pointer : TRUE

\* Whether an evaluation gives true: an error (a label that is not there) and a
\* value that is not Boolean (a name) do not match.
Holds(match, w, c) ==
  CASE match = "hostNetwork" -> w.hostNetwork
    [] match = "unowned"     -> "team=a" \notin PodLabels(w)
    [] match = "prod"        -> "env=prod" \in PodLabels(w)
    [] match = "name"        -> FALSE
    [] match = "mounts"      -> Deref(w.automount, TRUE)
    [] match = "root"        -> Deref(c.user, -1) = 0
    [] match = "escalates"   -> Deref(c.privEsc, TRUE)

EvaluatePolicy(p, g) ==
  IF Target(p) = "container"
  THEN {Finding(p.id, p.sev, Ref(x.w), <<"policy", x.c.name>>)
          : x \in {y \in AllContainers(g) : Holds(p.match, y.w, y.c)}}
  ELSE {Finding(p.id, p.sev, Ref(w), <<"policy">>)
          : w \in {v \in Workloads(g) : Holds(p.match, v, {})}}

EvaluatePolicies(policies, g) == UNION {EvaluatePolicy(p, g) : p \in policies}

-----------------------------------------------------------------------------
(* The report with them, and the evidence for auditors. *)

\* Only built-in checks count as run; what fired is taken from all findings.
AnalyzeWith(g, profile, assumeBreach, policies, packs) ==
  LET built == Analyze(g, profile, assumeBreach)
      findings == built.findings \cup EvaluatePolicies(policies, g)
  IN [findings |-> findings, paths |-> built.paths,
      compliance |-> [p \in packs |-> Evaluate(p, RunnableIDs(ProfileByName(profile)),
                                               FiredChecks(findings))]]

=============================================================================
