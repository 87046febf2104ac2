---------------------------- MODULE MCStandalone -----------------------------
(***************************************************************************)
(* Instances of the single-tenant program: Service, ScanCommand (single    *)
(* scans, and the watch loop) and Loading (manifest files, and a live      *)
(* cluster).  A behaviour is one of one of them; the others rest.          *)
(***************************************************************************)
EXTENDS Service

VARIABLES
  job,                                                             \* which one
  p, run, at, code, last, seen, turn, input, verdict, journal, outs, before,
  disk, ever, edits, next, out, status

command == <<p, run, at, code, last, seen, turn, input, verdict, journal, outs, before>>
loading == <<disk, ever, edits, next, out, status>>

MCVecs   == <<"findings", "passRate">>
MCLabels == [findings |-> <<"critical", "low">>, passRate |-> <<"cis">>]

-----------------------------------------------------------------------------
(* Every combination of flags, twice; the flags that matter to the loop.    *)

MCEvidence == <<"cis.html", "cis.json">>

Lines == [watch : {FALSE}, engine : {"ok", "bad"}, waivers : {"none", "ok", "bad"},
          history : BOOLEAN, failOn : {"", "valid", "invalid"},
          output : {"stdout", "file", "unknown", "evidence", "nodir"}]

WatchLines == [watch : {TRUE}, engine : {"ok"}, waivers : {"none"}, history : {FALSE},
               failOn : {"valid", "invalid"}, output : {"stdout", "file"}]

Once  == INSTANCE ScanCommand WITH
  pc <- at, next <- turn, file <- journal, Kind <- "file", Params <- Lines,
  Evidence <- MCEvidence, MaxEdits <- 0, MaxRuns <- 2
Watch == INSTANCE ScanCommand WITH
  pc <- at, next <- turn, file <- journal, Kind <- "file", Params <- WatchLines,
  Evidence <- MCEvidence, MaxEdits <- 2, MaxRuns <- 1

-----------------------------------------------------------------------------
(* A directory of two manifest files; a cluster listed kind by kind.        *)

Object(kind, id) == [is |-> "object", kind |-> kind, id |-> id, decodes |-> TRUE]
Malformed(kind, id) == [Object(kind, id) EXCEPT !.decodes = FALSE]
Plain(is) == [is |-> is]
List(items) == [is |-> "list", items |-> items]

A == Object("Deployment", "a")
B == Object("Role", "b")
C == Object("ConfigMap", "c")
M == Malformed("Pod", "m")

Directory == <<"10-app.yaml", "20-rbac.yaml">>

FileContents ==
  [f \in Range(Directory) |->
     IF f = "10-app.yaml"
     THEN {<<>>, <<A>>, <<Plain("empty"), A, C>>, <<A, List(<<C, Plain("scalar"), M>>)>>,
           <<A, Plain("broken")>>, <<M, A, A>>}
     ELSE {<<List(<<B>>)>>, <<List(<<Plain("kindless"), B, A>>), C>>, <<Plain("kindless"), B, M>>,
           <<B, Plain("scalar")>>}]

FileDisks == {d \in [Range(Directory) -> UNION Range(FileContents)] : \A f \in DOMAIN d : d[f] \in FileContents[f]}

Kinds ==
  <<"Namespace", "ServiceAccount", "Pod", "Service", "Deployment", "StatefulSet", "DaemonSet",
    "Job", "CronJob", "Role", "ClusterRole", "RoleBinding", "ClusterRoleBinding", "NetworkPolicy">>

\* What the API server lists decodes; pods and bindings come and go.
Listed ==
  [k \in Range(Kinds) |->
     IF k \in {"Pod", "RoleBinding"}
     THEN {<<>>, <<Object(k, "a")>>, <<Object(k, "b"), Object(k, "a")>>}
     ELSE {<<Object(k, "a")>>}]

LiveDisks ==
  {[k \in Range(Kinds) |-> CASE k = "Pod" -> x [] k = "RoleBinding" -> y [] OTHER -> <<Object(k, "a")>>]
    : x \in Listed["Pod"], y \in Listed["RoleBinding"]}

Files == INSTANCE Loading WITH
  Parts <- Directory, Contents <- FileContents, Disks <- FileDisks, MaxEdits <- 3
Live  == INSTANCE Loading WITH
  Parts <- Kinds, Contents <- Listed, Disks <- LiveDisks, MaxEdits <- 3

-----------------------------------------------------------------------------
\* A command that has ended, on an input without findings; nothing to load.
NoCommand ==
  /\ p = [watch |-> FALSE, engine |-> "ok", waivers |-> "none", history |-> FALSE,
          failOn |-> "", output |-> "stdout"]
  /\ run = 1 /\ at = "exit" /\ code = 0 /\ last = 0 /\ seen = 0 /\ turn = 1
  /\ input = [version |-> 0, mtime |-> 1] /\ verdict = [v \in 0..0 |-> "clean"]
  /\ journal = Empty /\ outs = [f \in {"report"} |-> Once!Absent]
  /\ before = [file |-> journal, outs |-> outs]
NoLoading ==
  disk = <<>> /\ ever = <<>> /\ edits = 0 /\ next = 1 /\ out = <<>> /\ status = "failed"

StandaloneInit ==
  \/ job = "service" /\ Init /\ NoCommand /\ NoLoading
  \/ job = "scan" /\ Init /\ Once!Init /\ NoLoading
  \/ job = "watch" /\ Init /\ Watch!Init /\ NoLoading
  \/ job = "files" /\ Init /\ NoCommand /\ Files!Init
  \/ job = "live" /\ Init /\ NoCommand /\ Live!Init

StandaloneNext ==
  \/ job = "service" /\ Next /\ UNCHANGED <<job, command, loading>>
  \/ job = "scan" /\ Once!Next /\ UNCHANGED <<job, vars, loading>>
  \/ job = "watch" /\ Watch!Next /\ UNCHANGED <<job, vars, loading>>
  \/ job = "files" /\ Files!Next /\ UNCHANGED <<job, vars, command>>
  \/ job = "live" /\ Live!Next /\ UNCHANGED <<job, vars, command>>

StandaloneSpec ==
  /\ StandaloneInit /\ [][StandaloneNext]_<<job, vars, command, loading>>
  /\ Watch!Fairness     \* the command's steps are the same in both instances

\* An exit code says what the scan found, and a refused scan leaves no trace
\* (scan.go:104-135).
ExitTellsTheTruth ==
  /\ job = "scan" => Once!ExitTellsTheTruth
  /\ job = "watch" => Watch!ExitTellsTheTruth

\* A load is of everything that was there all along or fails, and owns up to what
\* was not assessed (offline.Load, live.Load, graph.Coverage).
LoadIsHonest ==
  /\ job = "files" => Files!LoadIsHonest
  /\ job = "live" => Live!LoadIsHonest /\ Live!GapsDisclosed

\* A scan command ends, and the watch loop comes to scan the last version of its
\* input (scan.go:66), even one written between its look at the time and the load.
CommandCatchesUp ==
  /\ job = "scan" => Once!ScanEnds
  /\ job = "watch" => Watch!WatchCatchesUp
=============================================================================
