----------------------------- MODULE ScanCommand -----------------------------
(***************************************************************************)
(* kubeguard scan (internal/cli/scan.go): runScan with its error exits in  *)
(* the order of the code, the files it leaves behind, and watchLoop, which *)
(* repeats it when the input's modification time advances.  Meanwhile the  *)
(* input is edited, and the process may be killed and started again.       *)
(***************************************************************************)
EXTENDS History, SequencesExt

CONSTANTS
  Kind,          \* the input is a "file" or a "dir"
  Params,        \* the command lines considered
  Evidence,      \* the files of an evidence export, in the order written
  MaxEdits,      \* bound on the edits of the input
  MaxRuns        \* bound on the invocations of the command

\* The flags that matter, by what becomes of them.
CommandLine == [watch : BOOLEAN, engine : {"ok", "bad"}, waivers : {"none", "ok", "bad"},
                history : BOOLEAN, failOn : {"", "valid", "invalid"},
                output : {"stdout", "file", "unknown", "evidence", "nodir"}]

VARIABLES
  p,         \* the flags of this invocation
  run,       \* its number; also names its history record
  pc, code,  \* where it is, and its exit code
  last,      \* watchLoop's modification time of the last scan
  seen,      \* the version of the input that was loaded
  next,      \* the next output file to write
  input,     \* version and modification time of the input
  verdict,   \* what a scan of each version finds
  file,      \* the history file
  outs,      \* the output files
  before     \* history: file and outs when the invocation began

vars == <<p, run, pc, code, last, seen, next, input, verdict, file, outs, before>>
world == <<input, verdict>>

\* An output file: not there, created and not yet rendered, the report of a version.
Absent    == [is |-> "absent",  of |-> 0]
Partial   == [is |-> "partial", of |-> 0]
Report(v) == [is |-> "report",  of |-> v]
Outputs == Range(Evidence) \cup {"report"}
Version == 0..MaxEdits

\* "waivable": every finding at or above the threshold has a waiver in the file;
\* "broken": it does not parse; "missing": there is no input at this moment.
Verdict == {"clean", "waivable", "breach", "broken", "missing"}

Targets ==
  CASE p.output \in {"file", "unknown"} -> <<"report">>
    [] p.output = "evidence"            -> Evidence
    [] OTHER                            -> <<>>

Init ==
  /\ p \in Params
  /\ run = 1
  /\ pc = IF p.watch THEN "stat" ELSE "load"
  /\ code = 0
  /\ last = 0
  /\ seen = 0
  /\ next = 1
  /\ input = [version |-> 0, mtime |-> 1]
  /\ verdict \in [Version -> Verdict]
  /\ file = Empty
  /\ outs = [f \in Outputs |-> Absent]
  /\ before = [file |-> Empty, outs |-> outs]

-----------------------------------------------------------------------------
(* runScan.                                                                 *)

Go(from, to) == pc = from /\ pc' = to

\* An error other than a breach ends the command, in the watch loop too.
Fails(from) ==
  /\ Go(from, "exit") /\ code' = 1
  /\ UNCHANGED <<p, run, last, seen, next, world, file, outs, before>>

Load ==
  /\ Go("load", "policy")
  /\ verdict[input.version] \notin {"broken", "missing"}
  /\ seen' = input.version
  /\ UNCHANGED <<p, run, code, last, next, world, file, outs, before>>

LoadFails == verdict[input.version] \in {"broken", "missing"} /\ Fails("load")

\* The policy pack and the profile are read; the report is computed.
Analyze ==
  /\ p.engine = "ok" /\ Go("policy", "waivers")
  /\ UNCHANGED <<p, run, code, last, seen, next, world, file, outs, before>>

AnalyzeFails == p.engine = "bad" /\ Fails("policy")

LoadWaivers ==
  /\ p.waivers # "bad" /\ Go("waivers", "history")
  /\ UNCHANGED <<p, run, code, last, seen, next, world, file, outs, before>>

LoadWaiversFails == p.waivers = "bad" /\ Fails("waivers")

\* The record is appended and the whole history read back.
RecordHistory ==
  \E how \in IF p.history THEN Writes("jsonl") ELSE {"nothing"} :
    /\ file' = Written(file, <<run, seen>>, how)
    /\ IF p.history /\ (how # "full" \/ ~Readable(file'))
         THEN Go("history", "exit") /\ code' = 1
         ELSE Go("history", "write") /\ UNCHANGED code
    /\ next' = 1
    /\ UNCHANGED <<p, run, last, seen, world, outs, before>>

\* Evidence needs a directory; an unknown format is noticed when rendering, by
\* which time the output file has been truncated.
WriteFails ==
  /\ p.output = "nodir" \/ (p.output = "unknown" /\ outs["report"] = Partial)
  /\ Fails("write")

CreateFile ==
  /\ pc = "write" /\ next <= Len(Targets) /\ outs[Targets[next]] # Partial
  /\ outs' = [outs EXCEPT ![Targets[next]] = Partial]
  /\ UNCHANGED <<p, run, pc, code, last, seen, next, world, file, before>>

Render ==
  /\ pc = "write" /\ next <= Len(Targets) /\ p.output # "unknown"
  /\ outs[Targets[next]] = Partial
  /\ outs' = [outs EXCEPT ![Targets[next]] = Report(seen)]
  /\ next' = next + 1
  /\ UNCHANGED <<p, run, pc, code, last, seen, world, file, before>>

\* The file cannot be created, or rendering stops half way (a full disk).
RenderFails == next <= Len(Targets) /\ Fails("write")

WriteDone ==
  /\ next > Len(Targets) /\ p.output # "nodir"
  /\ Go("write", "gate")
  /\ UNCHANGED <<p, run, code, last, seen, next, world, file, outs, before>>

Breaches ==
  verdict[seen] = "breach" \/ (verdict[seen] = "waivable" /\ p.waivers # "ok")

\* Faulty variant: the threshold is only compared when waivers were given.
Gate_waiversOnly ==
  /\ p.failOn # "invalid"
  /\ code' = IF p.failOn = "valid" /\ p.waivers = "ok" /\ Breaches THEN 2 ELSE 0
  /\ Go("gate", IF p.watch THEN "wait" ELSE "exit")
  /\ UNCHANGED <<p, run, last, seen, next, world, file, outs, before>>

\* In the watch loop a breach is printed and the loop goes on.
Gate ==
  /\ p.failOn # "invalid"
  /\ code' = IF p.failOn = "valid" /\ Breaches THEN 2 ELSE 0
  /\ Go("gate", IF p.watch THEN "wait" ELSE "exit")
  /\ UNCHANGED <<p, run, last, seen, next, world, file, outs, before>>

GateFails == p.failOn = "invalid" /\ Fails("gate")

-----------------------------------------------------------------------------
(* watchLoop.                                                               *)

Advanced == verdict[input.version] # "missing" /\ input.mtime > last

Stat ==
  /\ Go("stat", IF Advanced THEN "load" ELSE "wait")
  /\ last' = IF Advanced THEN input.mtime ELSE last
  /\ UNCHANGED <<p, run, code, seen, next, world, file, outs, before>>

\* Faulty variant: the time of the scan is taken once the scan is over.
Tick_restamps ==
  /\ Go("wait", "stat")
  /\ last' = input.mtime
  /\ UNCHANGED <<p, run, code, seen, next, world, file, outs, before>>

Tick ==
  /\ Go("wait", "stat")
  /\ UNCHANGED <<p, run, code, last, seen, next, world, file, outs, before>>

-----------------------------------------------------------------------------
(* The surroundings.                                                        *)

\* Every write has a later time than the one before it.  Writing to a file of a
\* directory leaves the directory's own time alone; adding, removing or renaming
\* an entry does not.
Edit ==
  /\ input.version < MaxEdits
  /\ \E stamps \in IF Kind = "dir" THEN BOOLEAN ELSE {TRUE} :
       input' = [version |-> input.version + 1,
                 mtime |-> IF stamps THEN input.mtime + 1 ELSE input.mtime]
  /\ UNCHANGED <<p, run, pc, code, last, seen, next, verdict, file, outs, before>>

Kill ==
  /\ pc \notin {"exit", "killed"} /\ run < MaxRuns
  /\ pc' = "killed"
  /\ UNCHANGED <<p, run, code, last, seen, next, world, file, outs, before>>

Invoke ==
  /\ pc \in {"exit", "killed"} /\ run < MaxRuns
  /\ p' \in Params
  /\ run' = run + 1
  /\ pc' = IF p'.watch THEN "stat" ELSE "load"
  /\ code' = 0 /\ last' = 0 /\ seen' = 0 /\ next' = 1
  /\ before' = [file |-> file, outs |-> outs]
  /\ UNCHANGED <<world, file, outs>>

RunScan ==
  \/ Load \/ LoadFails \/ Analyze \/ AnalyzeFails \/ LoadWaivers \/ LoadWaiversFails
  \/ RecordHistory \/ WriteFails \/ CreateFile \/ Render \/ RenderFails \/ WriteDone
  \/ Gate \/ GateFails

Command == RunScan \/ Stat \/ Tick

Next == Command \/ Edit \/ Kill \/ Invoke

Spec == Init /\ [][Next]_vars

\* The process runs and its ticker fires; edits and kills need not happen.
Fairness == WF_vars(Command)
FairSpec == Spec /\ Fairness

-----------------------------------------------------------------------------
(* Properties.                                                              *)

TypeOK ==
  /\ p \in CommandLine /\ run \in 1..MaxRuns \cup {1} /\ code \in 0..2
  /\ pc \in {"stat", "load", "policy", "waivers", "history", "write", "gate", "wait", "exit", "killed"}
  /\ seen \in Version /\ next \in 1..(Len(Evidence) + 1) \cup {2}
  /\ input \in [version : Version, mtime : 1..(MaxEdits + 1)] /\ last \in 0..(MaxEdits + 1)
  /\ outs \in [Outputs -> {Absent, Partial} \cup {Report(v) : v \in Version}]

ExitIsTrue ==
  pc = "exit" /\ code # 1 =>
    /\ (code = 2) = (p.failOn = "valid" /\ Breaches)
    /\ \A i \in DOMAIN Targets : outs[Targets[i]] = Report(seen)
    /\ p.history => Last(All(file)) = <<run, seen>>

RefusedLeavesNoTrace ==
  pc = "exit" /\ (p.engine = "bad" \/ p.waivers = "bad") => before = [file |-> file, outs |-> outs]

\* Exit code 2 means that the scanned version breaches the gate and 0 that it does
\* not, and with either the report is complete: every output file holds that
\* version and the history has its record.  A scan refused for its profile, its
\* policies or its waivers leaves the history and the outputs of earlier scans as
\* they were (scan.go:104-135).
ExitTellsTheTruth == TypeOK /\ ExitIsTrue /\ RefusedLeavesNoTrace

\* The watch loop ends up with a scan of the last version of the input, even if it
\* is edited between the look at its time and the load (scan.go:66: "re-scan when
\* the input changes"), unless an error or a kill ends it or
\* there is no input.
WatchCatchesUp ==
  p.watch ~> \/ pc \in {"exit", "killed"}
             \/ pc = "wait" /\ seen = input.version
             \/ verdict[input.version] = "missing"

\* A scan without --watch ends.
ScanEnds == ~p.watch ~> (pc \in {"exit", "killed"} \/ p.watch)

=============================================================================
