------------------------------- MODULE Service -------------------------------
(***************************************************************************)
(* The single-tenant service (internal/server): ScanOnce from the initial  *)
(* scan, the cron schedule and POST /v1/scan, all free to overlap; the     *)
(* cached latest report; the Prometheus gauges; the history store.  The    *)
(* process may stop at any moment and be started again: memory is lost,    *)
(* the history file is not.  A report is named by its scan.                *)
(***************************************************************************)
EXTENDS History, Naturals, FiniteSets, Functions

CONSTANTS
  Scans,         \* calls of ScanOnce
  None,
  Vecs,          \* the gauge vectors, in the order updateMetrics fills them
  Labels,        \* Labels[v]: the labels of v, in the order they are set
  Backend,       \* "jsonl" or "sqlite"
  MaxStops       \* bound on the stops of the process

Absent == "absent"    \* the vector has no such series
Zero   == "zero"      \* registered, not set yet

ASSUME ServiceAssumption ==
  /\ Scans \cap {None, Absent, Zero} = {}
  /\ Len(Vecs) \in Nat /\ DOMAIN Vecs = 1..Len(Vecs)
  /\ \A i, j \in DOMAIN Vecs : Vecs[i] = Vecs[j] => i = j
  /\ \A i \in DOMAIN Vecs :
       Len(Labels[Vecs[i]]) \in Nat /\ DOMAIN Labels[Vecs[i]] = 1..Len(Labels[Vecs[i]])
  /\ Backend \in {"jsonl", "sqlite"}
  /\ MaxStops \in Nat

VARIABLES
  phase,     \* "down", "boot" (Start's initial scan) or "serving"
  pc,        \* where each call of ScanOnce is
  step,      \* its position in updateMetrics
  handle,    \* the gauge WithLabelValues gave it is still registered
  latest,    \* the cached report
  gauge,     \* gauge[v][l]: whose value the series shows
  paths,     \* the gauge without labels
  file,      \* the history store
  acked,     \* history: the scans whose Append returned without error, in order
  stops,     \* bound: how often the process stopped
  overlap,   \* history: two updateMetrics ran at once since the process started
  page       \* a request for the HTML dashboard

vars == <<phase, pc, step, handle, latest, gauge, paths, file, acked, stops, overlap, page>>

VecNames == Range(Vecs)
NoSeries == [v \in VecNames |-> [l \in Range(Labels[v]) |-> Absent]]

\* The calls updateMetrics makes to the Prometheus client, one after the other:
\* the reset of a vector, a lookup and a set for each of its labels, the next
\* vector; the gauge without labels comes last.
FillVec(v) ==
  [op |-> IF v <= Len(Vecs) THEN "reset" ELSE "paths", vec |-> v, label |-> 0]

\* Faulty variant: the loop leaves out the last label.
FillLabel_short(v, l) ==
  IF l < Len(Labels[Vecs[v]]) THEN [op |-> "with", vec |-> v, label |-> l]
                              ELSE FillVec(v + 1)

FillLabel(v, l) ==
  IF l <= Len(Labels[Vecs[v]]) THEN [op |-> "with", vec |-> v, label |-> l]
                               ELSE FillVec(v + 1)

After(call) ==
  IF call.op = "with" THEN [call EXCEPT !.op = "set"]
                      ELSE FillLabel(call.vec, call.label + 1)

Calls ==
  {c \in [op : {"reset", "with", "set", "paths"}, vec : 1..(Len(Vecs) + 1), label : Nat] :
     CASE c.op = "paths" -> c.vec = Len(Vecs) + 1
       [] c.op = "reset" -> c.vec \in DOMAIN Vecs /\ c.label = 0
       [] OTHER          -> c.vec \in DOMAIN Vecs /\ c.label \in DOMAIN Labels[Vecs[c.vec]]}

NoPage == [at |-> "idle", rep |-> None, trend |-> <<>>, known |-> {}]

Active == {k \in Scans : pc[k] \in {"load", "analyzed", "metrics", "append"}}

Init ==
  /\ phase = "down"
  /\ pc = [k \in Scans |-> "idle"]
  /\ step = [k \in Scans |-> FillVec(1)]
  /\ handle = [k \in Scans |-> FALSE]
  /\ latest = None
  /\ gauge = NoSeries
  /\ paths = None
  /\ file = Empty
  /\ acked = <<>>
  /\ stops = 0
  /\ overlap = FALSE
  /\ page = NoPage

-----------------------------------------------------------------------------
(* Start: an initial scan, then the schedule and the listener.              *)

Boot(k) ==
  /\ phase = "down" /\ pc[k] = "idle"
  /\ phase' = "boot"
  /\ pc' = [pc EXCEPT ![k] = "load"]
  /\ UNCHANGED <<step, handle, latest, gauge, paths, file, acked, stops, overlap, page>>

Serve ==
  /\ phase = "boot" /\ Active = {}
  /\ phase' = "serving"
  /\ UNCHANGED <<pc, step, handle, latest, gauge, paths, file, acked, stops, overlap, page>>

\* POST /v1/scan, or the schedule: nothing waits for a scan that is running.
Trigger(k) ==
  /\ phase = "serving" /\ pc[k] = "idle"
  /\ pc' = [pc EXCEPT ![k] = "load"]
  /\ UNCHANGED <<phase, step, handle, latest, gauge, paths, file, acked, stops, overlap, page>>

-----------------------------------------------------------------------------
(* ScanOnce.                                                                *)

\* The loader or the analyzer fails: nothing is cached, nothing is recorded.
ScanFails(k) ==
  /\ pc[k] = "load"
  /\ pc' = [pc EXCEPT ![k] = "failed"]
  /\ UNCHANGED <<phase, step, handle, latest, gauge, paths, file, acked, stops, overlap, page>>

Analyzed(k) ==
  /\ pc[k] = "load"
  /\ pc' = [pc EXCEPT ![k] = "analyzed"]
  /\ UNCHANGED <<phase, step, handle, latest, gauge, paths, file, acked, stops, overlap, page>>

\* The lock covers latest and hasScan, and nothing after them.
CacheLatest(k) ==
  /\ pc[k] = "analyzed"
  /\ latest' = k
  /\ pc' = [pc EXCEPT ![k] = "metrics"]
  /\ overlap' = (overlap \/ \E j \in Scans : pc[j] = "metrics")
  /\ UNCHANGED <<phase, step, handle, gauge, paths, file, acked, stops, page>>

\* A reset unregisters the series; who holds one of them sets it in vain.
Reset(k, v) ==
  /\ gauge' = [gauge EXCEPT ![v] = NoSeries[v]]
  /\ handle' = [j \in Scans |-> handle[j] /\ Vecs[step[j].vec] # v]
  /\ UNCHANGED paths

With(k, v, l) ==
  /\ gauge' = [gauge EXCEPT ![v][l] = IF @ = Absent THEN Zero ELSE @]
  /\ handle' = [handle EXCEPT ![k] = TRUE]
  /\ UNCHANGED paths

Set(k, v, l) ==
  /\ gauge' = [gauge EXCEPT ![v][l] = IF handle[k] THEN k ELSE @]
  /\ handle' = [handle EXCEPT ![k] = FALSE]
  /\ UNCHANGED paths

Update(k, call) ==
  CASE call.op = "reset" -> Reset(k, Vecs[call.vec])
    [] call.op = "with"  -> With(k, Vecs[call.vec], Labels[Vecs[call.vec]][call.label])
    [] call.op = "set"   -> Set(k, Vecs[call.vec], Labels[Vecs[call.vec]][call.label])
    [] call.op = "paths" -> paths' = k /\ UNCHANGED <<gauge, handle>>

UpdateMetrics(k) ==
  /\ pc[k] = "metrics"
  /\ Update(k, step[k])
  /\ IF step[k].op = "paths"
       THEN pc' = [pc EXCEPT ![k] = "append"] /\ step' = [step EXCEPT ![k] = FillVec(1)]
       ELSE step' = [step EXCEPT ![k] = After(@)] /\ UNCHANGED pc
  /\ UNCHANGED <<phase, latest, file, acked, stops, overlap, page>>

\* The record goes to the store; an error is logged and the scan still succeeds.
AppendHistory(k) ==
  \E how \in Writes(Backend) :
    /\ pc[k] = "append"
    /\ file' = Written(file, k, how)
    /\ acked' = IF how = "full" THEN Append(acked, k) ELSE acked
    /\ pc' = [pc EXCEPT ![k] = "done"]
    /\ UNCHANGED <<phase, step, handle, latest, gauge, paths, stops, overlap, page>>

-----------------------------------------------------------------------------
(* The handlers answer 503 until there is a report.  The dashboard's page    *)
(* shows the report and, read after it and without a lock, the history; a    *)
(* history that cannot be read is left out.                                  *)

Snapshot ==
  /\ phase = "serving" /\ latest # None /\ page.at = "idle"
  /\ page' = [at |-> "snapshot", rep |-> latest, trend |-> <<>>, known |-> Range(acked)]
  /\ UNCHANGED <<phase, pc, step, handle, latest, gauge, paths, file, acked, stops, overlap>>

RenderPage ==
  /\ page.at = "snapshot"
  /\ page' = [page EXCEPT !.at = "sent", !.trend = IF Readable(file) THEN All(file) ELSE <<>>]
  /\ UNCHANGED <<phase, pc, step, handle, latest, gauge, paths, file, acked, stops, overlap>>

ClosePage ==
  /\ page.at = "sent"
  /\ page' = NoPage
  /\ UNCHANGED <<phase, pc, step, handle, latest, gauge, paths, file, acked, stops, overlap>>

-----------------------------------------------------------------------------
(* The process stops: everything but the file is gone, and a write in       *)
(* progress may have come part of the way.                                  *)

Stop ==
  /\ phase # "down" /\ stops < MaxStops
  /\ stops' = stops + 1
  /\ phase' = "down"
  /\ pc' = [k \in Scans |-> IF k \in Active THEN "lost" ELSE pc[k]]
  /\ latest' = None
  /\ gauge' = NoSeries
  /\ paths' = None
  /\ handle' = [k \in Scans |-> FALSE]
  /\ overlap' = FALSE
  /\ page' = NoPage
  /\ file' \in {file} \cup {Written(file, k, how) :
                              k \in {j \in Scans : pc[j] = "append"}, how \in Writes(Backend)}
  /\ step' = [k \in Scans |-> FillVec(1)]
  /\ UNCHANGED acked

ScanOnce(k) ==
  ScanFails(k) \/ Analyzed(k) \/ CacheLatest(k) \/ UpdateMetrics(k) \/ AppendHistory(k)

\* All calls of the bound have been made.
Terminated ==
  /\ Active = {} /\ \A k \in Scans : pc[k] # "idle"
  /\ phase # "boot" /\ page = NoPage
  /\ UNCHANGED vars

Next ==
  \/ Serve \/ Stop \/ Snapshot \/ RenderPage \/ ClosePage \/ Terminated
  \/ \E k \in Scans : Boot(k) \/ Trigger(k) \/ ScanOnce(k)

Spec == Init /\ [][Next]_vars

-----------------------------------------------------------------------------
(* Properties.                                                              *)

TypeOK ==
  /\ phase \in {"down", "boot", "serving"}
  /\ pc \in [Scans -> {"idle", "load", "analyzed", "metrics", "append", "done", "failed", "lost"}]
  /\ step \in [Scans -> Calls]
  /\ handle \in [Scans -> BOOLEAN]
  /\ latest \in Scans \cup {None} /\ paths \in Scans \cup {None}
  /\ \A v \in VecNames : gauge[v] \in [Range(Labels[v]) -> Scans \cup {Absent, Zero}]
  /\ \A i \in DOMAIN file : file[i] \in Seq([rec : Scans, whole : BOOLEAN])
  /\ acked \in Seq(Scans)
  /\ stops \in 0..MaxStops /\ overlap \in BOOLEAN
  /\ page.at \in {"idle", "snapshot", "sent"} /\ page.known \subseteq Scans

Quiet == Active = {} /\ latest # None

SeriesComplete ==
  Quiet => /\ paths # None
           /\ \A v \in VecNames : \A l \in Range(Labels[v]) : gauge[v][l] \in Scans

SequentialGauges ==
  Quiet /\ ~overlap =>
    paths = latest /\ \A v \in VecNames : \A l \in Range(Labels[v]) : gauge[v][l] = latest

\* However the updates of overlapping scans interleave (server.go:122), the
\* last reset is followed by a set of every series: at rest none is missing and
\* none is left at zero.  Without overlapping updates the gauges are those of the
\* cached report.
GaugesHold == TypeOK /\ SeriesComplete /\ SequentialGauges

\* What the code does not keep when updates overlap: the gauges are about "the
\* latest scan" (server.go:67, :71), the report that /v1/report answers.
GaugesShowLatest ==
  Quiet => paths = latest /\ \A v \in VecNames : \A l \in Range(Labels[v]) : gauge[v][l] = latest

HistoryKept ==
  Readable(file) => SelectSeq(All(file), LAMBDA k : k \in Range(acked)) = acked

TrendIsCurrent ==
  page.at = "sent" => page.trend = <<>> \/ page.known \subseteq Range(page.trend)

\* A history that can be read holds every record that was appended without error
\* (file.go:28) once, in the order of the appends, across failed writes, writes
\* cut short and restarts: damage shows as an error of All, never as a gap.  A
\* page's trend has every record appended before the page was asked for, or it is
\* left out altogether (server.go:199).
HistoryTold == HistoryKept /\ TrendIsCurrent

=============================================================================
