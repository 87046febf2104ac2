----------------------------- MODULE WorkerPool ------------------------------
(***************************************************************************)
(* The asynchronous scans of the dashboard (dashboard/workers.go, the end  *)
(* of handleTriggerScan in dashboard/api.go) and their shutdown            *)
(* (cli/dashboard.go).  A handler looks whether there is a pool and, in a  *)
(* later step, sends its job to the pool's channel or, the queue being     *)
(* full, gives up.  On an interrupt the server stops listening at once;    *)
(* the main goroutine does not wait for the handlers still running before  *)
(* it closes the channel.                                                  *)
(***************************************************************************)
EXTENDS Naturals, FiniteSets, Sequences, Functions

CONSTANTS
  Requests,    \* the scan requests, each also naming the job it submits
  Workers,     \* the workers (--async-workers); {} for synchronous scans
  QueueSize    \* the capacity of the channel

ASSUME PoolAssumption == QueueSize \in Nat \ {0}

VARIABLES
  pool,        \* a.pool # nil
  open,        \* the jobs channel has not been closed
  jobs,        \* the jobs in the channel
  worker,      \* what each worker does: range over the channel, run a job, be gone
  handler,     \* how far each request is
  main,        \* how far the main goroutine is
  ran          \* the requests whose scan has been run

vars == <<pool, open, jobs, worker, handler, main, ran>>

Ranging == [at |-> "range"]
Running(r) == [at |-> "run", job |-> r]
Gone == [at |-> "gone"]

\* A request ends with 202 (queued, or a finished inline scan), 503 or a panic
\* that net/http recovers by cutting the connection.
HandlerState == {"idle", "admitted", "enqueue", "inline", "queued", "scanned",
                 "unavailable", "panicked"}

\* startWorkers.
Init ==
  /\ pool = (Workers # {})
  /\ open = TRUE
  /\ jobs = <<>>
  /\ worker = [w \in Workers |-> Ranging]
  /\ handler = [r \in Requests |-> "idle"]
  /\ main = "serving"
  /\ ran = {}

-----------------------------------------------------------------------------
\* The server admits a request while it listens; the handler makes its other
\* checks (the body, the cluster).
Admit(r) ==
  /\ main = "serving"
  /\ handler[r] = "idle"
  /\ handler' = [handler EXCEPT ![r] = "admitted"]
  /\ UNCHANGED <<pool, open, jobs, worker, main, ran>>

\* The handler reads a.pool.
TriggerScan(r) ==
  /\ main # "exited"
  /\ handler[r] = "admitted"
  /\ handler' = [handler EXCEPT ![r] = IF pool THEN "enqueue" ELSE "inline"]
  /\ UNCHANGED <<pool, open, jobs, worker, main, ran>>

\* It reads a.pool again, and sends without blocking.  A nil pool and a closed
\* channel both panic.
Enqueue(r) ==
  /\ main # "exited"
  /\ handler[r] = "enqueue"
  /\ \/ /\ ~pool \/ ~open
        /\ handler' = [handler EXCEPT ![r] = "panicked"]
        /\ UNCHANGED jobs
     \/ /\ pool /\ open /\ Len(jobs) < QueueSize
        /\ jobs' = Append(jobs, r)
        /\ handler' = [handler EXCEPT ![r] = "queued"]
     \/ /\ pool /\ open /\ Len(jobs) = QueueSize
        /\ handler' = [handler EXCEPT ![r] = "unavailable"]
        /\ UNCHANGED jobs
  /\ UNCHANGED <<pool, open, worker, main, ran>>

RunInline(r) ==
  /\ main # "exited"
  /\ handler[r] = "inline"
  /\ handler' = [handler EXCEPT ![r] = "scanned"]
  /\ ran' = ran \cup {r}
  /\ UNCHANGED <<pool, open, jobs, worker, main>>

-----------------------------------------------------------------------------
\* Faulty variants: the job stays in the channel; the newest job goes first.
Take_peeks(w) ==
  /\ main # "exited"
  /\ worker[w] = Ranging /\ jobs # <<>>
  /\ worker' = [worker EXCEPT ![w] = Running(Head(jobs))]
  /\ UNCHANGED <<pool, open, jobs, handler, main, ran>>

Take_newest(w) ==
  /\ main # "exited"
  /\ worker[w] = Ranging /\ jobs # <<>>
  /\ worker' = [worker EXCEPT ![w] = Running(jobs[Len(jobs)])]
  /\ jobs' = SubSeq(jobs, 1, Len(jobs) - 1)
  /\ UNCHANGED <<pool, open, handler, main, ran>>

\* A worker ranges over the channel: it takes the next job, also from a closed
\* channel, and leaves when the channel is closed and empty.
Take(w) ==
  /\ main # "exited"
  /\ worker[w] = Ranging /\ jobs # <<>>
  /\ worker' = [worker EXCEPT ![w] = Running(Head(jobs))]
  /\ jobs' = Tail(jobs)
  /\ UNCHANGED <<pool, open, handler, main, ran>>

RunScanJob(w) ==
  /\ main # "exited"
  /\ worker[w].at = "run"
  /\ ran' = ran \cup {worker[w].job}
  /\ worker' = [worker EXCEPT ![w] = Ranging]
  /\ UNCHANGED <<pool, open, jobs, handler, main>>

\* Faulty variant: a worker that keeps asking a closed channel.
Leave_polls(w) == worker[w] = Ranging /\ jobs = <<>> /\ ~open /\ UNCHANGED vars

Leave(w) ==
  /\ main # "exited"
  /\ worker[w] = Ranging /\ jobs = <<>> /\ ~open
  /\ worker' = [worker EXCEPT ![w] = Gone]
  /\ UNCHANGED <<pool, open, jobs, handler, main, ran>>

-----------------------------------------------------------------------------
\* The interrupt: srv.Shutdown makes ListenAndServe return at once.
Interrupt ==
  /\ main = "serving"
  /\ main' = "stopping"
  /\ UNCHANGED <<pool, open, jobs, worker, handler, ran>>

\* Close, deferred in main: close the channel, wait for the workers, drop the
\* pool.
CloseJobs ==
  /\ main = "stopping"
  /\ main' = "waiting"
  /\ open' = (open /\ ~pool)
  /\ UNCHANGED <<pool, jobs, worker, handler, ran>>

WorkersDone ==
  /\ main = "waiting"
  /\ \A w \in Workers : worker[w] = Gone
  /\ main' = "returning"
  /\ pool' = FALSE
  /\ UNCHANGED <<open, jobs, worker, handler, ran>>

\* The process ends, whatever its goroutines are doing.
Exit ==
  /\ main = "returning"
  /\ main' = "exited"
  /\ UNCHANGED <<pool, open, jobs, worker, handler, ran>>

Exited == main = "exited" /\ UNCHANGED vars

HandlerStep(r) == Admit(r) \/ TriggerScan(r) \/ Enqueue(r) \/ RunInline(r)
WorkerStep(w)  == Take(w) \/ RunScanJob(w) \/ Leave(w)
MainStep       == CloseJobs \/ WorkersDone \/ Exit

Next ==
  \/ \E r \in Requests : HandlerStep(r)
  \/ \E w \in Workers : WorkerStep(w)
  \/ Interrupt \/ MainStep \/ Exited

Spec == Init /\ [][Next]_vars

\* The Go runtime keeps scheduling the workers and the main goroutine; no
\* client need send a request and nobody need interrupt the server.
Fairness == WF_vars(MainStep) /\ \A w \in Workers : WF_vars(WorkerStep(w))
FairSpec == Spec /\ Fairness

-----------------------------------------------------------------------------
RunningJobs == {worker[w].job : w \in {v \in Workers : worker[v].at = "run"}}

TypeOK ==
  /\ pool \in BOOLEAN /\ open \in BOOLEAN
  /\ jobs \in Seq(Requests) /\ Len(jobs) <= QueueSize
  /\ worker \in [Workers -> {Ranging, Gone} \cup {Running(r) : r \in Requests}]
  /\ handler \in [Requests -> HandlerState]
  /\ main \in {"serving", "stopping", "waiting", "returning", "exited"}
  /\ ran \subseteq Requests

\* A request that was answered "queued" is in one place: once in the queue, at
\* one worker, or run.  No scan is run twice, and none that was refused
\* (workers.go:42) is run.
QueuedOnce ==
  /\ IsInjective(jobs)
  /\ \A w \in Workers : worker[w].at = "run" =>
       /\ worker[w].job \notin Range(jobs) \cup ran
       /\ \A v \in Workers : worker[v] = worker[w] => v = w
  /\ Range(jobs) \cap ran = {}
  /\ Range(jobs) \cup RunningJobs \cup ran
       = {r \in Requests : handler[r] \in {"queued", "scanned"}}

\* "On shutdown the pool drains in-flight jobs" (docs/performance.md:8): when
\* Close has returned, every scan that was answered "queued" has been run.
Drained ==
  main \in {"returning", "exited"} => \A r \in Requests : handler[r] = "queued" => r \in ran

\* What was answered "queued" is kept once, in a queue that never overflows, until
\* it has run, and none is left when Close has returned (workers.go:42-57).
JobsKept == TypeOK /\ QueuedOnce /\ Drained

\* The pool accepts, starts in order and finishes jobs as JobService says,
\* across a shutdown too.
Service == INSTANCE JobService WITH
             Jobs     <- Requests,
             waiting  <- jobs,
             running  <- RunningJobs,
             finished <- {r \in ran : handler[r] = "queued"}
ImplementsJobService == Service!FairSpec

\* The shutdown does not wait for ever: the workers empty the queue and leave.
ShutdownCompletes == main = "stopping" ~> main = "exited"

\* "enqueue submits a job without blocking. Returns false if the queue is full"
\* (workers.go:40): every request that reaches it is told one or the other.  A send on
\* the closed channel panics, and the router's Recoverer answers 500.
EnqueueAnswers == \A r \in Requests : handler[r] # "panicked"
=============================================================================
