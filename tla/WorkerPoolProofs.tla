-------------------------- MODULE WorkerPoolProofs ---------------------------
(***************************************************************************)
(* The worker pool keeps its promises for every number of requests and of  *)
(* workers and every queue size, and it implements JobService.             *)
(***************************************************************************)
EXTENDS WorkerPool, SequenceTheorems, TLAPS

LEMMA AppendRange ==
  ASSUME NEW S, NEW s \in Seq(S), NEW x \in S
  PROVE  /\ Append(s, x) \in Seq(S) /\ Len(Append(s, x)) = Len(s) + 1
         /\ Range(Append(s, x)) = Range(s) \cup {x}
         /\ IsInjective(s) /\ x \notin Range(s) => IsInjective(Append(s, x))
<1> DEFINE u == Append(s, x)
<1>1. /\ u \in Seq(S) /\ Len(u) = Len(s) + 1 /\ DOMAIN u = 1 .. Len(s) + 1
      /\ DOMAIN s = 1 .. Len(s) /\ Len(s) \in Nat
      /\ \A i \in 1 .. Len(s) : u[i] = s[i]
      /\ u[Len(s) + 1] = x
  OBVIOUS
<1> HIDE DEF u
<1> QED BY <1>1 DEF Range, IsInjective

LEMMA TailRange ==
  ASSUME NEW S, NEW s \in Seq(S), s # <<>>, IsInjective(s)
  PROVE  /\ Head(s) \in S /\ Tail(s) \in Seq(S) /\ Len(Tail(s)) = Len(s) - 1
         /\ Head(s) \in Range(s)
         /\ Range(Tail(s)) = Range(s) \ {Head(s)}
         /\ IsInjective(Tail(s))
<1> DEFINE u == Tail(s)
<1>1. /\ u \in Seq(S) /\ Len(u) = Len(s) - 1 /\ DOMAIN u = 1 .. Len(s) - 1
      /\ DOMAIN s = 1 .. Len(s) /\ Len(s) \in Nat /\ Len(s) > 0
      /\ \A i \in 1 .. Len(s) - 1 : u[i] = s[i + 1]
      /\ Head(s) = s[1] /\ s[1] \in S
  BY HeadTailProperties
<1> HIDE DEF u
<1>2. Head(s) \in Range(s)
  BY <1>1 DEF Range
<1>3. IsInjective(u)
  BY <1>1 DEF IsInjective
<1>4. Range(u) \subseteq Range(s) \ {Head(s)}
  <2> SUFFICES ASSUME NEW x \in Range(u) PROVE x \in Range(s) /\ x # s[1]
    BY <1>1
  <2>1. PICK i \in 1 .. Len(s) - 1 : u[i] = x
    BY <1>1 DEF Range
  <2>2. i + 1 \in DOMAIN s /\ 1 \in DOMAIN s /\ i + 1 # 1 /\ s[i + 1] = x
    BY <1>1, <2>1
  <2>3. x # s[1]
    BY <2>2 DEF IsInjective
  <2> QED BY <2>2, <2>3 DEF Range
<1>5. ASSUME NEW x \in Range(s), x # Head(s) PROVE x \in Range(u)
  <2>1. PICK i \in 1 .. Len(s) : s[i] = x
    BY <1>1 DEF Range
  <2>2. i - 1 \in 1 .. Len(s) - 1 /\ (i - 1) + 1 = i
    BY <1>1, <1>5, <2>1
  <2> QED BY <1>1, <2>1, <2>2 DEF Range
<1>6. Range(u) = Range(s) \ {Head(s)}
  BY <1>4, <1>5
<1> QED BY <1>1, <1>2, <1>3, <1>6 DEF u

-----------------------------------------------------------------------------
(* The inductive invariant: where the queued requests are, which of them   *)
(* have been run, and that a worker leaves only a closed and empty channel. *)

Placed ==
  /\ \A r \in Range(jobs) \cup RunningJobs : handler[r] = "queued"
  /\ \A r \in Requests : handler[r] = "scanned" => r \in ran

Closed ==
  /\ \A w \in Workers : worker[w] = Gone => jobs = <<>> /\ ~open
  /\ main \in {"returning", "exited"} => ~pool /\ \A w \in Workers : worker[w] = Gone
  /\ Workers = {} => ~pool /\ jobs = <<>>

Inv == TypeOK /\ QueuedOnce /\ Placed /\ Closed

LEMMA InitInv == Init => Inv
<1> SUFFICES ASSUME Init PROVE Inv
  OBVIOUS
<1>1. Range(jobs) = {} /\ IsInjective(jobs) /\ Len(jobs) = 0 /\ jobs \in Seq(Requests)
  BY DEF Init, Range, IsInjective
<1>2. \A w \in Workers : worker[w] = Ranging /\ worker[w].at = "range" /\ worker[w] # Gone
  BY DEF Init, Ranging, Gone
<1>3. RunningJobs = {}
  BY <1>2 DEF RunningJobs
<1>4. TypeOK
  BY <1>1, PoolAssumption DEF Init, TypeOK, HandlerState
<1>5. QueuedOnce
  BY <1>1, <1>2, <1>3 DEF Init, QueuedOnce
<1>6. Placed
  BY <1>1, <1>3 DEF Init, Placed
<1>7. Closed
  BY <1>2 DEF Init, Closed
<1> QED BY <1>4, <1>5, <1>6, <1>7 DEF Inv

\* A worker's record is of one of three forms.
LEMMA WorkerForm ==
  ASSUME TypeOK, NEW w \in Workers
  PROVE  \/ worker[w] = Ranging /\ worker[w].at = "range" /\ worker[w] # Gone
         \/ worker[w] = Gone /\ worker[w].at = "gone"
         \/ /\ worker[w].at = "run" /\ worker[w] # Gone /\ worker[w] # Ranging
            /\ worker[w].job \in Requests /\ worker[w] = Running(worker[w].job)
BY DEF TypeOK, Ranging, Gone, Running

\* RunningJobs after a step of worker w.
LEMMA OneWorker ==
  ASSUME TypeOK, NEW w \in Workers, NEW new,
         worker' = [worker EXCEPT ![w] = new]
  PROVE  /\ worker'[w] = new
         /\ \A v \in Workers : v # w => worker'[v] = worker[v]
BY DEF TypeOK

\* The step of a handler that does not submit a job.
LEMMA HandlerMoves ==
  ASSUME Inv, NEW r \in Requests, NEW s \in HandlerState \ {"queued", "scanned"},
         handler[r] \notin {"queued", "scanned"},
         handler' = [handler EXCEPT ![r] = s],
         UNCHANGED <<pool, open, jobs, worker, main, ran>>
  PROVE  Inv'
<1>1. TypeOK'
  BY DEF Inv, TypeOK
<1>2. RunningJobs' = RunningJobs
  BY DEF RunningJobs
<1>3. {q \in Requests : handler[q] \in {"queued", "scanned"}}'
        = {q \in Requests : handler[q] \in {"queued", "scanned"}}
  BY DEF Inv, TypeOK
<1>4. QueuedOnce'
  BY <1>2, <1>3 DEF Inv, QueuedOnce
<1>5. Placed'
  BY <1>2 DEF Inv, Placed, TypeOK
<1>6. Closed'
  BY DEF Inv, Closed
<1> QED BY <1>1, <1>4, <1>5, <1>6 DEF Inv

LEMMA NextInv == Inv /\ [Next]_vars => Inv'
<1> SUFFICES ASSUME Inv, [Next]_vars PROVE Inv'
  OBVIOUS
<1> USE DEF HandlerState
<1>1. CASE UNCHANGED vars
  BY <1>1 DEF vars, Inv, TypeOK, QueuedOnce, Placed, Closed, RunningJobs
<1>2. ASSUME NEW r \in Requests, Admit(r) \/ TriggerScan(r) PROVE Inv'
  BY <1>2, HandlerMoves DEF Admit, TriggerScan
<1>3. ASSUME NEW r \in Requests, Enqueue(r) PROVE Inv'
  <2>1. CASE handler' = [handler EXCEPT ![r] = "panicked"] /\ UNCHANGED jobs
    BY <1>3, <2>1, HandlerMoves DEF Enqueue
  <2>2. CASE handler' = [handler EXCEPT ![r] = "unavailable"] /\ UNCHANGED jobs
    BY <1>3, <2>2, HandlerMoves DEF Enqueue
  <2>3. CASE /\ pool /\ open /\ Len(jobs) < QueueSize
             /\ jobs' = Append(jobs, r)
             /\ handler' = [handler EXCEPT ![r] = "queued"]
    <3>0. handler[r] = "enqueue" /\ UNCHANGED <<pool, open, worker, main, ran>>
      BY <1>3 DEF Enqueue
    <3>1. r \notin Range(jobs) \cup RunningJobs \cup ran
      BY <3>0 DEF Inv, QueuedOnce
    <3>2. /\ jobs' \in Seq(Requests) /\ Len(jobs') = Len(jobs) + 1
          /\ Range(jobs') = Range(jobs) \cup {r} /\ IsInjective(jobs')
      BY <2>3, <3>1, AppendRange DEF Inv, TypeOK, QueuedOnce
    <3>3. TypeOK'
      BY <2>3, <3>0, <3>2, PoolAssumption DEF Inv, TypeOK
    <3>4. RunningJobs' = RunningJobs
      BY <3>0 DEF RunningJobs
    <3>5. {q \in Requests : handler[q] \in {"queued", "scanned"}}'
            = {q \in Requests : handler[q] \in {"queued", "scanned"}} \cup {r}
      BY <2>3 DEF Inv, TypeOK
    <3>6. QueuedOnce'
      <4>1. \A w \in Workers : worker[w].at = "run" => worker[w].job \in RunningJobs
        BY DEF RunningJobs
      <4> QED BY <3>0, <3>1, <3>2, <3>4, <3>5, <4>1 DEF Inv, QueuedOnce
    <3>7. Placed'
      BY <2>3, <3>0, <3>1, <3>2, <3>4 DEF Inv, Placed, TypeOK
    <3>8. Closed'
      BY <2>3, <3>0 DEF Inv, Closed
    <3> QED BY <3>3, <3>6, <3>7, <3>8 DEF Inv
  <2> QED BY <1>3, <2>1, <2>2, <2>3 DEF Enqueue
<1>4. ASSUME NEW r \in Requests, RunInline(r) PROVE Inv'
  <2>0. /\ handler[r] = "inline" /\ handler' = [handler EXCEPT ![r] = "scanned"]
        /\ ran' = ran \cup {r} /\ UNCHANGED <<pool, open, jobs, worker, main>>
    BY <1>4 DEF RunInline
  <2>1. r \notin Range(jobs) \cup RunningJobs \cup ran
    BY <2>0 DEF Inv, QueuedOnce
  <2>2. RunningJobs' = RunningJobs /\ Range(jobs') = Range(jobs)
    BY <2>0 DEF RunningJobs
  <2>3. TypeOK'
    BY <2>0 DEF Inv, TypeOK
  <2>4. {q \in Requests : handler[q] \in {"queued", "scanned"}}'
          = {q \in Requests : handler[q] \in {"queued", "scanned"}} \cup {r}
    BY <2>0 DEF Inv, TypeOK
  <2>5. QueuedOnce'
    <3>1. \A w \in Workers : worker[w].at = "run" => worker[w].job \in RunningJobs
      BY DEF RunningJobs
    <3> QED BY <2>0, <2>1, <2>2, <2>4, <3>1 DEF Inv, QueuedOnce
  <2>6. Placed'
    BY <2>0, <2>1, <2>2 DEF Inv, Placed, TypeOK
  <2>7. Closed'
    BY <2>0 DEF Inv, Closed
  <2> QED BY <2>3, <2>5, <2>6, <2>7 DEF Inv
<1>5. ASSUME NEW w \in Workers, Take(w) PROVE Inv'
  <2>0. /\ worker[w] = Ranging /\ jobs # <<>> /\ jobs' = Tail(jobs)
        /\ worker' = [worker EXCEPT ![w] = Running(Head(jobs))]
        /\ UNCHANGED <<pool, open, handler, main, ran>>
    BY <1>5 DEF Take
  <2>1. /\ Head(jobs) \in Requests /\ jobs' \in Seq(Requests)
        /\ Len(jobs') = Len(jobs) - 1 /\ Head(jobs) \in Range(jobs)
        /\ Range(jobs') = Range(jobs) \ {Head(jobs)} /\ IsInjective(jobs')
    BY <2>0, TailRange DEF Inv, TypeOK, QueuedOnce
  <2>2. /\ worker'[w] = Running(Head(jobs))
        /\ \A v \in Workers : v # w => worker'[v] = worker[v]
    BY <2>0, OneWorker DEF Inv
  <2>3. /\ worker'[w].at = "run" /\ worker'[w].job = Head(jobs) /\ worker'[w] # Gone
        /\ worker[w].at # "run" /\ worker[w] # Gone
    BY <2>0, <2>2 DEF Running, Ranging, Gone
  <2>4. RunningJobs' = RunningJobs \cup {Head(jobs)}
    BY <2>2, <2>3 DEF RunningJobs
  <2>5. TypeOK'
    BY <2>0, <2>1, PoolAssumption DEF Inv, TypeOK
  <2>6. \A v \in Workers : worker[v].at = "run" => worker[v].job \in RunningJobs
    BY DEF RunningJobs
  <2>7. QueuedOnce'
    <3>1. ASSUME NEW v \in Workers, worker'[v].at = "run"
          PROVE  /\ worker'[v].job \notin Range(jobs') \cup ran'
                 /\ \A u \in Workers : worker'[u] = worker'[v] => u = v
      <4>1. Head(jobs) \notin ran /\ Head(jobs) \notin Range(jobs')
        BY <2>1 DEF Inv, QueuedOnce
      <4>2. CASE v = w
        <5>1. \A u \in Workers : u # w /\ worker[u].at = "run" => worker[u].job # Head(jobs)
          BY <2>1 DEF Inv, QueuedOnce
        <5> QED BY <2>0, <2>2, <2>3, <4>1, <4>2, <5>1
      <4>3. CASE v # w
        <5>1. worker'[v] = worker[v] /\ worker[v].job # Head(jobs)
          BY <2>1, <2>2, <3>1, <4>3 DEF Inv, QueuedOnce
        <5> QED BY <2>0, <2>1, <2>2, <2>3, <3>1, <4>3, <5>1 DEF Inv, QueuedOnce
      <4> QED BY <4>2, <4>3
    <3>2. Range(jobs') \cap ran' = {}
      BY <2>0, <2>1 DEF Inv, QueuedOnce
    <3>3. Range(jobs') \cup RunningJobs' \cup ran' = Range(jobs) \cup RunningJobs \cup ran
      BY <2>0, <2>1, <2>4
    <3> QED BY <2>0, <2>1, <3>1, <3>2, <3>3 DEF Inv, QueuedOnce
  <2>8. Placed'
    BY <2>0, <2>1, <2>4 DEF Inv, Placed
  <2>9. Closed'
    BY <2>0, <2>2, <2>3 DEF Inv, Closed
  <2> QED BY <2>5, <2>7, <2>8, <2>9 DEF Inv
<1>6. ASSUME NEW w \in Workers, RunScanJob(w) PROVE Inv'
  <2> DEFINE j == worker[w].job
  <2>0. /\ worker[w].at = "run" /\ ran' = ran \cup {j}
        /\ worker' = [worker EXCEPT ![w] = Ranging]
        /\ UNCHANGED <<pool, open, jobs, handler, main>>
    BY <1>6 DEF RunScanJob
  <2>1. /\ worker'[w] = Ranging
        /\ \A v \in Workers : v # w => worker'[v] = worker[v]
    BY <2>0, OneWorker DEF Inv
  <2>2. /\ j \in Requests /\ worker[w] # Gone /\ worker'[w].at # "run" /\ worker'[w] # Gone
    BY <2>0, <2>1, WorkerForm DEF Inv, Ranging, Gone
  <2>3. \A v \in Workers : v # w /\ worker[v].at = "run" => worker[v].job # j
    BY <2>0, WorkerForm DEF Inv, QueuedOnce
  <2>4. RunningJobs' = RunningJobs \ {j} /\ j \in RunningJobs
    BY <2>0, <2>1, <2>2, <2>3 DEF RunningJobs
  <2>5. TypeOK'
    BY <2>0, <2>2 DEF Inv, TypeOK
  <2>6. QueuedOnce'
    <3>1. j \notin Range(jobs)
      BY <2>0 DEF Inv, QueuedOnce
    <3>2. Range(jobs') \cup RunningJobs' \cup ran' = Range(jobs) \cup RunningJobs \cup ran
      BY <2>0, <2>4
    <3>3. ASSUME NEW v \in Workers, worker'[v].at = "run"
          PROVE  /\ worker'[v].job \notin Range(jobs') \cup ran'
                 /\ \A u \in Workers : worker'[u] = worker'[v] => u = v
      <4>1. v # w /\ worker'[v] = worker[v]
        BY <2>1, <2>2, <3>3
      <4> QED BY <2>0, <2>1, <2>2, <2>3, <3>3, <4>1 DEF Inv, QueuedOnce
    <3> QED BY <2>0, <3>1, <3>2, <3>3 DEF Inv, QueuedOnce
  <2>7. Placed'
    BY <2>0, <2>4 DEF Inv, Placed
  <2>8. Closed'
    BY <2>0, <2>1, <2>2 DEF Inv, Closed
  <2> QED BY <2>5, <2>6, <2>7, <2>8 DEF Inv
<1>7. ASSUME NEW w \in Workers, Leave(w) PROVE Inv'
  <2>0. /\ worker[w] = Ranging /\ jobs = <<>> /\ ~open
        /\ worker' = [worker EXCEPT ![w] = Gone]
        /\ UNCHANGED <<pool, open, jobs, handler, main, ran>>
    BY <1>7 DEF Leave
  <2>a. worker'[w] = Gone /\ \A v \in Workers : v # w => worker'[v] = worker[v]
    BY <2>0, OneWorker DEF Inv
  <2>1. /\ worker'[w] = Gone /\ worker'[w].at # "run" /\ worker[w].at # "run"
        /\ \A v \in Workers : v # w => worker'[v] = worker[v]
    BY <2>0, <2>a DEF Gone, Ranging
  <2>2. RunningJobs' = RunningJobs
    BY <2>1 DEF RunningJobs
  <2>3. TypeOK'
    BY <2>0 DEF Inv, TypeOK
  <2>4. QueuedOnce'
    <3>1. \A v \in Workers : worker'[v].at = "run" => v # w
      BY <2>1
    <3> QED BY <2>0, <2>1, <2>2, <3>1 DEF Inv, QueuedOnce
  <2>5. Placed'
    BY <2>0, <2>2 DEF Inv, Placed
  <2>6. Closed'
    BY <2>0, <2>1 DEF Inv, Closed
  <2> QED BY <2>3, <2>4, <2>5, <2>6 DEF Inv
<1>8. ASSUME Interrupt \/ CloseJobs \/ WorkersDone \/ Exit PROVE Inv'
  <2>1. UNCHANGED <<jobs, worker, handler, ran>> /\ RunningJobs' = RunningJobs
    BY <1>8 DEF Interrupt, CloseJobs, WorkersDone, Exit, RunningJobs
  <2>2. TypeOK'
    BY <1>8 DEF Interrupt, CloseJobs, WorkersDone, Exit, Inv, TypeOK
  <2>3. QueuedOnce' /\ Placed'
    BY <2>1 DEF Inv, QueuedOnce, Placed
  <2>4. Closed'
    BY <1>8 DEF Interrupt, CloseJobs, WorkersDone, Exit, Inv, Closed, TypeOK
  <2> QED BY <2>2, <2>3, <2>4 DEF Inv
<1> QED
  BY <1>1, <1>2, <1>3, <1>4, <1>5, <1>6, <1>7, <1>8
     DEF Next, HandlerStep, WorkerStep, MainStep, Exited

\* The strengthened invariant holds throughout: every accepted scan has one
\* place, and a closed pool has no place for more.
THEOREM InvHolds == Spec => []Inv
BY InitInv, NextInv, PTL DEF Spec

\* Each request answered "queued" is in one place and is run once
\* (workers.go:42, workers.go:33).
THEOREM NoJobLostOrDoubled == Spec => [](TypeOK /\ QueuedOnce)
<1>1. Inv => TypeOK /\ QueuedOnce
  BY DEF Inv
<1> QED BY <1>1, InvHolds, PTL

\* When Close has returned, every queued scan has been run (workers.go:52).
THEOREM CloseDrains == Spec => []Drained
<1>1. Inv => Drained
  <2> SUFFICES ASSUME Inv, main \in {"returning", "exited"}, NEW r \in Requests,
                      handler[r] = "queued"
               PROVE  r \in ran
    BY DEF Drained
  <2>1. jobs = <<>>
    BY DEF Inv, Closed
  <2>2. Range(jobs) = {}
    BY <2>1 DEF Range
  <2>3. \A w \in Workers : worker[w].at # "run"
    BY WorkerForm DEF Inv, Closed
  <2>4. RunningJobs = {}
    BY <2>3 DEF RunningJobs
  <2> QED BY <2>2, <2>4 DEF Inv, QueuedOnce
<1> QED BY <1>1, InvHolds, PTL

\* Both together: an accepted scan is never lost, doubled or left behind, for any
\* number of requests and workers and any queue size (workers.go:42-57).
THEOREM PoolKeepsJobs == Spec => []JobsKept
<1>1. TypeOK /\ QueuedOnce /\ Drained => JobsKept
  BY DEF JobsKept
<1> QED BY <1>1, NoJobLostOrDoubled, CloseDrains, PTL

-----------------------------------------------------------------------------
(* Refinement: a step of the pool is a step of JobService, or none.        *)

LEMMA ServiceInit == Init => Service!Init
<1> SUFFICES ASSUME Init PROVE Service!Init
  OBVIOUS
<1>1. RunningJobs = {}
  BY DEF Init, RunningJobs, Ranging
<1> QED BY <1>1 DEF Init, Service!Init

LEMMA ServiceStep == Inv /\ [Next]_vars => [Service!Next]_(Service!service)
<1> DEFINE finished == {r \in ran : handler[r] = "queued"}
<1> SUFFICES ASSUME Inv, [Next]_vars,
                    ~(jobs' = jobs /\ RunningJobs' = RunningJobs /\ finished' = finished)
             PROVE  Service!Next
  BY DEF Service!service
<1>1. CASE UNCHANGED vars \/ Interrupt \/ CloseJobs \/ WorkersDone \/ Exit
  BY <1>1 DEF vars, Interrupt, CloseJobs, WorkersDone, Exit, RunningJobs
<1>2. ASSUME NEW r \in Requests, NEW s \in HandlerState \ {"queued"},
             handler[r] # "queued", handler' = [handler EXCEPT ![r] = s],
             UNCHANGED <<jobs, worker>>, ran' \in {ran, ran \cup {r}}
      PROVE  FALSE
  <2>1. RunningJobs' = RunningJobs
    BY <1>2 DEF RunningJobs
  <2>2. finished' = finished
    BY <1>2 DEF Inv, TypeOK
  <2> QED BY <1>2, <2>1, <2>2
<1>3. ASSUME NEW r \in Requests, HandlerStep(r) PROVE Service!Next
  <2>1. CASE Admit(r) \/ TriggerScan(r) \/ RunInline(r)
    BY <1>2, <2>1 DEF Admit, TriggerScan, RunInline, HandlerState
  <2>2. CASE Enqueue(r)
    <3>1. CASE UNCHANGED jobs
      BY <1>2, <2>2, <3>1, AppendRange DEF Enqueue, HandlerState
    <3>2. CASE /\ jobs' = Append(jobs, r)
               /\ handler' = [handler EXCEPT ![r] = "queued"]
      <4>1. handler[r] = "enqueue" /\ UNCHANGED <<worker, ran>>
        BY <2>2 DEF Enqueue
      <4>2. r \notin Range(jobs) \cup RunningJobs \cup ran
        BY <4>1 DEF Inv, QueuedOnce
      <4>3. RunningJobs' = RunningJobs
        BY <4>1 DEF RunningJobs
      <4>4. finished' = finished
        BY <3>2, <4>1, <4>2 DEF Inv, TypeOK
      <4>5. {jobs[i] : i \in 1 .. Len(jobs)} = Range(jobs)
        BY DEF Inv, TypeOK, Range
      <4>6. r \in Requests \ Service!Known
        BY <4>2, <4>5 DEF Service!Known
      <4> QED BY <3>2, <4>3, <4>4, <4>6 DEF Service!Next, Service!Accept
    <3> QED BY <2>2, <3>1, <3>2 DEF Enqueue
  <2> QED BY <1>3, <2>1, <2>2 DEF HandlerStep
<1>4. ASSUME NEW w \in Workers, Take(w) PROVE Service!Next
  <2>1. /\ worker[w] = Ranging /\ jobs # <<>> /\ jobs' = Tail(jobs)
        /\ worker' = [worker EXCEPT ![w] = Running(Head(jobs))]
        /\ UNCHANGED <<handler, ran>>
    BY <1>4 DEF Take
  <2>2. /\ worker'[w] = Running(Head(jobs))
        /\ \A v \in Workers : v # w => worker'[v] = worker[v]
    BY <2>1, OneWorker DEF Inv
  <2>3. worker'[w].at = "run" /\ worker'[w].job = Head(jobs) /\ worker[w].at # "run"
    BY <2>1, <2>2 DEF Running, Ranging
  <2>4. RunningJobs' = RunningJobs \cup {Head(jobs)}
    BY <2>2, <2>3 DEF RunningJobs
  <2> QED BY <2>1, <2>4 DEF Service!Next, Service!Start
<1>5. ASSUME NEW w \in Workers, RunScanJob(w) PROVE Service!Next
  <2> DEFINE j == worker[w].job
  <2>1. /\ worker[w].at = "run" /\ ran' = ran \cup {j}
        /\ worker' = [worker EXCEPT ![w] = Ranging] /\ UNCHANGED <<jobs, handler>>
    BY <1>5 DEF RunScanJob
  <2>a. worker'[w] = Ranging /\ \A v \in Workers : v # w => worker'[v] = worker[v]
    BY <2>1, OneWorker DEF Inv
  <2>2. worker'[w].at # "run" /\ \A v \in Workers : v # w => worker'[v] = worker[v]
    BY <2>a DEF Ranging
  <2>3. \A v \in Workers : v # w /\ worker[v].at = "run" => worker[v].job # j
    BY <2>1, WorkerForm DEF Inv, QueuedOnce
  <2>4. RunningJobs' = RunningJobs \ {j} /\ j \in RunningJobs
    BY <2>1, <2>2, <2>3 DEF RunningJobs
  <2>5. handler[j] = "queued"
    BY <2>4 DEF Inv, Placed
  <2>6. finished' = finished \cup {j}
    BY <2>1, <2>5
  <2> QED BY <2>1, <2>4, <2>6 DEF Service!Next, Service!Finish
<1>6. ASSUME NEW w \in Workers, Leave(w) PROVE Service!Next
  <2>1. /\ worker[w] = Ranging /\ worker' = [worker EXCEPT ![w] = Gone]
        /\ UNCHANGED <<jobs, handler, ran>>
    BY <1>6 DEF Leave
  <2>2. /\ worker'[w].at # "run" /\ worker[w].at # "run"
        /\ \A v \in Workers : v # w => worker'[v] = worker[v]
    BY <2>1, OneWorker DEF Inv, Gone, Ranging
  <2>3. RunningJobs' = RunningJobs
    BY <2>2 DEF RunningJobs
  <2> QED BY <2>1, <2>3
<1> QED
  BY <1>1, <1>3, <1>4, <1>5, <1>6 DEF Next, WorkerStep, MainStep, Exited

\* The worker pool implements the job service: it accepts, starts in order and
\* finishes jobs as JobService does (its fairness is left to TLC).
THEOREM Refinement == Spec => Service!Spec
BY InvHolds, ServiceInit, ServiceStep, PTL DEF Spec, Service!Spec
=============================================================================
