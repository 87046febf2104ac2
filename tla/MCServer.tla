------------------------------ MODULE MCServer -------------------------------
(***************************************************************************)
(* Instances of WorkerPool and of Dashboard, for what comes to an end.  A   *)
(* behaviour is of one of two kinds: the pool with requests and a shutdown, *)
(* or the handlers of calls of every kind.  The other one rests.            *)
(***************************************************************************)
EXTENDS WorkerPool

CONSTANTS Tenants, Clusters, Findings, Calls, Home, Configured, Ops,
          Deadlines, MaxWaiver, MaxTime

VARIABLES
  job,     \* the kind, "pool" or "calls"
  tenants, clusters, order, lifecycle, sources, audit, gauge, clock, pc, req, local

D == INSTANCE Dashboard

dashboard == <<tenants, clusters, order, lifecycle, sources, audit, gauge, clock, pc, req, local>>

ServerInit == job \in {"pool", "calls"} /\ Init /\ D!Init

ServerNext ==
  \/ job = "pool" /\ Next /\ UNCHANGED <<job, dashboard>>
  \/ job = "calls" /\ D!Next /\ UNCHANGED <<job, vars>>

\* Workers, the main goroutine and entered handlers keep being scheduled.
ServerSpec ==
  /\ ServerInit /\ [][ServerNext]_<<job, vars, dashboard>>
  /\ Fairness
  /\ D!Fairness

\* Every call that was entered returns, whatever its kind, however many attempts
\* its scan takes and whatever the others do to the store (api.go, tenants_api.go,
\* lifecycle_api.go).
CallsReturn == D!CallsReturn
=============================================================================
