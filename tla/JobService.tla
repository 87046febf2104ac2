----------------------------- MODULE JobService ------------------------------
(***************************************************************************)
(* What the worker pool promises (docs/performance.md): a job that was     *)
(* accepted waits its turn, is taken in the order of acceptance, runs once *)
(* and finishes.  A job that was not accepted never runs.                  *)
(***************************************************************************)
EXTENDS Naturals, Sequences

CONSTANT Jobs

VARIABLES
  waiting,     \* accepted jobs in the order of acceptance
  running,     \* jobs being run
  finished     \* jobs that have run

service == <<waiting, running, finished>>

Init == waiting = <<>> /\ running = {} /\ finished = {}

Known == {waiting[i] : i \in 1 .. Len(waiting)} \cup running \cup finished

Accept ==
  \E j \in Jobs \ Known :
    /\ waiting' = Append(waiting, j)
    /\ UNCHANGED <<running, finished>>

Start ==
  /\ waiting # <<>>
  /\ running' = running \cup {Head(waiting)}
  /\ waiting' = Tail(waiting)
  /\ UNCHANGED finished

Finish ==
  \E j \in running :
    /\ running' = running \ {j}
    /\ finished' = finished \cup {j}
    /\ UNCHANGED waiting

Next == Accept \/ Start \/ Finish

Spec     == Init /\ [][Next]_service
FairSpec == Spec /\ WF_service(Start) /\ WF_service(Finish)
=============================================================================
