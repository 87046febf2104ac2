------------------------------ MODULE MCTriage -------------------------------
(***************************************************************************)
(* An instance of TriageLane.  A behaviour is of one of two kinds: many    *)
(* calls on one cluster's rows, with no request for the lane, or a request *)
(* for the lane while two calls work on two clusters.                      *)
(***************************************************************************)
EXTENDS TriageLane, TLC

VARIABLE job   \* the kind, "rows" or "lane"

allFleet == {<<>>}
C1 == CHOOSE c \in Clusters : TRUE

Entered == {p \in Calls : pc'[p] # "idle"}

RowsOnly ==
  /\ UNCHANGED laneVars
  /\ \A p \in Entered : /\ req'[p].op # "delete"
                        /\ "cluster" \in DOMAIN req'[p] => req'[p].cluster = C1

LaneOnly ==
  \A p \in Entered : \/ req'[p].op \in {"cron", "delete"}
                     \/ req'[p].op = "triage" /\ req'[p].cluster = C1
                     \/ req'[p].op = "waive" /\ req'[p].cluster = C1
                        /\ (req'[p].until = 2 \/ pc'[p] = "badRequest")

\* In the second kind one call was a waiver for too long, and has been refused.
TooLong == [op |-> "waive", tenant |-> Home, cluster |-> C1,
            finding |-> CHOOSE f \in Findings : TRUE, until |-> 3]

\* The clusters are configured in one of their orders, which no row depends on.
TriageInit ==
  /\ \/ job = "rows" /\ Init /\ NoLane
     \/ /\ job = "lane" /\ NoLane
        /\ StoreInit(Home, Configured)
        /\ sources = Configured
        /\ audit = [t \in Tenants |-> {}]
        /\ gauge = [c \in Clusters |-> {}]
        /\ clock = 1
        /\ \E r \in Calls :
             /\ pc = [p \in Calls |-> IF p = r THEN "badRequest" ELSE "idle"]
             /\ req = [p \in Calls |-> IF p = r THEN TooLong ELSE NoRequest]
        /\ local = [p \in Calls |-> NoLocal]
  /\ order[Home] = CHOOSE ids \in Listings(Configured) : TRUE

TriageNext ==
  /\ job' = job
  /\ \/ job = "rows" /\ Next /\ RowsOnly
     \/ job = "lane" /\ LaneNext /\ LaneOnly

TriageSpec == TriageInit /\ [][TriageNext]_<<allVars, job>>

Symmetry == Permutations(Calls)
=============================================================================
