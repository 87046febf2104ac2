------------------------------ MODULE MCStores -------------------------------
(***************************************************************************)
(* Instances of what the stores keep and answer: FleetView, Paging over    *)
(* either store, FindingQuery, and the writes of PgStore.  A behaviour is  *)
(* one of one of them; the others rest.                                    *)
(***************************************************************************)
EXTENDS FleetView, SequencesExt

CONSTANTS Cluster, Findings, Before, Ops                           \* PgStore

VARIABLES
  job,                                                             \* which one
  lists, now, walk, total, got, there, landed, deletes, faults,    \* Paging
  scope, raw, resp,                                                \* FindingQuery
  op, cluster, old, tenant, clusters, rows, newest, history, lifecycle, stmt, seen,
  cleared, owns, updates, todo, result, overlap                    \* PgStore

MCOrder == <<"c1", "c2">>

\* An array that grows one element at a time doubles its capacity.
MCCap == [n \in 0..MaxBreaches |-> Min({m \in {0, 1, 2, 4} : m >= n})]

Mem == INSTANCE Paging WITH Backend <- "mem", Limits <- {1, 2}, IntBits <- 6,
  DefaultLimit <- 2, MaxPage <- 4, MaxScans <- 4, MaxTime <- 1, MaxDeletes <- 1, MaxFaults <- 0
Pg  == INSTANCE Paging WITH Backend <- "pg", Limits <- {1, 2}, IntBits <- 6,
  DefaultLimit <- 2, MaxPage <- 4, MaxScans <- 3, MaxTime <- 2, MaxDeletes <- 1, MaxFaults <- 1

-----------------------------------------------------------------------------
(* Reports of up to three of four findings, two of them alike in all but    *)
(* their resource, in every order.                                          *)

F(id, severity, rank, category, cat, ns, fws, text) ==
  [id |-> id, severity |-> severity, rank |-> rank, category |-> category, cat |-> cat,
   namespace |-> ns, frameworks |-> fws, text |-> text]

Pool ==
  {F(1, "high", 4, "rbac", 2, "n1", {"cis"}, {"pod", "a"}),
   F(1, "high", 4, "rbac", 2, "n2", {"cis"}, {"pod", "b"}),
   F(2, "low", 2, "net", 1, "n1", {"nsa"}, {"pod"}),
   F(3, "high", 4, "net", 1, "n2", {"cis", "nsa"}, {"svc"})}

SmallReports == UNION {SetToSeqs(S) : S \in {S \in SUBSET Pool : Cardinality(S) <= 3}}

Request(sev, category, ns, fw, search, sort, order) ==
  [severities |-> sev, category |-> category, namespace |-> ns, framework |-> fw,
   search |-> search, sort |-> sort, order |-> order]

SmallRequests ==
  {Request({}, "", "", "", "", sort, order) : sort \in {"", "id", "category"}, order \in {"", "asc"}}
  \cup {Request({"high"}, "", "", "", "", "", ""), Request({"high", "low"}, "net", "", "", "", "id", "desc"),
        Request({}, "", "n1", "", "", "", "asc"), Request({}, "", "", "nsa", "", "category", ""),
        Request({"none"}, "", "", "", "", "", ""), Request({}, "", "", "cis", "pod", "", "")}

Find == INSTANCE FindingQuery WITH reps <- scope, Reports <- SmallReports,
  Requests <- SmallRequests, IntBits <- 5, DefaultLimit <- 2, MaxPage <- 4

-----------------------------------------------------------------------------
\* A call is named by the scan it may record.
Write == INSTANCE PgStore WITH Calls <- Scans, Clusters <- {Cluster},
           scans <- rows, latest <- newest, pc <- stmt

tables == <<op, cluster, old, tenant, clusters, rows, newest, history, lifecycle, stmt, seen,
            cleared, owns, updates, todo, result, overlap>>

NoWrite == /\ op = <<>> /\ cluster = <<>> /\ old = {} /\ tenant = TRUE /\ clusters = {}
           /\ rows = {} /\ newest = {} /\ history = {} /\ lifecycle = <<>> /\ stmt = <<>>
           /\ seen = <<>> /\ cleared = <<>> /\ owns = <<>> /\ updates = <<>>
           /\ todo = <<>> /\ result = <<>> /\ overlap = <<>>

-----------------------------------------------------------------------------
pages == <<lists, now, walk, total, got, there, landed, deletes, faults>>
query == <<scope, raw, resp>>

NoWalk  == lists = <<>> /\ now = 0 /\ walk = [pc |-> "idle"] /\ total = 0 /\ got = <<>>
           /\ there = <<>> /\ landed = 0 /\ deletes = 0 /\ faults = 0
NoQuery == scope = <<>> /\ raw = <<>> /\ resp = <<>>

StoresInit ==
  /\ Init
  /\ \/ job = "fleet" /\ NoWalk /\ NoQuery /\ NoWrite
     \/ job = "mem" /\ Mem!Init /\ NoQuery /\ NoWrite
     \/ job = "pg" /\ Pg!Init /\ NoQuery /\ NoWrite
     \/ job = "find" /\ NoWalk /\ Find!Init /\ NoWrite
     \/ job = "write" /\ NoWalk /\ NoQuery /\ Write!Init

StoresNext ==
  \/ job = "fleet" /\ Next /\ UNCHANGED <<job, pages, query, tables>>
  \/ job = "mem" /\ Mem!Next /\ UNCHANGED <<job, vars, query, tables>>
  \/ job = "pg" /\ Pg!Next /\ UNCHANGED <<job, vars, query, tables>>
  \/ job = "find" /\ Find!Next /\ UNCHANGED <<job, vars, pages, tables>>
  \/ job = "write" /\ Write!Next /\ UNCHANGED <<job, vars, pages, query>>

StoresSpec == StoresInit /\ [][StoresNext]_<<job, vars, pages, query, tables>>

\* ListScans is documented as "newest first ... paginated": with the in-memory
\* store, a client that walks to the end receives every scan the store held when
\* it began, unless a cluster was removed (memstore.go: ListScans).
NoScanMissed == job = "mem" => Mem!NoScanMissed

\* The pages of an undisturbed walk are the listing; with Postgres, up to the order
\* of the scans of one second (pg.go: ListScans).
PagesTile ==
  /\ job = "mem" => Mem!PagesTile
  /\ job = "pg" => Pg!PagesTile

\* An answer to GET /v1/findings has the right total and the right findings at the
\* right places, and no request inside the listing is refused or cut short
\* (api.go: filterFindings, sortFindings, paginate).
PageIsRight == job = "find" => Find!PageIsRight

\* A cluster that has scans in Postgres keeps a latest one, two latest ones come of
\* overlapping transactions only, and a transaction that was lost left nothing
\* behind (pg.go: RecordScan, DeleteCluster, Retention).
ScansWhole == job = "write" => Write!ScansWhole

\* A seed never changes a row that is there (pg.go: SeedFindings).
SeedKeepsTriage == Write!SeedKeepsTriage

Symmetry == Permutations(Scans)
=============================================================================
