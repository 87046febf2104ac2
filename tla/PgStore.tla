------------------------------- MODULE PgStore -------------------------------
(***************************************************************************)
(* The Postgres store (dashboard/pg/pg.go) under concurrent callers, of    *)
(* one process or several.  Every statement runs at READ COMMITTED: it     *)
(* sees the rows committed when it starts, waits for rows that an open     *)
(* transaction has changed, and then looks at those rows again.  Only      *)
(* RecordScan is a transaction of several statements; a deletion, an       *)
(* erasure and a registration commit each statement by itself.             *)
(* One tenant's partition is modelled: every statement but the retention's *)
(* has tenant = $1 in its condition.  A scan is named by the call that     *)
(* records it, as scan ids are fresh.                                      *)
(***************************************************************************)
EXTENDS Naturals, FiniteSets

CONSTANTS
  Calls, Clusters, Findings,
  Before,       \* the scans recorded before
  Ops           \* the operations the calls are taken from: any of "register",
                \* "provision", "scan", "triage", "delete", "erase", "retention"

VARIABLES
  op, cluster,  \* what each call does, and to which cluster
  old,          \* the scans that started before the retention's cutoff
  tenant,       \* the tenants row is there
  clusters,     \* ids with a clusters row
  scans,        \* ids with a scans row
  latest,       \* those with is_latest
  history,      \* scan ids with a history row
  lifecycle,    \* state of each finding_lifecycle row, "none" without one
  pc,           \* the statement each call is at
  seen,         \* the rows in the snapshot of its statement
  cleared,      \* open transaction: the scans whose is_latest it has cleared
  owns,         \* open transaction: it has inserted the clusters row
  updates,      \* open transaction: it has updated the clusters row
  todo,         \* the findings it has yet to seed
  result,       \* what it came to: "none", "committed" or "lost"
  overlap       \* history: the scans under way when it began

ScanIds == Calls \cup Before

request == <<op, cluster, old>>
tables  == <<tenant, clusters, scans, latest, history, lifecycle>>
tx      == <<cleared, owns, updates>>
vars    == <<request, tables, pc, seen, tx, todo, result, overlap>>

Init ==
  /\ op \in [Calls -> Ops]
  /\ cluster \in [ScanIds -> Clusters]
  /\ old \in SUBSET (Before \cup {p \in Calls : op[p] = "scan"})
  /\ tenant = TRUE
  /\ clusters \in {C \in SUBSET Clusters : \A s \in Before : cluster[s] \in C}
  /\ scans = Before /\ history = Before
  /\ latest \in {L \in SUBSET Before :
                  \A s \in Before : \E t \in L : {u \in L : cluster[u] = cluster[s]} = {t}}
  /\ lifecycle = [k \in Clusters \X Findings |-> "none"]
  /\ pc = [p \in Calls |-> "idle"]
  /\ seen = [p \in Calls |-> {}]
  /\ cleared = [p \in Calls |-> {}]
  /\ owns = [p \in Calls |-> FALSE]
  /\ updates = [p \in Calls |-> FALSE]
  /\ todo = [p \in Calls |-> Findings]
  /\ result = [s \in ScanIds |-> IF s \in Before THEN "committed" ELSE "none"]
  /\ overlap = [s \in ScanIds |-> {}]

At(p, o, s)  == op[p] = o /\ pc[p] = s
Goto(p, s)   == pc' = [pc EXCEPT ![p] = s]
ScansOf(C)   == {s \in scans : cluster[s] \in C}

\* A clusters row that an open transaction has inserted, or updated: others wait.
Inserting(c) == \E q \in Calls : owns[q] /\ cluster[q] = c
Updating(c)  == \E q \in Calls : updates[q] /\ cluster[q] = c

-----------------------------------------------------------------------------
(* RecordScan, then SeedFindings, as runScanWithID calls them.             *)

InTx == {"snapshot", "clear", "insert", "commit"}

\* INSERT INTO clusters ... ON CONFLICT DO NOTHING.
InsertCluster(p) ==
  /\ At(p, "scan", "idle")
  /\ ~Inserting(cluster[p])
  /\ owns' = [owns EXCEPT ![p] = cluster[p] \notin clusters]
  /\ overlap' = [overlap EXCEPT ![p] = {q \in Calls : op[q] = "scan" /\ pc[q] \in InTx}]
  /\ Goto(p, "snapshot")
  /\ UNCHANGED <<request, tables, seen, cleared, updates, todo, result>>

\* UPDATE scans SET is_latest = false: the rows it finds, ...
SeeLatest(p) ==
  /\ At(p, "scan", "snapshot")
  /\ seen' = [seen EXCEPT ![p] = ScansOf({cluster[p]}) \cap latest]
  /\ Goto(p, "clear")
  /\ UNCHANGED <<request, tables, tx, todo, result, overlap>>

\* ... and the ones that still qualify when nobody else holds them.
ClearLatest(p) ==
  /\ At(p, "scan", "clear")
  /\ \A q \in Calls : cleared[q] \cap seen[p] = {}
  /\ cleared' = [cleared EXCEPT ![p] = seen[p] \cap latest]
  /\ Goto(p, "insert")
  /\ UNCHANGED <<request, tables, seen, owns, updates, todo, result, overlap>>

\* The inserts into scans and history show nothing before the commit; the
\* update of the clusters row takes its lock if there is a row.
UpdateCluster(p) ==
  /\ At(p, "scan", "insert")
  /\ ~Updating(cluster[p])
  /\ updates' = [updates EXCEPT ![p] = owns[p] \/ cluster[p] \in clusters]
  /\ Goto(p, "commit")
  /\ UNCHANGED <<request, tables, seen, cleared, owns, todo, result, overlap>>

Release(p) ==
  /\ cleared' = [cleared EXCEPT ![p] = {}]
  /\ owns' = [owns EXCEPT ![p] = FALSE]
  /\ updates' = [updates EXCEPT ![p] = FALSE]

Commit(p) ==
  /\ At(p, "scan", "commit")
  /\ scans' = scans \cup {p}
  /\ latest' = (latest \ cleared[p]) \cup {p}
  /\ history' = history \cup {p}
  /\ clusters' = IF owns[p] THEN clusters \cup {cluster[p]} ELSE clusters
  /\ Release(p)
  /\ result' = [result EXCEPT ![p] = "committed"]
  /\ Goto(p, "seed")
  /\ UNCHANGED <<request, tenant, lifecycle, seen, todo, overlap>>

\* Faulty variant: the flags stay cleared.
Rollback_keepsClear(p) ==
  /\ op[p] = "scan" /\ pc[p] \in InTx
  /\ Release(p)
  /\ latest' = latest \ cleared[p]
  /\ result' = [result EXCEPT ![p] = "lost"]
  /\ Goto(p, "seed")
  /\ UNCHANGED <<request, tenant, clusters, scans, history, lifecycle, seen, todo, overlap>>

\* A statement or the commit fails: logged, rolled back, and the caller is told
\* of a succeeded scan all the same.
Rollback(p) ==
  /\ op[p] = "scan" /\ pc[p] \in InTx
  /\ Release(p)
  /\ result' = [result EXCEPT ![p] = "lost"]
  /\ Goto(p, "seed")
  /\ UNCHANGED <<request, tables, seen, todo, overlap>>

\* Faulty variant: the conflict is resolved by an update.
SeedFinding_overwrites(p) ==
  /\ At(p, "scan", "seed")
  /\ \E f \in todo[p] :
       /\ lifecycle' = [lifecycle EXCEPT ![<<cluster[p], f>>] = "open"]
       /\ todo' = [todo EXCEPT ![p] = @ \ {f}]
  /\ UNCHANGED <<request, tenant, clusters, scans, latest, history, pc, seen, tx, result, overlap>>

\* INSERT INTO finding_lifecycle ... ON CONFLICT DO NOTHING, one by one; an
\* error ends the loop.
SeedFinding(p) ==
  /\ At(p, "scan", "seed")
  /\ \E f \in todo[p] :
       /\ lifecycle' = [lifecycle EXCEPT ![<<cluster[p], f>>] = IF @ = "none" THEN "open" ELSE @]
       /\ todo' = [todo EXCEPT ![p] = @ \ {f}]
  /\ UNCHANGED <<request, tenant, clusters, scans, latest, history, pc, seen, tx, result, overlap>>

SeedDone(p) ==
  /\ At(p, "scan", "seed")
  /\ Goto(p, "done")
  /\ UNCHANGED <<request, tables, seen, tx, todo, result, overlap>>

ScanStep(p) ==
  \/ InsertCluster(p) \/ SeeLatest(p) \/ ClearLatest(p) \/ UpdateCluster(p)
  \/ Commit(p) \/ Rollback(p) \/ SeedFinding(p) \/ SeedDone(p)

-----------------------------------------------------------------------------
(* DeleteCluster and DeleteTenant.                                         *)

Deletes(p) == op[p] \in {"delete", "erase"}
Targets(p) == IF op[p] = "erase" THEN Clusters ELSE {cluster[p]}

DeleteLifecycle(p) ==
  /\ Deletes(p) /\ pc[p] = "idle"
  /\ lifecycle' = [k \in DOMAIN lifecycle |-> IF k[1] \in Targets(p) THEN "none" ELSE lifecycle[k]]
  /\ Goto(p, "history")
  /\ UNCHANGED <<request, tenant, clusters, scans, latest, history, seen, tx, todo, result, overlap>>

DeleteHistory(p) ==
  /\ Deletes(p) /\ pc[p] = "history"
  /\ history' = {s \in history : cluster[s] \notin Targets(p)}
  /\ Goto(p, "seeScans")
  /\ UNCHANGED <<request, tenant, clusters, scans, latest, lifecycle, seen, tx, todo, result, overlap>>

\* DELETE FROM scans: the rows it finds, and when nobody holds one of them the
\* ones that are still there.
SeeScans(p) ==
  /\ Deletes(p) /\ pc[p] = "seeScans"
  /\ seen' = [seen EXCEPT ![p] = ScansOf(Targets(p))]
  /\ Goto(p, "scans")
  /\ UNCHANGED <<request, tables, tx, todo, result, overlap>>

DeleteScans(p) ==
  /\ Deletes(p) /\ pc[p] = "scans"
  /\ \A q \in Calls : cleared[q] \cap seen[p] = {}
  /\ scans' = scans \ seen[p]
  /\ latest' = latest \ seen[p]
  /\ Goto(p, "seeClusters")
  /\ UNCHANGED <<request, tenant, clusters, history, lifecycle, seen, tx, todo, result, overlap>>

SeeClusters(p) ==
  /\ Deletes(p) /\ pc[p] = "seeClusters"
  /\ seen' = [seen EXCEPT ![p] = Targets(p) \cap clusters]
  /\ Goto(p, "clusters")
  /\ UNCHANGED <<request, tables, tx, todo, result, overlap>>

DeleteClusters(p) ==
  /\ Deletes(p) /\ pc[p] = "clusters"
  /\ \A c \in seen[p] : ~Updating(c)
  /\ clusters' = clusters \ seen[p]
  /\ result' = [result EXCEPT ![p] = IF op[p] = "delete" /\ seen[p] \cap clusters # {}
                                       THEN "committed" ELSE @]
  /\ Goto(p, IF op[p] = "delete" THEN "done" ELSE "tenant")
  /\ UNCHANGED <<request, tenant, scans, latest, history, lifecycle, seen, tx, todo, overlap>>

DeleteTenantRow(p) ==
  /\ At(p, "erase", "tenant")
  /\ tenant' = FALSE
  /\ result' = [result EXCEPT ![p] = "committed"]
  /\ Goto(p, "done")
  /\ UNCHANGED <<request, clusters, scans, latest, history, lifecycle, seen, tx, todo, overlap>>

\* A statement fails: what the earlier ones have deleted stays deleted.
DeleteFails(p) ==
  /\ Deletes(p) /\ pc[p] # "done"
  /\ Goto(p, "done")
  /\ UNCHANGED <<request, tables, seen, tx, todo, result, overlap>>

DeleteStep(p) ==
  \/ DeleteLifecycle(p) \/ DeleteHistory(p) \/ SeeScans(p) \/ DeleteScans(p)
  \/ SeeClusters(p) \/ DeleteClusters(p) \/ DeleteTenantRow(p) \/ DeleteFails(p)

-----------------------------------------------------------------------------
(* The other operations; an error leaves the tables as they are.           *)

\* RegisterCluster goes on to its second statement whatever came of the first.
RegisterTenant(p) ==
  /\ At(p, "register", "idle")
  /\ tenant' \in {tenant, TRUE}
  /\ Goto(p, "cluster")
  /\ UNCHANGED <<request, clusters, scans, latest, history, lifecycle, seen, tx, todo, result, overlap>>

RegisterCluster(p) ==
  /\ At(p, "register", "cluster")
  /\ ~Inserting(cluster[p])
  /\ clusters' \in {clusters, clusters \cup {cluster[p]}}
  /\ Goto(p, "done")
  /\ UNCHANGED <<request, tenant, scans, latest, history, lifecycle, seen, tx, todo, result, overlap>>

ProvisionTenant(p) ==
  /\ At(p, "provision", "idle")
  /\ tenant' \in {tenant, TRUE}
  /\ Goto(p, "done")
  /\ UNCHANGED <<request, clusters, scans, latest, history, lifecycle, seen, tx, todo, result, overlap>>

UpsertLifecycle(p) ==
  /\ At(p, "triage", "idle")
  /\ \E f \in Findings :
       lifecycle' \in {lifecycle, [lifecycle EXCEPT ![<<cluster[p], f>>] = "triaged"]}
  /\ Goto(p, "done")
  /\ UNCHANGED <<request, tenant, clusters, scans, latest, history, seen, tx, todo, result, overlap>>

RetentionScans(p) ==
  /\ At(p, "retention", "idle")
  /\ \/ scans' = scans \ (old \ latest) /\ Goto(p, "history")
     \/ scans' = scans /\ Goto(p, "done")
  /\ UNCHANGED <<request, tenant, clusters, latest, history, lifecycle, seen, tx, todo, result, overlap>>

RetentionHistory(p) ==
  /\ At(p, "retention", "history")
  /\ history' \in {history, history \ old}
  /\ Goto(p, "done")
  /\ UNCHANGED <<request, tenant, clusters, scans, latest, lifecycle, seen, tx, todo, result, overlap>>

OtherStep(p) ==
  \/ RegisterTenant(p) \/ RegisterCluster(p) \/ ProvisionTenant(p)
  \/ UpsertLifecycle(p) \/ RetentionScans(p) \/ RetentionHistory(p)

Step(p) == ScanStep(p) \/ DeleteStep(p) \/ OtherStep(p)
Done == (\A p \in Calls : pc[p] = "done") /\ UNCHANGED vars
Next == (\E p \in Calls : Step(p)) \/ Done

Spec == Init /\ [][Next]_vars

-----------------------------------------------------------------------------
TypeOK ==
  /\ op \in [Calls -> Ops] /\ cluster \in [ScanIds -> Clusters] /\ old \subseteq ScanIds
  /\ tenant \in BOOLEAN /\ clusters \subseteq Clusters
  /\ scans \subseteq ScanIds /\ latest \subseteq scans /\ history \subseteq ScanIds
  /\ lifecycle \in [Clusters \X Findings -> {"none", "open", "triaged"}]
  /\ pc \in [Calls -> InTx \cup {"idle", "seed", "history", "seeScans", "scans",
                                  "seeClusters", "clusters", "tenant", "cluster", "done"}]
  /\ seen \in [Calls -> SUBSET (ScanIds \cup Clusters)]
  /\ cleared \in [Calls -> SUBSET ScanIds]
  /\ owns \in [Calls -> BOOLEAN] /\ updates \in [Calls -> BOOLEAN]
  /\ todo \in [Calls -> SUBSET Findings]
  /\ result \in [ScanIds -> {"none", "committed", "lost"}]
  /\ overlap \in [ScanIds -> SUBSET Calls]

LatestKept == \A s \in scans : \E t \in latest : cluster[t] = cluster[s]

LatestOverlap ==
  \A s, t \in latest :
    cluster[s] = cluster[t] => s = t \/ s \in overlap[t] \/ t \in overlap[s]

LostLeavesNothing == \A p \in scans \cup history : result[p] = "committed"

\* "The latest scan per cluster is always kept so the lenses keep rendering"
\* (pg.go:352): a cluster with a scan has one that Report finds, whatever
\* scans, failures, deletions and prunings are under way.  Two scans of a cluster
\* are both the latest only when their transactions overlapped (pg.go:217 does
\* not see the other's row): the next scan clears both.  And a row exists as the
\* outcome of a scan that was told so: what a rolled back transaction wrote is
\* never seen (pg.go:209).
ScansWhole == TypeOK /\ LatestKept /\ LatestOverlap /\ LostLeavesNothing

\* A scan does not touch a row that somebody has triaged (pg.go:405).
SeedKeepsTriage ==
  [][\A k \in DOMAIN lifecycle : lifecycle[k] = "triaged" =>
       lifecycle'[k] # "open"]_vars

-----------------------------------------------------------------------------
(* What documents and comments say that the code does not do.              *)

\* RecordScan "flips the latest pointer" (pg.go:191): a cluster has one latest
\* scan.
LatestUnique == \A s, t \in latest : cluster[s] = cluster[t] => s = t
=============================================================================
