------------------------------ MODULE MemStore -------------------------------
(***************************************************************************)
(* The in-memory, tenant-partitioned store of the dashboard                *)
(* (dashboard/memstore.go).  Every method takes the store's mutex for the  *)
(* whole of its body, so each is one atomic change of the four variables;  *)
(* what is not atomic is a handler, which calls several of them (Api,      *)
(* ScanRun and Triage).                                                    *)
(*                                                                         *)
(* A report is the set of finding identities it carries (check id and      *)
(* resource).  The summaries the code derives from a report (counts, pass  *)
(* rates, severities) are represented by the report they are computed      *)
(* from.  A lifecycle key, in the code a hash over cluster, check and      *)
(* resource, is the pair <<cluster, finding>>.                             *)
(***************************************************************************)
EXTENDS Lifecycle, Sequences, Functions

CONSTANTS
  Tenants,     \* tenant ids
  Clusters,    \* cluster ids
  Findings,    \* finding identities within a cluster
  Calls        \* one id per request or cron firing; it is also the scan's id

VARIABLES
  tenants,     \* the tenants that have a partition
  clusters,    \* clusters[t]: the state of each cluster registered in t
  order,       \* order[t]: cluster ids in registration order
  lifecycle    \* lifecycle[t]: the triage row of each tracked key

store == <<tenants, clusters, order, lifecycle>>

Report == SUBSET Findings
Keys   == Clusters \X Findings

\* One Scan and its HistorySnapshot.
ScanEntry == [id : Calls, at : Nat, rep : Report]

clusterState ==
  [ hasScan    : BOOLEAN,
    latest     : Report,
    lastScanAt : Nat,
    scans      : Seq(ScanEntry),     \* newest first
    history    : Seq(ScanEntry) ]    \* oldest first

-----------------------------------------------------------------------------
EmptyMap == [x \in {} |-> x]
Put(f, k, v) == [x \in DOMAIN f \cup {k} |-> IF x = k THEN v ELSE f[x]]

NewCluster ==
  [ hasScan |-> FALSE, latest |-> {}, lastScanAt |-> Never,
    scans |-> <<>>, history |-> <<>> ]

\* The list without the first of its entries that is c.
Without(ids, c) ==
  LET i == Min({j \in DOMAIN ids : ids[j] = c})
  IN  IF c \in Range(ids)
        THEN [j \in 1..(Len(ids) - 1) |-> IF j < i THEN ids[j] ELSE ids[j + 1]]
        ELSE ids

\* The lists that name every member of S once.
Listings(S) == {ids \in [1..Cardinality(S) -> S] : IsInjective(ids) /\ Range(ids) = S}

GetCluster(t, c) == c \in DOMAIN clusters[t]

\* The report of one cluster, {} standing for (Report{}, false).
LatestReport(t, c) ==
  IF GetCluster(t, c) /\ clusters[t][c].hasScan THEN clusters[t][c].latest ELSE {}

-----------------------------------------------------------------------------
RegisterCluster(t, c) ==
  /\ tenants' = tenants \cup {t}
  /\ IF GetCluster(t, c)
       THEN UNCHANGED <<clusters, order>>
       ELSE /\ clusters' = [clusters EXCEPT ![t] = Put(@, c, NewCluster)]
            /\ order' = [order EXCEPT ![t] = Append(@, c)]
  /\ UNCHANGED lifecycle

\* Faulty variant: the id is dropped from every tenant's partition.
DeleteCluster_everyTenant(t, c) ==
  /\ clusters' = [u \in Tenants |-> Restrict(clusters[u], DOMAIN clusters[u] \ {c})]
  /\ order' = [u \in Tenants |-> Without(order[u], c)]
  /\ lifecycle' = [lifecycle EXCEPT ![t] = Restrict(@, {k \in DOMAIN @ : k[1] # c})]
  /\ UNCHANGED tenants

\* The effect of DeleteCluster on a registered cluster; on any other it
\* returns false and changes nothing.
DeleteCluster(t, c) ==
  /\ clusters' = [clusters EXCEPT ![t] = Restrict(@, DOMAIN @ \ {c})]
  /\ order' = [order EXCEPT ![t] = Without(@, c)]
  /\ lifecycle' = [lifecycle EXCEPT ![t] = Restrict(@, {k \in DOMAIN @ : k[1] # c})]
  /\ UNCHANGED tenants

\* Faulty variant: the cluster is listed again with every scan.
RecordScan_listsAgain(t, c, id, rep, at) ==
  LET entry == [id |-> id, at |-> at, rep |-> rep]
  IN  /\ tenants' = tenants \cup {t}
      /\ clusters' = [clusters EXCEPT ![t] =
           Put(@, c, [ hasScan |-> TRUE, latest |-> rep, lastScanAt |-> at,
                       scans |-> <<entry>>, history |-> <<entry>> ])]
      /\ order' = [order EXCEPT ![t] = Append(@, c)]
      /\ UNCHANGED lifecycle

\* Creates the tenant and the cluster when they are missing.
RecordScan(t, c, id, rep, at) ==
  LET cs    == IF GetCluster(t, c) THEN clusters[t][c] ELSE NewCluster
      entry == [id |-> id, at |-> at, rep |-> rep]
  IN  /\ tenants' = tenants \cup {t}
      /\ clusters' = [clusters EXCEPT ![t] =
           Put(@, c, [ hasScan    |-> TRUE,
                       latest     |-> rep,
                       lastScanAt |-> at,
                       scans      |-> <<entry>> \o cs.scans,
                       history    |-> Append(cs.history, entry) ])]
      /\ order' = IF GetCluster(t, c) THEN order
                                      ELSE [order EXCEPT ![t] = Append(@, c)]
      /\ UNCHANGED lifecycle

ProvisionTenant(t) ==
  /\ tenants' = tenants \cup {t}
  /\ UNCHANGED <<clusters, order, lifecycle>>

DeleteTenant(t) ==
  /\ tenants' = tenants \ {t}
  /\ clusters' = [clusters EXCEPT ![t] = EmptyMap]
  /\ order' = [order EXCEPT ![t] = <<>>]
  /\ lifecycle' = [lifecycle EXCEPT ![t] = EmptyMap]

\* Faulty variants: rows are reset by every scan; only the first scan of a
\* tenant creates rows.
SeedFindings_resets(t, c, rep, now) ==
  /\ lifecycle' = [lifecycle EXCEPT ![t] =
       [k \in DOMAIN @ \cup ({c} \X rep) |->
          IF k \in {c} \X rep THEN OpenRow(now, now) ELSE @[k]]]
  /\ UNCHANGED <<tenants, clusters, order>>

SeedFindings_once(t, c, rep, now) ==
  /\ lifecycle' = IF DOMAIN lifecycle[t] = {}
       THEN [lifecycle EXCEPT ![t] = [k \in {c} \X rep |-> OpenRow(now, now)]]
       ELSE lifecycle
  /\ UNCHANGED <<tenants, clusters, order>>

\* An open row for every finding of the report that has none yet.
SeedFindings(t, c, rep, now) ==
  /\ lifecycle' = [lifecycle EXCEPT ![t] =
       [k \in DOMAIN @ \cup ({c} \X rep) |->
          IF k \in DOMAIN @ THEN @[k] ELSE OpenRow(now, now)]]
  /\ UNCHANGED <<tenants, clusters, order>>

UpsertLifecycle(t, k, lc) ==
  /\ lifecycle' = [lifecycle EXCEPT ![t] = Put(@, k, lc)]
  /\ UNCHANGED <<tenants, clusters, order>>

\* NewMemStore, after the startup registrations of the configured clusters, in
\* the order their names sort in: some listing of them.
StoreInit(home, configured) ==
  /\ tenants = {home}
  /\ clusters = [t \in Tenants |->
                   IF t = home THEN [c \in configured |-> NewCluster] ELSE EmptyMap]
  /\ \E ids \in Listings(configured) :
       order = [t \in Tenants |-> IF t = home THEN ids ELSE <<>>]
  /\ lifecycle = [t \in Tenants |-> EmptyMap]

StoreTypeOK ==
  /\ tenants \subseteq Tenants
  /\ DOMAIN clusters = Tenants /\ DOMAIN order = Tenants /\ DOMAIN lifecycle = Tenants
  /\ \A t \in Tenants :
       /\ DOMAIN clusters[t] \subseteq Clusters
       /\ \A c \in DOMAIN clusters[t] : clusters[t][c] \in clusterState
       /\ order[t] \in Seq(Clusters)
       /\ DOMAIN lifecycle[t] \subseteq Keys
       /\ \A k \in DOMAIN lifecycle[t] : lifecycle[t][k] \in FindingLifecycle

\* The registration order of a tenant names each of its clusters once and
\* nothing else.  ListClusters, ListScans, Report and History follow order
\* into the cluster map without a nil check (memstore.go:102), while
\* RegisterCluster, RecordScan, DeleteCluster and DeleteTenant each change
\* both.  A tenant without a partition has no cluster.
OrderListsClusters ==
  \A t \in Tenants :
    /\ IsInjective(order[t])
    /\ Range(order[t]) = DOMAIN clusters[t]
    /\ t \notin tenants => DOMAIN clusters[t] = {}
=============================================================================
