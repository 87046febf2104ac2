---------------------------- MODULE PgStoreProofs ----------------------------
(***************************************************************************)
(* What the Postgres store keeps for every set of calls, clusters and      *)
(* findings: ScansWhole and SeedKeepsTriage of PgStore.  The hard part is  *)
(* that a deletion works from a snapshot.  Rows that were committed after  *)
(* it survive the deletion, and one of them must then be the latest,       *)
(* though any number of scans, deletions and prunings ran meanwhile.       *)
(***************************************************************************)
EXTENDS PgStore, TLAPS

\* A scan id is fresh.
FreshIds == Calls \cap Before = {}

-----------------------------------------------------------------------------
(* The inductive invariant.                                                *)

Running(p)  == op[p] = "scan" /\ pc[p] \in InTx
Deleting(p) == Deletes(p) /\ pc[p] = "scans"

\* A scan has no outcome before its transaction ends.
OutcomeIsLate == \A p \in Calls : op[p] = "scan" /\ pc[p] \in InTx \cup {"idle"} => result[p] = "none"

\* A snapshot and what is done with it concern the clusters of the call only.
SnapshotsScoped ==
  \A p \in Calls :
    /\ Deleting(p) => \A s \in seen[p] : s \in ScanIds /\ result[s] = "committed" /\ cluster[s] \in Targets(p)
    /\ At(p, "scan", "clear") => \A s \in seen[p] : cluster[s] = cluster[p]
    /\ \A s \in cleared[p] : cluster[s] = cluster[p]

\* What a deletion did not see has a latest scan that it did not see either.
UnseenKept ==
  \A p \in Calls : Deleting(p) =>
    \A s \in scans : s \notin seen[p] /\ cluster[s] \in Targets(p) =>
      \E t \in latest : t \notin seen[p] /\ cluster[t] = cluster[s]

\* Of two snapshots of a cluster the later one has what is left of the earlier.
Earlier(p, q, c) == \A s \in scans : s \in seen[p] /\ cluster[s] = c => s \in seen[q]

SnapshotsNested ==
  \A p, q \in Calls : Deleting(p) /\ Deleting(q) =>
    \A c \in Targets(p) \cap Targets(q) : Earlier(p, q, c) \/ Earlier(q, p, c)

\* Of two transactions under way one saw the other when it began, and a latest scan
\* that a transaction will not clear was under way beside it.
Beside(s, t) == s \in overlap[t] \/ t \in overlap[s]

RunningOverlap == \A p, q \in Calls : Running(p) /\ Running(q) => p = q \/ Beside(p, q)

MissedOverlap ==
  \A p \in Calls : \A t \in latest :
    op[p] = "scan" /\ cluster[t] = cluster[p] =>
      /\ pc[p] = "clear" => t \in seen[p] \/ Beside(t, p)
      /\ pc[p] \in {"insert", "commit"} => t \in cleared[p] \/ Beside(t, p)

PInv ==
  /\ ScansWhole
  /\ OutcomeIsLate /\ SnapshotsScoped
  /\ UnseenKept /\ SnapshotsNested
  /\ RunningOverlap /\ MissedOverlap

-----------------------------------------------------------------------------
(* Types.                                                                  *)

LEMMA TypeInit == Init => TypeOK
BY DEF Init, TypeOK, InTx, ScanIds

LEMMA ScanTypes == ASSUME TypeOK, NEW p \in Calls, ScanStep(p) PROVE TypeOK'
<1>0. p \in ScanIds /\ cluster[p] \in Clusters
  BY DEF TypeOK, ScanIds
<1>1. CASE InsertCluster(p)
  BY <1>0, <1>1 DEF InsertCluster, Goto, request, tables, TypeOK, InTx
<1>2. CASE SeeLatest(p)
  BY <1>2 DEF SeeLatest, Goto, request, tables, tx, TypeOK, InTx, ScansOf
<1>3. CASE ClearLatest(p)
  BY <1>3 DEF ClearLatest, Goto, request, tables, TypeOK, InTx
<1>4. CASE UpdateCluster(p)
  BY <1>4 DEF UpdateCluster, Goto, request, tables, TypeOK, InTx
<1>5. CASE Commit(p)
  BY <1>0, <1>5 DEF Commit, Goto, Release, request, TypeOK
<1>6. CASE Rollback(p)
  BY <1>0, <1>6 DEF Rollback, Goto, Release, request, tables, TypeOK
<1>7. CASE SeedFinding(p)
  BY <1>0, <1>7 DEF SeedFinding, request, tx, TypeOK
<1>8. CASE SeedDone(p)
  BY <1>8 DEF SeedDone, Goto, request, tables, tx, TypeOK
<1> QED BY <1>1, <1>2, <1>3, <1>4, <1>5, <1>6, <1>7, <1>8 DEF ScanStep

LEMMA DeleteTypes == ASSUME TypeOK, NEW p \in Calls, DeleteStep(p) PROVE TypeOK'
<1>0. p \in ScanIds
  BY DEF ScanIds
<1>1. CASE DeleteLifecycle(p)
  BY <1>1 DEF DeleteLifecycle, Goto, request, tx, TypeOK
<1>2. CASE DeleteHistory(p)
  BY <1>2 DEF DeleteHistory, Goto, request, tx, TypeOK
<1>3. CASE SeeScans(p)
  BY <1>3 DEF SeeScans, Goto, request, tables, tx, TypeOK, ScansOf
<1>4. CASE DeleteScans(p)
  BY <1>4 DEF DeleteScans, Goto, request, tx, TypeOK
<1>5. CASE SeeClusters(p)
  BY <1>5 DEF SeeClusters, Goto, request, tables, tx, TypeOK
<1>6. CASE DeleteClusters(p)
  BY <1>0, <1>6 DEF DeleteClusters, Goto, request, tx, TypeOK
<1>7. CASE DeleteTenantRow(p)
  BY <1>0, <1>7 DEF DeleteTenantRow, Goto, request, tx, TypeOK
<1>8. CASE DeleteFails(p)
  BY <1>8 DEF DeleteFails, Goto, request, tables, tx, TypeOK
<1> QED BY <1>1, <1>2, <1>3, <1>4, <1>5, <1>6, <1>7, <1>8 DEF DeleteStep

LEMMA OtherTypes == ASSUME TypeOK, NEW p \in Calls, OtherStep(p) PROVE TypeOK'
<1>0. cluster[p] \in Clusters
  BY DEF TypeOK, ScanIds
<1>1. CASE RegisterTenant(p)
  BY <1>1 DEF RegisterTenant, Goto, request, tx, TypeOK
<1>2. CASE RegisterCluster(p)
  BY <1>0, <1>2 DEF RegisterCluster, Goto, request, tx, TypeOK
<1>3. CASE ProvisionTenant(p)
  BY <1>3 DEF ProvisionTenant, Goto, request, tx, TypeOK
<1>4. CASE UpsertLifecycle(p)
  BY <1>0, <1>4 DEF UpsertLifecycle, Goto, request, tx, TypeOK
<1>5. CASE RetentionScans(p)
  BY <1>5 DEF RetentionScans, Goto, request, tx, TypeOK
<1>6. CASE RetentionHistory(p)
  BY <1>6 DEF RetentionHistory, Goto, request, tx, TypeOK
<1> QED BY <1>1, <1>2, <1>3, <1>4, <1>5, <1>6 DEF OtherStep

-----------------------------------------------------------------------------
(* Most steps leave the scans alone and begin nothing.                     *)

Quiet(p) ==
  \/ UpdateCluster(p) \/ Rollback(p) \/ SeedFinding(p) \/ SeedDone(p)
  \/ DeleteLifecycle(p) \/ DeleteHistory(p) \/ SeeClusters(p) \/ DeleteClusters(p)
  \/ DeleteTenantRow(p) \/ DeleteFails(p) \/ RegisterTenant(p) \/ RegisterCluster(p)
  \/ ProvisionTenant(p) \/ UpsertLifecycle(p) \/ RetentionHistory(p)

\* What call q is doing is what it was doing, or it is done with the snapshot.
Calmed(q) ==
  /\ Deleting(q)' => Deleting(q) /\ seen'[q] = seen[q]
  /\ At(q, "scan", "clear")' => At(q, "scan", "clear") /\ seen'[q] = seen[q]
  /\ op[q] = "scan" /\ pc'[q] \in {"insert", "commit"} =>
       pc[q] \in {"insert", "commit"} /\ cleared'[q] = cleared[q]
  /\ Running(q)' => Running(q)
  /\ op[q] = "scan" /\ pc'[q] \in InTx \cup {"idle"} =>
       pc[q] \in InTx \cup {"idle"} /\ result'[q] = result[q]
  /\ cleared'[q] \subseteq cleared[q]

QuietFacts ==
  /\ UNCHANGED <<op, cluster, scans, latest, overlap>>
  /\ history' \subseteq history
  /\ \A q \in Calls : Calmed(q)

LEMMA QuietIsCalm == ASSUME TypeOK, NEW p \in Calls, Quiet(p) PROVE QuietFacts
<1> USE DEF TypeOK, QuietFacts, Calmed, Running, Deleting, Deletes, At, Goto, InTx, request
<1>1. CASE UpdateCluster(p)
  BY <1>1 DEF UpdateCluster, tables
<1>2. CASE Rollback(p)
  BY <1>2 DEF Rollback, Release, tables
<1>3. CASE SeedFinding(p)
  BY <1>3 DEF SeedFinding, tx
<1>4. CASE SeedDone(p)
  BY <1>4 DEF SeedDone, tables, tx
<1>5. CASE DeleteLifecycle(p)
  BY <1>5 DEF DeleteLifecycle, tx
<1>6. CASE DeleteHistory(p)
  BY <1>6 DEF DeleteHistory, tx
<1>7. CASE SeeClusters(p)
  BY <1>7 DEF SeeClusters, tables, tx
<1>8. CASE DeleteClusters(p)
  BY <1>8 DEF DeleteClusters, tx
<1>9. CASE DeleteTenantRow(p)
  BY <1>9 DEF DeleteTenantRow, tx
<1>10. CASE DeleteFails(p)
  BY <1>10 DEF DeleteFails, tables, tx
<1>11. CASE RegisterTenant(p)
  BY <1>11 DEF RegisterTenant, tx
<1>12. CASE RegisterCluster(p)
  BY <1>12 DEF RegisterCluster, tx
<1>13. CASE ProvisionTenant(p)
  BY <1>13 DEF ProvisionTenant, tx
<1>14. CASE UpsertLifecycle(p)
  BY <1>14 DEF UpsertLifecycle, tx
<1>15. CASE RetentionHistory(p)
  BY <1>15 DEF RetentionHistory, tx
<1> QED BY <1>1, <1>2, <1>3, <1>4, <1>5, <1>6, <1>7, <1>8, <1>9, <1>10, <1>11, <1>12,
           <1>13, <1>14, <1>15 DEF Quiet

LEMMA StutterIsCalm == ASSUME UNCHANGED vars PROVE QuietFacts
BY DEF vars, request, tables, tx, QuietFacts, Calmed, Running, Deleting, Deletes, At

\* Nothing undoes a commit.
CommitsStay == \A s \in ScanIds : result[s] = "committed" => result'[s] = "committed"

LEMMA CommittedStays == ASSUME PInv, NEW p \in Calls, Step(p) PROVE CommitsStay
<1>0. TypeOK /\ OutcomeIsLate
  BY DEF PInv, ScansWhole
<1>1. CASE ScanStep(p)
  BY <1>0, <1>1 DEF ScanStep, InsertCluster, SeeLatest, ClearLatest, UpdateCluster, Commit, Rollback,
     SeedFinding, SeedDone, TypeOK, OutcomeIsLate, CommitsStay
<1>2. CASE DeleteStep(p)
  BY <1>0, <1>2 DEF DeleteStep, DeleteLifecycle, DeleteHistory, SeeScans, DeleteScans, SeeClusters,
     DeleteClusters, DeleteTenantRow, DeleteFails, TypeOK, CommitsStay
<1>3. CASE OtherStep(p)
  BY <1>3 DEF OtherStep, RegisterTenant, RegisterCluster, ProvisionTenant, UpsertLifecycle,
     RetentionScans, RetentionHistory, CommitsStay
<1> QED BY <1>1, <1>2, <1>3 DEF Step

\* What SnapshotsScoped asks of every call after a step that moves snapshots only.
LEMMA ScopedAfter ==
  ASSUME UNCHANGED <<op, cluster, result>>,
         \A q \in Calls : /\ Deleting(q)' => \A s \in seen'[q] :
                               s \in ScanIds /\ result[s] = "committed" /\ cluster[s] \in Targets(q)
                          /\ At(q, "scan", "clear")' => \A s \in seen'[q] : cluster[s] = cluster[q]
                          /\ \A s \in cleared'[q] : cluster[s] = cluster[q]
  PROVE  SnapshotsScoped'
<1>0. \A q \in Calls : Targets(q)' = Targets(q)
  BY DEF Targets
<1> QED BY <1>0 DEF SnapshotsScoped, ScanIds

\* A step that leaves the snapshots alone leaves their scope alone.
LEMMA ScopeKept ==
  ASSUME PInv, CommitsStay, UNCHANGED <<op, cluster>>,
         \A q \in Calls : /\ Deleting(q)' => Deleting(q) /\ seen'[q] = seen[q]
                          /\ At(q, "scan", "clear")' => At(q, "scan", "clear") /\ seen'[q] = seen[q]
                          /\ cleared'[q] \subseteq cleared[q]
  PROVE  SnapshotsScoped'
<1>0. \A q \in Calls : Targets(q)' = Targets(q)
  BY DEF Targets
<1> SUFFICES ASSUME NEW q \in Calls
             PROVE  /\ Deleting(q)' => \A s \in seen'[q] :
                         s \in ScanIds /\ result'[s] = "committed" /\ cluster[s] \in Targets(q)
                    /\ At(q, "scan", "clear")' => \A s \in seen'[q] : cluster[s] = cluster[q]
                    /\ \A s \in cleared'[q] : cluster[s] = cluster[q]
  BY <1>0 DEF SnapshotsScoped
<1>1. /\ Deleting(q) => \A s \in seen[q] : s \in ScanIds /\ result[s] = "committed" /\ cluster[s] \in Targets(q)
      /\ At(q, "scan", "clear") => \A s \in seen[q] : cluster[s] = cluster[q]
      /\ \A s \in cleared[q] : cluster[s] = cluster[q]
  BY DEF PInv, SnapshotsScoped
<1> QED BY <1>1 DEF CommitsStay

\* Nor does a step that only takes scans away that are not the latest disturb what
\* the deletions under way rely on.
LEMMA SnapshotsKept ==
  ASSUME PInv, UNCHANGED <<op, cluster, latest>>, scans' \subseteq scans,
         \A q \in Calls : Deleting(q)' => Deleting(q) /\ seen'[q] = seen[q]
  PROVE  UnseenKept' /\ SnapshotsNested'
<1>0. \A q \in Calls : Targets(q)' = Targets(q)
  BY DEF Targets
<1>1. UnseenKept'
  <2> SUFFICES ASSUME NEW q \in Calls, Deleting(q)', NEW s \in scans', s \notin seen'[q], cluster[s] \in Targets(q)
               PROVE  \E t \in latest : t \notin seen'[q] /\ cluster[t] = cluster[s]
    BY <1>0 DEF UnseenKept
  <2>1. Deleting(q) /\ seen'[q] = seen[q] /\ s \in scans
    OBVIOUS
  <2> QED BY <2>1 DEF PInv, UnseenKept
<1>2. SnapshotsNested'
  <2> SUFFICES ASSUME NEW q \in Calls, NEW r \in Calls, Deleting(q)', Deleting(r)',
                      NEW c \in Targets(q) \cap Targets(r)
               PROVE  Earlier(q, r, c)' \/ Earlier(r, q, c)'
    BY <1>0 DEF SnapshotsNested
  <2>1. Deleting(q) /\ Deleting(r) /\ seen'[q] = seen[q] /\ seen'[r] = seen[r]
    OBVIOUS
  <2>2. Earlier(q, r, c) \/ Earlier(r, q, c)
    BY <2>1 DEF PInv, SnapshotsNested
  <2> QED BY <2>1, <2>2 DEF Earlier
<1> QED BY <1>1, <1>2

LEMMA CalmKeeps ==
  ASSUME PInv, QuietFacts, CommitsStay, TypeOK' PROVE PInv'
<1> USE DEF QuietFacts
<1>1. LatestKept' /\ LatestOverlap'
  BY DEF PInv, ScansWhole, LatestKept, LatestOverlap
<1>2. LostLeavesNothing'
  <2>1. scans \cup history \subseteq ScanIds
    BY DEF PInv, ScansWhole, TypeOK
  <2> QED BY <2>1 DEF PInv, ScansWhole, LostLeavesNothing, CommitsStay
<1>3. OutcomeIsLate'
  BY DEF PInv, OutcomeIsLate, Calmed
<1>4. SnapshotsScoped'
  BY ScopeKept DEF Calmed
<1>5. UnseenKept' /\ SnapshotsNested'
  BY SnapshotsKept DEF Calmed
<1>6. RunningOverlap'
  BY DEF PInv, RunningOverlap, Beside, Calmed
<1>7. MissedOverlap'
  BY DEF PInv, MissedOverlap, Beside, Calmed, At
<1> QED BY <1>1, <1>2, <1>3, <1>4, <1>5, <1>6, <1>7 DEF PInv, ScansWhole

-----------------------------------------------------------------------------
(* The steps of a transaction.                                             *)

LEMMA InsertKeeps == ASSUME PInv, NEW p \in Calls, InsertCluster(p), CommitsStay, TypeOK' PROVE PInv'
<1>1. /\ UNCHANGED <<op, cluster, scans, latest, history, seen, cleared, result>>
      /\ op[p] = "scan" /\ pc[p] = "idle" /\ pc' = [pc EXCEPT ![p] = "snapshot"]
      /\ overlap' = [overlap EXCEPT ![p] = {q \in Calls : Running(q)}]
  BY DEF InsertCluster, At, Goto, request, tables, Running
<1>2. TypeOK /\ DOMAIN pc = Calls /\ overlap \in [ScanIds -> SUBSET Calls] /\ p \in ScanIds
  BY DEF PInv, ScansWhole, TypeOK, InTx, ScanIds
<1>3. \A q \in Calls : /\ Targets(q)' = Targets(q) /\ Deleting(q)' = Deleting(q)
                       /\ q # p => Running(q)' = Running(q)
  BY <1>1, <1>2 DEF Targets, Deleting, Deletes, Running
<1>4. p \notin latest
  BY <1>1 DEF PInv, ScansWhole, LostLeavesNothing, OutcomeIsLate, TypeOK
<1>5. \A s, t \in ScanIds : s # p /\ t # p => (Beside(s, t)' <=> Beside(s, t))
  BY <1>1, <1>2 DEF Beside
<1>6. LatestKept' /\ LostLeavesNothing' /\ OutcomeIsLate'
  BY <1>1, <1>2 DEF PInv, ScansWhole, LatestKept, LostLeavesNothing, OutcomeIsLate, InTx
<1>7. LatestOverlap'
  <2>1. \A s \in latest : s # p /\ s \in ScanIds
    BY <1>2, <1>4 DEF TypeOK
  <2> QED BY <1>1, <1>5, <2>1 DEF PInv, ScansWhole, LatestOverlap, Beside
<1>8. SnapshotsScoped'
  <2>1. \A q \in Calls : At(q, "scan", "clear")' => At(q, "scan", "clear")
    BY <1>1, <1>2 DEF At
  <2> QED BY <1>1, <1>3, <2>1, ScopeKept
<1>9. UnseenKept' /\ SnapshotsNested'
  BY <1>1, <1>3, SnapshotsKept
<1>10. RunningOverlap'
  <2> SUFFICES ASSUME NEW q \in Calls, NEW r \in Calls, Running(q)', Running(r)', q # r
               PROVE  Beside(q, r)'
    BY DEF RunningOverlap
  <2>1. CASE q # p /\ r # p
    BY <1>3, <1>5, <2>1 DEF PInv, RunningOverlap, ScanIds
  <2>2. CASE q = p \/ r = p
    BY <1>1, <1>2, <1>3, <2>2 DEF Beside
  <2> QED BY <2>1, <2>2
<1>11. MissedOverlap'
  <2> SUFFICES ASSUME NEW q \in Calls, NEW t \in latest, op[q] = "scan", cluster[t] = cluster[q]
               PROVE  /\ pc'[q] = "clear" => t \in seen[q] \/ Beside(t, q)'
                      /\ pc'[q] \in {"insert", "commit"} => t \in cleared[q] \/ Beside(t, q)'
    BY <1>1 DEF MissedOverlap
  <2>1. CASE q # p
    BY <1>1, <1>2, <1>4, <1>5, <2>1 DEF PInv, MissedOverlap, ScanIds, TypeOK
  <2>2. CASE q = p
    BY <1>1, <1>2, <2>2
  <2> QED BY <2>1, <2>2
<1> QED BY <1>6, <1>7, <1>8, <1>9, <1>10, <1>11 DEF PInv, ScansWhole

\* The steps that only move the snapshot of one call.
LEMMA SeeLatestKeeps == ASSUME PInv, NEW p \in Calls, SeeLatest(p), CommitsStay, TypeOK' PROVE PInv'
<1>1. /\ UNCHANGED <<op, cluster, scans, latest, history, overlap, cleared, result>>
      /\ op[p] = "scan" /\ pc[p] = "snapshot" /\ pc' = [pc EXCEPT ![p] = "clear"]
      /\ seen' = [seen EXCEPT ![p] = {s \in latest : s \in scans /\ cluster[s] = cluster[p]}]
  BY DEF SeeLatest, At, Goto, request, tables, tx, ScansOf
<1>2. TypeOK /\ DOMAIN pc = Calls /\ DOMAIN seen = Calls /\ latest \subseteq scans
  BY DEF PInv, ScansWhole, TypeOK
<1>3. \A q \in Calls : /\ Targets(q)' = Targets(q) /\ Running(q)' = Running(q)
                       /\ Deleting(q)' => Deleting(q) /\ seen'[q] = seen[q]
  BY <1>1, <1>2 DEF Targets, Deleting, Deletes, Running, InTx
<1>4. LatestKept' /\ LatestOverlap' /\ LostLeavesNothing' /\ OutcomeIsLate'
  BY <1>1, <1>2 DEF PInv, ScansWhole, LatestKept, LatestOverlap, LostLeavesNothing, OutcomeIsLate, InTx
<1>5. SnapshotsScoped'
  <2> SUFFICES ASSUME NEW q \in Calls
               PROVE  /\ Deleting(q)' => \A s \in seen'[q] :
                           s \in ScanIds /\ result[s] = "committed" /\ cluster[s] \in Targets(q)
                      /\ At(q, "scan", "clear")' => \A s \in seen'[q] : cluster[s] = cluster[q]
                      /\ \A s \in cleared'[q] : cluster[s] = cluster[q]
    BY <1>1, ScopedAfter
  <2>1. CASE q = p
    BY <1>1, <1>2, <1>3, <2>1 DEF PInv, SnapshotsScoped, At
  <2>2. CASE q # p
    BY <1>1, <1>2, <1>3, <2>2 DEF PInv, SnapshotsScoped, At
  <2> QED BY <2>1, <2>2
<1>6. UnseenKept' /\ SnapshotsNested'
  BY <1>1, <1>3, SnapshotsKept
<1>7. RunningOverlap'
  BY <1>1, <1>3 DEF PInv, RunningOverlap, Beside
<1>8. MissedOverlap'
  BY <1>1, <1>2 DEF PInv, MissedOverlap, Beside
<1> QED BY <1>4, <1>5, <1>6, <1>7, <1>8 DEF PInv, ScansWhole

LEMMA ClearKeeps == ASSUME PInv, NEW p \in Calls, ClearLatest(p), CommitsStay, TypeOK' PROVE PInv'
<1>1. /\ UNCHANGED <<op, cluster, scans, latest, history, overlap, seen, result>>
      /\ op[p] = "scan" /\ pc[p] = "clear" /\ pc' = [pc EXCEPT ![p] = "insert"]
      /\ cleared' = [cleared EXCEPT ![p] = seen[p] \cap latest]
  BY DEF ClearLatest, At, Goto, request, tables
<1>2. TypeOK /\ DOMAIN pc = Calls /\ DOMAIN cleared = Calls
  BY DEF PInv, ScansWhole, TypeOK
<1>3. \A q \in Calls : /\ Targets(q)' = Targets(q) /\ Running(q)' = Running(q)
                       /\ Deleting(q)' => Deleting(q)
  BY <1>1, <1>2 DEF Targets, Deleting, Deletes, Running, InTx
<1>4. LatestKept' /\ LatestOverlap' /\ LostLeavesNothing' /\ OutcomeIsLate'
  BY <1>1, <1>2 DEF PInv, ScansWhole, LatestKept, LatestOverlap, LostLeavesNothing, OutcomeIsLate, InTx
<1>5. SnapshotsScoped'
  <2> SUFFICES ASSUME NEW q \in Calls
               PROVE  /\ Deleting(q)' => \A s \in seen'[q] :
                           s \in ScanIds /\ result[s] = "committed" /\ cluster[s] \in Targets(q)
                      /\ At(q, "scan", "clear")' => \A s \in seen'[q] : cluster[s] = cluster[q]
                      /\ \A s \in cleared'[q] : cluster[s] = cluster[q]
    BY <1>1, ScopedAfter
  <2>1. CASE q = p
    BY <1>1, <1>2, <1>3, <2>1 DEF PInv, SnapshotsScoped, At
  <2>2. CASE q # p
    BY <1>1, <1>2, <1>3, <2>2 DEF PInv, SnapshotsScoped, At
  <2> QED BY <2>1, <2>2
<1>6. UnseenKept' /\ SnapshotsNested'
  BY <1>1, <1>3, SnapshotsKept
<1>7. RunningOverlap'
  BY <1>1, <1>3 DEF PInv, RunningOverlap, Beside
<1>8. MissedOverlap'
  BY <1>1, <1>2 DEF PInv, MissedOverlap, Beside
<1> QED BY <1>4, <1>5, <1>6, <1>7, <1>8 DEF PInv, ScansWhole

\* The scan is the latest of its cluster now.  What it leaves beside it in that
\* place was committed while it was under way.
LEMMA CommitKeeps == ASSUME PInv, NEW p \in Calls, Commit(p), CommitsStay, TypeOK' PROVE PInv'
<1>1. /\ UNCHANGED <<op, cluster, overlap, seen>>
      /\ op[p] = "scan" /\ pc[p] = "commit" /\ pc' = [pc EXCEPT ![p] = "seed"]
      /\ cleared' = [cleared EXCEPT ![p] = {}]
      /\ scans' = scans \cup {p} /\ history' = history \cup {p}
      /\ latest' = (latest \ cleared[p]) \cup {p}
      /\ result' = [result EXCEPT ![p] = "committed"]
  BY DEF Commit, Release, At, Goto, request
<1>2. /\ DOMAIN pc = Calls /\ DOMAIN cleared = Calls /\ DOMAIN result = ScanIds
      /\ latest \subseteq scans /\ scans \subseteq ScanIds /\ history \subseteq ScanIds /\ p \in ScanIds
  BY DEF PInv, ScansWhole, TypeOK, ScanIds
<1>3. \A q \in Calls : /\ Targets(q)' = Targets(q) /\ (Running(q)' => Running(q) /\ q # p)
                       /\ Deleting(q)' => Deleting(q) /\ q # p
  BY <1>1, <1>2 DEF Targets, Deleting, Deletes, Running, InTx
<1>4. /\ \A s \in cleared[p] : cluster[s] = cluster[p]
      /\ \A q \in Calls : Deleting(q) => p \notin seen[q]
      /\ Running(p)
  BY <1>1 DEF PInv, SnapshotsScoped, OutcomeIsLate, InTx, Running
<1>5. LatestKept'
  BY <1>1, <1>4 DEF PInv, ScansWhole, LatestKept
<1>6. LatestOverlap'
  BY <1>1 DEF PInv, ScansWhole, LatestOverlap, MissedOverlap, Beside
<1>7. LostLeavesNothing' /\ OutcomeIsLate'
  BY <1>1, <1>2 DEF PInv, ScansWhole, LostLeavesNothing, OutcomeIsLate, InTx, ScanIds
<1>8. SnapshotsScoped'
  <2>1. ASSUME NEW q \in Calls
        PROVE  /\ Deleting(q)' => Deleting(q) /\ seen'[q] = seen[q]
               /\ At(q, "scan", "clear")' => At(q, "scan", "clear") /\ seen'[q] = seen[q]
               /\ cleared'[q] \subseteq cleared[q]
    BY <1>1, <1>2, <1>3 DEF At
  <2> QED BY <1>1, <2>1, ScopeKept
<1>9. UnseenKept'
  <2> SUFFICES ASSUME NEW q \in Calls, Deleting(q)', NEW s \in scans', s \notin seen'[q],
                      cluster'[s] \in Targets(q)'
               PROVE  \E t \in latest' : t \notin seen'[q] /\ cluster'[t] = cluster'[s]
    BY DEF UnseenKept
  <2>0. /\ Deleting(q) /\ s \in scans \cup {p} /\ s \notin seen[q] /\ cluster[s] \in Targets(q)
        /\ seen' = seen /\ cluster' = cluster
    BY <1>1, <1>3
  <2>1. CASE cluster[s] = cluster[p]
    BY <1>1, <1>4, <2>0, <2>1
  <2>2. CASE cluster[s] # cluster[p]
    <3>1. PICK t \in latest : t \notin seen[q] /\ cluster[t] = cluster[s]
      BY <2>0, <2>2 DEF PInv, UnseenKept
    <3> QED BY <1>1, <1>4, <2>0, <2>2, <3>1
  <2> QED BY <2>1, <2>2
<1>10. SnapshotsNested'
  <2>1. \A q, r \in Calls : \A c : Deleting(q) /\ Earlier(q, r, c) => Earlier(q, r, c)'
    BY <1>1, <1>4 DEF Earlier
  <2> QED BY <1>3, <2>1 DEF PInv, SnapshotsNested
<1>11. RunningOverlap'
  BY <1>1, <1>3 DEF PInv, RunningOverlap, Beside
<1>12. MissedOverlap'
  <2> SUFFICES ASSUME NEW q \in Calls, NEW t \in latest', op[q] = "scan", cluster[t] = cluster[q],
                      pc'[q] \in {"clear", "insert", "commit"}
               PROVE  /\ pc'[q] = "clear" => t \in seen[q] \/ Beside(t, q)
                      /\ pc'[q] \in {"insert", "commit"} => t \in cleared'[q] \/ Beside(t, q)
    BY <1>1 DEF MissedOverlap, Beside
  <2>1. q # p /\ pc'[q] = pc[q] /\ cleared'[q] = cleared[q] /\ Running(q)
    BY <1>1, <1>2 DEF Running, InTx
  <2>2. CASE t = p
    BY <1>4, <2>1, <2>2 DEF PInv, RunningOverlap
  <2>3. CASE t \in latest
    BY <2>1, <2>3 DEF PInv, MissedOverlap
  <2> QED BY <1>1, <2>2, <2>3
<1> QED BY <1>5, <1>6, <1>7, <1>8, <1>9, <1>10, <1>11, <1>12 DEF PInv, ScansWhole

-----------------------------------------------------------------------------
(* The steps that take scans away, and the snapshot before.                *)

LEMMA SeeScansKeeps == ASSUME PInv, NEW p \in Calls, SeeScans(p), CommitsStay, TypeOK' PROVE PInv'
<1>1. /\ UNCHANGED <<op, cluster, scans, latest, history, overlap, cleared, result>>
      /\ Deletes(p) /\ pc' = [pc EXCEPT ![p] = "scans"]
      /\ seen' = [seen EXCEPT ![p] = {s \in scans : cluster[s] \in Targets(p)}]
  BY DEF SeeScans, Goto, request, tables, tx, ScansOf
<1>2. DOMAIN pc = Calls /\ DOMAIN seen = Calls /\ scans \subseteq ScanIds
  BY DEF PInv, ScansWhole, TypeOK
<1>3. \A q \in Calls : /\ Targets(q)' = Targets(q) /\ (Running(q)' => Running(q))
                       /\ q # p => /\ seen'[q] = seen[q] /\ pc'[q] = pc[q]
                                   /\ Deleting(q)' => Deleting(q)
  BY <1>1, <1>2 DEF Targets, Deleting, Deletes, Running, InTx
<1>4. LatestKept' /\ LatestOverlap' /\ LostLeavesNothing' /\ OutcomeIsLate'
  BY <1>1, <1>2 DEF PInv, ScansWhole, LatestKept, LatestOverlap, LostLeavesNothing, OutcomeIsLate, InTx
<1>5. SnapshotsScoped'
  <2> SUFFICES ASSUME NEW q \in Calls
               PROVE  /\ Deleting(q)' => \A s \in seen'[q] :
                           s \in ScanIds /\ result[s] = "committed" /\ cluster[s] \in Targets(q)
                      /\ At(q, "scan", "clear")' => \A s \in seen'[q] : cluster[s] = cluster[q]
                      /\ \A s \in cleared'[q] : cluster[s] = cluster[q]
    BY <1>1, ScopedAfter
  <2>1. CASE q = p
    BY <1>1, <1>2, <2>1 DEF PInv, ScansWhole, LostLeavesNothing, SnapshotsScoped, At
  <2>2. CASE q # p
    BY <1>1, <1>2, <1>3, <2>2 DEF PInv, SnapshotsScoped, At
  <2> QED BY <2>1, <2>2
<1>6. UnseenKept'
  BY <1>1, <1>2, <1>3 DEF PInv, UnseenKept
<1>7. SnapshotsNested'
  <2> SUFFICES ASSUME NEW q \in Calls, NEW r \in Calls, Deleting(q)', Deleting(r)',
                      NEW c \in Targets(q) \cap Targets(r)
               PROVE  Earlier(q, r, c)' \/ Earlier(r, q, c)'
    BY <1>3 DEF SnapshotsNested
  <2>1. CASE q = p \/ r = p
    BY <1>1, <1>2, <2>1 DEF Earlier
  <2>2. CASE q # p /\ r # p
    BY <1>1, <1>3, <2>2 DEF PInv, SnapshotsNested, Earlier
  <2> QED BY <2>1, <2>2
<1>8. RunningOverlap' /\ MissedOverlap'
  BY <1>1, <1>2, <1>3 DEF PInv, RunningOverlap, MissedOverlap, Beside, Deletes
<1> QED BY <1>4, <1>5, <1>6, <1>7, <1>8 DEF PInv, ScansWhole

\* A cluster that has a scan left has one the deletion did not see, and the latest
\* one is among those.
LEMMA DeleteKeeps == ASSUME PInv, NEW p \in Calls, DeleteScans(p), CommitsStay, TypeOK' PROVE PInv'
<1>1. /\ UNCHANGED <<op, cluster, history, overlap, cleared, result, seen>>
      /\ Deleting(p) /\ pc' = [pc EXCEPT ![p] = "seeClusters"]
      /\ scans' = scans \ seen[p] /\ latest' = latest \ seen[p]
  BY DEF DeleteScans, Goto, request, tx, Deleting
<1>2. DOMAIN pc = Calls /\ latest \subseteq scans
  BY DEF PInv, ScansWhole, TypeOK
<1>3. \A q \in Calls : /\ Targets(q)' = Targets(q) /\ (Running(q)' => Running(q))
                       /\ Deleting(q)' => Deleting(q)
  BY <1>1, <1>2 DEF Targets, Deleting, Deletes, Running, InTx
<1>4. \A s \in seen[p] : cluster[s] \in Targets(p)
  BY <1>1 DEF PInv, SnapshotsScoped
<1>5. LatestKept'
  <2> SUFFICES ASSUME NEW s \in scans, s \notin seen[p]
               PROVE  \E t \in latest : t \notin seen[p] /\ cluster[t] = cluster[s]
    BY <1>1 DEF LatestKept
  <2>1. CASE cluster[s] \in Targets(p)
    BY <1>1, <2>1 DEF PInv, UnseenKept
  <2>2. CASE cluster[s] \notin Targets(p)
    BY <1>4, <2>2 DEF PInv, ScansWhole, LatestKept
  <2> QED BY <2>1, <2>2
<1>6. LatestOverlap' /\ LostLeavesNothing' /\ OutcomeIsLate'
  BY <1>1, <1>2 DEF PInv, ScansWhole, LatestOverlap, LostLeavesNothing, OutcomeIsLate, InTx, Deleting, Deletes
<1>7. SnapshotsScoped'
  <2>1. \A q \in Calls : At(q, "scan", "clear")' => At(q, "scan", "clear")
    BY <1>1, <1>2 DEF At
  <2> QED BY <1>1, <1>3, <2>1, ScopeKept
<1>8. UnseenKept'
  <2>1. ASSUME NEW q \in Calls, Deleting(q), NEW s \in scans, s \notin seen[p],
               s \notin seen[q], cluster[s] \in Targets(q)
        PROVE  \E t \in latest : t \notin seen[p] /\ t \notin seen[q] /\ cluster[t] = cluster[s]
    <3>1. PICK t \in latest : t \notin seen[q] /\ cluster[t] = cluster[s]
      BY <2>1 DEF PInv, UnseenKept
    <3>2. CASE cluster[s] \notin Targets(p)
      BY <1>4, <3>1, <3>2
    <3>3. CASE cluster[s] \in Targets(p)
      <4>1. PICK u \in latest : u \notin seen[p] /\ cluster[u] = cluster[s]
        BY <1>1, <2>1, <3>3 DEF PInv, UnseenKept
      <4>2. Earlier(p, q, cluster[s]) \/ Earlier(q, p, cluster[s])
        BY <1>1, <2>1, <3>3 DEF PInv, SnapshotsNested
      <4>3. CASE Earlier(p, q, cluster[s])
        BY <1>2, <3>1, <4>3 DEF Earlier
      <4>4. CASE Earlier(q, p, cluster[s])
        BY <1>2, <4>1, <4>4 DEF Earlier
      <4> QED BY <4>2, <4>3, <4>4
    <3> QED BY <3>2, <3>3
  <2> SUFFICES ASSUME NEW q \in Calls, Deleting(q)', NEW s \in scans', s \notin seen'[q],
                      cluster'[s] \in Targets(q)'
               PROVE  \E t \in latest' : t \notin seen'[q] /\ cluster'[t] = cluster'[s]
    BY DEF UnseenKept
  <2>2. Deleting(q) /\ s \in scans /\ s \notin seen[p] /\ s \notin seen[q] /\ cluster[s] \in Targets(q)
    BY <1>1, <1>3
  <2>3. PICK t \in latest : t \notin seen[p] /\ t \notin seen[q] /\ cluster[t] = cluster[s]
    BY <2>1, <2>2
  <2> QED BY <1>1, <2>3
<1>9. SnapshotsNested'
  <2>1. \A q, r, c : Earlier(q, r, c) => Earlier(q, r, c)'
    BY <1>1 DEF Earlier
  <2> QED BY <1>3, <2>1 DEF PInv, SnapshotsNested
<1>10. RunningOverlap'
  BY <1>1, <1>3 DEF PInv, RunningOverlap, Beside
<1>11. MissedOverlap'
  BY <1>1, <1>2 DEF PInv, MissedOverlap, Beside
<1> QED BY <1>5, <1>6, <1>7, <1>8, <1>9, <1>10, <1>11 DEF PInv, ScansWhole

\* The retention takes no latest scan.
LEMMA RetentionKeeps == ASSUME PInv, NEW p \in Calls, RetentionScans(p), CommitsStay, TypeOK' PROVE PInv'
<1>1. /\ UNCHANGED <<op, cluster, latest, history, overlap, cleared, result, seen>>
      /\ op[p] = "retention" /\ scans' \subseteq scans
      /\ \/ pc' = [pc EXCEPT ![p] = "history"]
         \/ pc' = [pc EXCEPT ![p] = "done"]
  BY DEF RetentionScans, At, Goto, request, tx
<1>2. DOMAIN pc = Calls
  BY DEF PInv, ScansWhole, TypeOK
<1>3. \A q \in Calls : /\ Targets(q)' = Targets(q) /\ (Running(q)' => Running(q))
                       /\ Deleting(q)' => Deleting(q)
  BY <1>1, <1>2 DEF Targets, Deleting, Deletes, Running, InTx
<1>4. LatestKept' /\ LatestOverlap' /\ LostLeavesNothing' /\ OutcomeIsLate'
  BY <1>1, <1>2 DEF PInv, ScansWhole, LatestKept, LatestOverlap, LostLeavesNothing, OutcomeIsLate, InTx
<1>5. SnapshotsScoped'
  <2>1. \A q \in Calls : At(q, "scan", "clear")' => At(q, "scan", "clear")
    BY <1>1, <1>2 DEF At
  <2> QED BY <1>1, <1>3, <2>1, ScopeKept
<1>6. UnseenKept' /\ SnapshotsNested'
  BY <1>1, <1>3, SnapshotsKept
<1>7. RunningOverlap'
  BY <1>1, <1>3 DEF PInv, RunningOverlap, Beside
<1>8. MissedOverlap'
  BY <1>1, <1>2 DEF PInv, MissedOverlap, Beside
<1> QED BY <1>4, <1>5, <1>6, <1>7, <1>8 DEF PInv, ScansWhole

-----------------------------------------------------------------------------
(* The theorems.                                                           *)

LEMMA PInvInit == FreshIds /\ Init => PInv
<1> SUFFICES ASSUME FreshIds, Init PROVE PInv
  OBVIOUS
<1>1. LatestKept /\ LatestOverlap /\ LostLeavesNothing
  <2>1. \A s \in latest : s \in Before
    BY DEF Init
  <2>2. \A s \in Before : \E t \in latest : {u \in latest : cluster[u] = cluster[s]} = {t}
    BY DEF Init
  <2> QED BY <2>1, <2>2 DEF Init, ScanIds, LatestKept, LatestOverlap, LostLeavesNothing
<1>2. OutcomeIsLate
  BY DEF Init, FreshIds, OutcomeIsLate, ScanIds
<1>3. \A p \in Calls : ~Deleting(p) /\ ~Running(p) /\ pc[p] = "idle" /\ cleared[p] = {}
  BY DEF Init, Deleting, Running, InTx
<1>4. SnapshotsScoped /\ UnseenKept /\ SnapshotsNested /\ RunningOverlap /\ MissedOverlap
  BY <1>3 DEF SnapshotsScoped, UnseenKept, SnapshotsNested, RunningOverlap, MissedOverlap, At
<1> QED BY <1>1, <1>2, <1>4, TypeInit DEF PInv, ScansWhole

LEMMA PInvStep == PInv /\ [Next]_vars => PInv'
<1> SUFFICES ASSUME PInv, [Next]_vars PROVE PInv'
  OBVIOUS
<1>0. TypeOK
  BY DEF PInv, ScansWhole
<1>1. CASE UNCHANGED vars
  <2>1. TypeOK'
    BY <1>0, <1>1 DEF vars, request, tables, tx, TypeOK
  <2>2. CommitsStay
    BY <1>1 DEF vars, CommitsStay
  <2> QED BY <1>1, <2>1, <2>2, StutterIsCalm, CalmKeeps
<1>2. ASSUME NEW p \in Calls, Step(p) PROVE PInv'
  <2>1. TypeOK'
    BY <1>0, <1>2, ScanTypes, DeleteTypes, OtherTypes DEF Step
  <2>2. CommitsStay
    BY <1>2, CommittedStays
  <2>3. CASE Quiet(p)
    BY <1>0, <2>1, <2>2, <2>3, QuietIsCalm, CalmKeeps
  <2>4. \/ Quiet(p) \/ InsertCluster(p) \/ SeeLatest(p) \/ ClearLatest(p) \/ Commit(p)
        \/ SeeScans(p) \/ DeleteScans(p) \/ RetentionScans(p)
    BY <1>2 DEF Step, ScanStep, DeleteStep, OtherStep, Quiet
  <2> QED BY <2>1, <2>2, <2>3, <2>4, InsertKeeps, SeeLatestKeeps, ClearKeeps, CommitKeeps,
             SeeScansKeeps, DeleteKeeps, RetentionKeeps
<1> QED BY <1>1, <1>2 DEF Next, Done

\* A cluster that has scans keeps a latest one, two latest ones are of overlapping
\* transactions, and a lost transaction leaves nothing (pg.go: RecordScan,
\* DeleteCluster, DeleteTenant, Retention), for any number of calls, clusters and
\* earlier scans, if scan ids are fresh.
THEOREM ScansStayWhole == ASSUME FreshIds PROVE Spec => []ScansWhole
<1>1. PInv => ScansWhole
  BY DEF PInv
<1> QED BY <1>1, PInvInit, PInvStep, PTL DEF Spec

\* A seed never reopens what somebody has triaged (pg.go: SeedFindings), whatever
\* else is under way.
THEOREM TriageKept == Spec => SeedKeepsTriage
<1>1. TypeOK /\ [Next]_vars => TypeOK'
  <2> SUFFICES ASSUME TypeOK, [Next]_vars PROVE TypeOK'
    OBVIOUS
  <2>1. CASE UNCHANGED vars
    BY <2>1 DEF vars, request, tables, tx, TypeOK
  <2> QED BY <2>1, ScanTypes, DeleteTypes, OtherTypes DEF Next, Step, Done
<1> DEFINE Kept == \A k \in DOMAIN lifecycle : lifecycle[k] = "triaged" => lifecycle'[k] # "open"
<1>2. TypeOK /\ [Next]_vars => [Kept]_vars
  <2> SUFFICES ASSUME TypeOK, NEW p \in Calls, Step(p), NEW k \in DOMAIN lifecycle, lifecycle[k] = "triaged"
               PROVE  lifecycle'[k] # "open"
    BY DEF Next, Done
  <2>1. CASE SeedFinding(p)
    BY <2>1 DEF SeedFinding
  <2>2. CASE DeleteLifecycle(p)
    BY <2>2 DEF DeleteLifecycle
  <2>3. CASE UpsertLifecycle(p)
    BY <2>3 DEF UpsertLifecycle
  <2>4. CASE UNCHANGED lifecycle
    BY <2>4
  <2>5. CASE ScanStep(p) /\ ~SeedFinding(p)
    BY <2>4, <2>5 DEF ScanStep, InsertCluster, SeeLatest, ClearLatest, UpdateCluster, Commit, Rollback,
       SeedDone, tables
  <2>6. CASE DeleteStep(p) /\ ~DeleteLifecycle(p)
    BY <2>4, <2>6 DEF DeleteStep, DeleteHistory, SeeScans, DeleteScans, SeeClusters, DeleteClusters,
       DeleteTenantRow, DeleteFails, tables
  <2>7. CASE OtherStep(p) /\ ~UpsertLifecycle(p)
    BY <2>4, <2>7 DEF OtherStep, RegisterTenant, RegisterCluster, ProvisionTenant, RetentionScans,
       RetentionHistory
  <2> QED BY <2>1, <2>2, <2>3, <2>5, <2>6, <2>7 DEF Step
<1> QED BY <1>1, <1>2, TypeInit, PTL DEF Spec, SeedKeepsTriage
=============================================================================
