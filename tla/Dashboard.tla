------------------------------ MODULE Dashboard ------------------------------
(***************************************************************************)
(* The dashboard backend as a whole: the API handlers, the scans and the   *)
(* triage handlers of any number of concurrent calls over one in-memory    *)
(* store, one source registry, one audit log and one clock.                *)
(***************************************************************************)
EXTENDS ScanRun, Triage

Init ==
  /\ StoreInit(Home, Configured)
  /\ sources = Configured
  /\ audit = [t \in Tenants |-> {}]
  /\ gauge = [c \in Clusters |-> {}]
  /\ clock = 1
  /\ pc = [p \in Calls |-> "idle"]
  /\ req = [p \in Calls |-> NoRequest]
  /\ local = [p \in Calls |-> NoLocal]

Tick ==
  /\ clock < MaxTime
  /\ clock' = clock + 1
  /\ UNCHANGED <<store, sources, audit, gauge, calls>>

\* Every call has returned; the server goes on waiting.
Quiescent ==
  /\ \A p \in Calls : pc[p] \in Status
  /\ UNCHANGED vars

CallStep(p) == ApiStep(p) \/ ScanStep(p) \/ TriageStep(p)

Next == (\E p \in Calls : CallStep(p)) \/ Tick \/ Quiescent

Spec == Init /\ [][Next]_vars

\* A handler that has been entered keeps being scheduled by the Go runtime.
HandlerStep(p) == pc[p] # "idle" /\ CallStep(p)
Fairness == \A p \in Calls : WF_vars(HandlerStep(p))
FairSpec == Spec /\ Fairness

-----------------------------------------------------------------------------
Local == [rep : Report, lc : FindingLifecycle, at : 0 .. MaxTime, tries : 0 .. attempts]

ApiTypeOK ==
  /\ sources \subseteq Clusters
  /\ audit \in [Tenants -> SUBSET Entry]
  /\ gauge \in [Clusters -> Report]
  /\ clock \in 1 .. MaxTime
  /\ pc \in [Calls -> Step \cup Status]
  /\ req \in [Calls -> Request \cup {NoRequest}]
  /\ local \in [Calls -> Local]

TypeOK == StoreTypeOK /\ ApiTypeOK

\* The state has its type, and the listings that follow a tenant's registration
\* order into its cluster map without a nil check (memstore.go:102) never meet a
\* missing or a repeated cluster, whichever handlers raced to change the two.
StoreWellFormed == TypeOK /\ OrderListsClusters

-----------------------------------------------------------------------------
(* Safety.                                                                 *)

ScanOps  == {"trigger", "cron"}
Recorded == {"stampSeed", "seed", "succeed", "ok"}

\* Call p is a scan of cluster c in tenant t.
IsScan(p, t, c) == req[p].op \in ScanOps /\ Tenant(p) = t /\ Cluster(p) = c

\* Call p has erased tenant t, audit log included.
Erased(p, t) == req[p].op = "erase" /\ req[p].target = t /\ pc[p] = "ok"

\* Every finding of a cluster's latest report has a lifecycle row, or a scan
\* that reported it is between RecordScan and SeedFindings.  However scans,
\* deletions and erasures interleave, no finding stays untracked, so its
\* time-to-resolve is counted from its detection (api.go:358).
TrackedOrPending ==
  \A t \in Tenants : \A c \in DOMAIN clusters[t] : \A f \in LatestReport(t, c) :
    \/ <<c, f>> \in DOMAIN lifecycle[t]
    \/ \E p \in Calls : /\ IsScan(p, t, c)
                        /\ pc[p] \in {"stampSeed", "seed"}
                        /\ f \in local[p].rep

\* A stored scan is one that call made for that tenant and that cluster and
\* got past the scanner, and it is stored once: a retried or failed scan
\* leaves nothing behind (runbooks.md:25), and a scan is never filed under
\* another tenant or cluster.
ScansBelong ==
  \A t \in Tenants : \A c \in DOMAIN clusters[t] :
    LET scans == clusters[t][c].scans
    IN  \A i \in DOMAIN scans :
          /\ IsScan(scans[i].id, t, c)
          /\ pc[scans[i].id] \in Recorded
          /\ \A j \in DOMAIN scans : scans[j].id = scans[i].id => j = i

\* A cluster row the scanner has no source for is there only because a
\* DELETE of that id took the source away: a rejected source leaves no row
\* behind, and no other handler withdraws a source (api.go:239).
NoDanglingCluster ==
  \A t \in Tenants : \A c \in DOMAIN clusters[t] \ sources :
    \E p \in Calls : /\ req[p].op = "delete" /\ Cluster(p) = c
                     /\ pc[p] \in {"auditDelete", "ok"}

\* What the store holds has a cause: a scan of its own for each entry, and for a
\* cluster without a source the deletion that took it (api.go:239, api.go:357).
StoredWithCause == ScansBelong /\ NoDanglingCluster

\* A call that succeeded, was refused or failed in the scanner has its entry
\* in its caller's log, unless the caller's tenant was erased.  The record of
\* a cross-tenant erasure thus outlives the purge it precedes
\* (tenants_api.go:60).
AuditSurvives ==
  \A p \in Calls :
    pc[p] \in {"ok", "forbidden", "failed"} =>
      \/ \E e \in audit[Tenant(p)] : e.by = p
      \/ \E q \in Calls : Erased(q, Tenant(p))

\* A step changes a tenant's partition only on behalf of a call of that
\* tenant, or of one that provisions or erases it (store.go:84).
TenantIsolation ==
  [][ \A t \in Tenants :
        <<t \in tenants, clusters[t], order[t], lifecycle[t]>>'
            # <<t \in tenants, clusters[t], order[t], lifecycle[t]>> =>
          \E p \in Calls :
            /\ pc'[p] # pc[p]
            /\ IF req[p].op \in {"provision", "erase"}
                 THEN req[p].target = t
                 ELSE Tenant(p) = t ]_vars

-----------------------------------------------------------------------------
(* Triage.                                                                 *)

\* A row's fields agree whichever handlers raced to write it: a waiver iff
\* the risk is accepted, a resolution time iff it is resolved, no time before
\* the finding was first seen, no waiver beyond the configured maximum.
RowsCoherent ==
  \A t \in Tenants : \A k \in DOMAIN lifecycle[t] :
    LET lc == lifecycle[t][k]
    IN  /\ lc.state = "risk-accepted" <=> lc.expiresAt # Never
        /\ lc.state = "resolved" <=> lc.resolvedAt # Never
        /\ Never < lc.firstSeen /\ lc.firstSeen <= lc.lastUpdated
        /\ lc.resolvedAt \in {Never, lc.lastUpdated}
        /\ lc.expiresAt <= lc.lastUpdated + MaxWaiver

\* Every resolved row enters the mean time-to-resolve: the rows ComputeMTTR
\* would skip for a missing or inverted timestamp do not arise.
MTTRCoversResolved ==
  \A t \in Tenants :
    LET mttr == ComputeMTTR(lifecycle[t], clock)
    IN  mttr.measured = mttr.count["resolved"]

\* A finding that enforcement suppresses is covered by a waiver an approver
\* asked for on that very key, unexpired, and the grant is in the audit log
\* or about to be written there.
SuppressionIsApproved ==
  \A t \in Tenants : \A c \in DOMAIN clusters[t] :
    \A f \in LatestReport(t, c)
              \ BlockingFindings(c, LatestReport(t, c), WaivedKeys(t, c, clock)) :
      \E p \in Calls :
        /\ req[p].op = "waive" /\ Tenant(p) = t /\ Key(p) = <<c, f>>
        /\ clock < req[p].until
        /\ req[p].until = lifecycle[t][<<c, f>>].expiresAt
        /\ \/ pc[p] = "auditRow"
           \/ /\ pc[p] = "ok"
              /\ \/ [by |-> p, action |-> "finding.waiver", result |-> "allowed"]
                       \in audit[t]
                 \/ \E q \in Calls : Erased(q, t)

\* A scan leaves existing triage state untouched (api.go:359): a row that
\* stays is changed only by a triage handler writing its copy back.
TriageSurvivesScans ==
  [][ \A t \in Tenants : \A k \in DOMAIN lifecycle[t] :
        k \in DOMAIN lifecycle'[t] /\ lifecycle'[t][k] # lifecycle[t][k] =>
          \E p \in Calls : pc[p] = "upsert" /\ pc'[p] = "auditRow" ]_vars

-----------------------------------------------------------------------------
(* Liveness.                                                               *)

\* Every call returns: the scanner's retries are bounded and no handler
\* waits on another.
CallsReturn == \A p \in Calls : pc[p] # "idle" ~> pc[p] \in Status

-----------------------------------------------------------------------------
(* What comments and documents say that the code does not do.              *)

\* "A tenant's data is hard-deleted irreversibly" (docs/privacy.md): with
\* nobody registering or provisioning anew, an erased tenant stays empty.
ErasedStaysErased ==
  \A t \in Tenants :
    /\ \E p \in Calls : Erased(p, t)
    /\ ~\E p \in Calls : \/ req[p].op = "register" /\ Tenant(p) = t
                         \/ req[p].op = "provision" /\ req[p].target = t
    => DOMAIN clusters[t] = {} /\ DOMAIN lifecycle[t] = {}
=============================================================================
