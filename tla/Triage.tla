------------------------------- MODULE Triage --------------------------------
(***************************************************************************)
(* The findings-lifecycle handlers (dashboard/lifecycle_api.go): set the   *)
(* triage state of a finding, grant a waiver, revoke one.  Each reads the  *)
(* row, changes its copy and writes the copy back; the store's lock is not *)
(* held in between.                                                        *)
(***************************************************************************)
EXTENDS Api

Key(p) == <<Cluster(p), req[p].finding>>

\* handleCreateWaiver checks the expiry against the clock before anything else.
ValidateWaiver(p) ==
  /\ pc[p] = "validate"
  /\ IF clock < req[p].until /\ req[p].until <= clock + MaxWaiver
       THEN Goto(p, "load") /\ UNCHANGED local
       ELSE Return(p, "badRequest")
  /\ UNCHANGED <<store, sources, audit, gauge, clock, req>>

\* loadOrInitLifecycle, its first half: the stored row.
Load(p) ==
  /\ pc[p] = "load"
  /\ req[p].op \in {"triage", "waive"}
  /\ IF Key(p) \in DOMAIN lifecycle[Tenant(p)]
       THEN /\ local' = [local EXCEPT ![p].lc = lifecycle[Tenant(p)][Key(p)]]
            /\ Goto(p, "stampRow")
       ELSE Goto(p, "search") /\ UNCHANGED local
  /\ UNCHANGED <<store, sources, audit, gauge, clock, req>>

\* Its second half: an open row for a finding of a current report.  The code
\* lists the clusters and then asks for each report; only the report of the
\* key's own cluster can match.
Search(p) ==
  /\ pc[p] = "search"
  /\ IF req[p].finding \in LatestReport(Tenant(p), Cluster(p))
       THEN /\ local' = [local EXCEPT ![p].lc = OpenRow(clock, Never)]
            /\ Goto(p, "stampRow")
       ELSE Return(p, "notFound")
  /\ UNCHANGED <<store, sources, audit, gauge, clock, req>>

\* handleDeleteWaiver acts on a stored row that carries a waiver.
LoadWaiver(p) ==
  /\ pc[p] = "load"
  /\ req[p].op = "revoke"
  /\ IF /\ Key(p) \in DOMAIN lifecycle[Tenant(p)]
        /\ lifecycle[Tenant(p)][Key(p)].expiresAt # Never
       THEN /\ local' = [local EXCEPT ![p].lc = lifecycle[Tenant(p)][Key(p)]]
            /\ Goto(p, "stampRow")
       ELSE Return(p, "notFound")
  /\ UNCHANGED <<store, sources, audit, gauge, clock, req>>

StampRow(p) == Stamp(p, "stampRow", "upsert")

\* The row the handler writes back.
NewRow(p) ==
  LET lc == local[p].lc
      now == local[p].at
  IN  CASE req[p].op = "triage" -> SetState(lc, req[p].state, now)
        [] req[p].op = "waive"  -> AcceptRisk(lc, req[p].until, now)
        [] req[p].op = "revoke" -> Revoke(lc, now)

Upsert(p) ==
  /\ pc[p] = "upsert"
  /\ UpsertLifecycle(Tenant(p), Key(p), NewRow(p))
  /\ Goto(p, "auditRow")
  /\ UNCHANGED <<sources, audit, gauge, clock, req, local>>

rowAction(op) ==
  CASE op = "triage" -> "finding.triage"
    [] op = "waive"  -> "finding.waiver"
    [] op = "revoke" -> "finding.waiver.revoke"

AuditRow(p) ==
  /\ pc[p] = "auditRow"
  /\ Write(p, rowAction(req[p].op), "allowed")
  /\ Return(p, "ok")
  /\ UNCHANGED <<store, sources, gauge, clock, req>>

TriageStep(p) ==
  \/ ValidateWaiver(p) \/ Load(p) \/ Search(p) \/ LoadWaiver(p)
  \/ StampRow(p) \/ Upsert(p) \/ AuditRow(p)

-----------------------------------------------------------------------------
\* WaivedKeys: the keys of a cluster under a valid, unexpired waiver.
WaivedKeys(t, c, now) ==
  {k \in DOMAIN lifecycle[t] : k[1] = c /\ IsActivelyWaived(lifecycle[t][k], now)}
=============================================================================
