------------------------------ MODULE Lifecycle ------------------------------
(***************************************************************************)
(* The triage state of one finding (dashboard/lifecycle.go): a row per     *)
(* finding identity, the waiver it may carry, the state a reader sees once *)
(* waiver expiry is applied, and the summaries computed from a set of      *)
(* rows.  A timestamp is a natural number; Never stands for the empty      *)
(* string the code uses for "not set".  A row's waiver is represented by   *)
(* its expiry, Never standing for the nil waiver: every handler that       *)
(* writes a row replaces the waiver as a whole.                            *)
(***************************************************************************)
EXTENDS Naturals, FiniteSets, FiniteSetsExt

Never == 0

\* The states an analyst may set directly, and the one only a waiver reaches.
triageStates == {"open", "acknowledged", "in-progress", "resolved"}
FindingState == triageStates \cup {"risk-accepted"}

FindingLifecycle ==
  [ state       : FindingState,
    expiresAt   : Nat,
    firstSeen   : Nat,
    lastUpdated : Nat,
    resolvedAt  : Nat ]

-----------------------------------------------------------------------------
\* (*Waiver).Active: present and not yet expired at now.
Active(lc, now) == lc.expiresAt # Never /\ now < lc.expiresAt

EffectiveState(lc, now) ==
  IF lc.state = "risk-accepted" /\ ~Active(lc, now) THEN "open" ELSE lc.state

\* Faulty variant: the expiry is not looked at.
IsActivelyWaived_everlasting(lc, now) == lc.state = "risk-accepted"

IsActivelyWaived(lc, now) == lc.state = "risk-accepted" /\ Active(lc, now)

-----------------------------------------------------------------------------
\* The rows as the handlers write them: first sight of a finding, a triage
\* transition, a granted waiver and a revoked one.
OpenRow(seen, updated) ==
  [ state |-> "open", expiresAt |-> Never, firstSeen |-> seen,
    lastUpdated |-> updated, resolvedAt |-> Never ]

\* Faulty variant: the old waiver is left on the row.
SetState_keepsWaiver(lc, state, now) ==
  [ lc EXCEPT !.state       = state,
              !.resolvedAt  = IF state = "resolved" THEN now ELSE Never,
              !.lastUpdated = now ]

SetState(lc, state, now) ==
  [ lc EXCEPT !.state       = state,
              !.expiresAt   = Never,
              !.resolvedAt  = IF state = "resolved" THEN now ELSE Never,
              !.lastUpdated = now ]

AcceptRisk(lc, until, now) ==
  [ lc EXCEPT !.state       = "risk-accepted",
              !.resolvedAt  = Never,
              !.expiresAt   = until,
              !.lastUpdated = now ]

Revoke(lc, now) ==
  [ lc EXCEPT !.state = "open", !.expiresAt = Never, !.lastUpdated = now ]

-----------------------------------------------------------------------------
\* ComputeMTTR over rows (a function from keys to rows) at now: how many rows
\* are in each effective state, and the time-to-resolve summed over the rows
\* the mean is taken over.
ComputeMTTR(rows, now) ==
  LET measured == { k \in DOMAIN rows :
                      /\ rows[k].state = "resolved"
                      /\ rows[k].firstSeen # Never
                      /\ rows[k].resolvedAt # Never
                      /\ rows[k].resolvedAt >= rows[k].firstSeen }
  IN  [ count    |-> [ s \in FindingState |->
                         Cardinality({k \in DOMAIN rows :
                                        EffectiveState(rows[k], now) = s}) ],
        measured |-> Cardinality(measured),
        total    |-> MapThenSumSet(LAMBDA k : rows[k].resolvedAt - rows[k].firstSeen,
                                   measured) ]

\* BlockingFindings: the findings of a report no waived key suppresses.
BlockingFindings(c, findings, waived) == {f \in findings : <<c, f>> \notin waived}
=============================================================================
