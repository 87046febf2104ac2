----------------------------- MODULE TriageLane ------------------------------
(***************************************************************************)
(* GET /v1/lifecycle beside the rest of the dashboard: the triage lane,    *)
(* which overlays the stored rows on the findings of the latest reports.   *)
(* handleListLifecycle (dashboard/lifecycle_api.go) reads the clock, then  *)
(* the rows, then the clusters, then one report after another, with scans, *)
(* triage, waivers, deletions and erasures in between.                     *)
(***************************************************************************)
EXTENDS Dashboard

CONSTANT Scopes   \* what a request may be about: <<c>>, or <<>> for the fleet

ASSUME LaneAssumption == Scopes \subseteq {<<>>} \cup {<<c>> : c \in Clusters}

VARIABLES
  lane,    \* the request: its next step, tenant and scope, and the handler's now,
           \* stored, clusterIDs and items
  mttr,    \* the summary it answered with
  held,    \* history: the rows there were since the request began, the keys that
           \* were without one, and those reported then or later
  steady   \* history: the keys that had a row, and those reported, all that time

laneVars == <<lane, mttr, held, steady>>
allVars  == <<vars, laneVars>>

Default == OpenRow(Never, Never)

\* The rows of a tenant, the findings without one, and the reported ones.
RowsNow(t)     == {<<k, lifecycle[t][k]>> : k \in DOMAIN lifecycle[t]}
BareNow(t)     == Keys \ DOMAIN lifecycle[t]
ReportedNow(t) == UNION {{c} \X LatestReport(t, c) : c \in DOMAIN clusters[t]}

\* What has been seen, h, with one more moment.
Seen(h, rows, bare, reported) ==
  [ rows  |-> h.rows \cup rows,
    bare  |-> h.bare \cup bare,
    fresh |-> h.fresh \cup (reported \cap (h.bare \cup bare)) ]

NothingSeen == [rows |-> {}, bare |-> {}, fresh |-> {}]

NoLane ==
  /\ lane \in [pc : {"idle"}, tenant : Tenants, scope : Scopes,
               now : {Never}, stored : {EmptyMap}, todo : {<<>>}, items : {EmptyMap}]
  /\ mttr = ComputeMTTR(EmptyMap, Never)
  /\ held = NothingSeen /\ steady = [rows |-> {}, reported |-> {}]

LaneInit == Init /\ NoLane

-----------------------------------------------------------------------------
OpenLane ==
  /\ lane.pc = "idle"
  /\ lane' = [lane EXCEPT !.pc = "rows", !.now = clock]
  /\ LET t == lane.tenant
     IN  /\ held' = Seen(NothingSeen, RowsNow(t), BareNow(t), ReportedNow(t))
         /\ steady' = [rows |-> DOMAIN lifecycle[t], reported |-> ReportedNow(t)]
  /\ UNCHANGED <<vars, mttr>>

InScope(k) == lane.scope = <<>> \/ lane.scope[1] = k[1]

ListLifecycle ==
  /\ lane.pc = "rows"
  /\ lane' = [lane EXCEPT !.pc = "clusters",
                          !.stored = Restrict(lifecycle[lane.tenant],
                                       {k \in DOMAIN lifecycle[lane.tenant] : InScope(k)})]
  /\ UNCHANGED <<vars, mttr, held, steady>>

ListClusters ==
  /\ lane.pc = "clusters"
  /\ lane' = [lane EXCEPT !.pc = "reports",
                          !.todo = IF lane.scope = <<>> THEN order[lane.tenant] ELSE lane.scope]
  /\ UNCHANGED <<vars, mttr, held, steady>>

Effective(lc) == [lc EXCEPT !.state = EffectiveState(lc, lane.now)]

\* One round of the loop over the clusters.
\* Faulty variant: the stored row is not looked at.
Overlay_untouched(c) ==
  LET keys == {c} \X LatestReport(lane.tenant, c)
  IN  [k \in DOMAIN lane.items \cup keys |->
         IF k \in DOMAIN lane.items THEN lane.items[k] ELSE Default]
Overlay(c) ==
  LET keys == {c} \X LatestReport(lane.tenant, c)
  IN  [k \in DOMAIN lane.items \cup keys |->
         IF k \in DOMAIN lane.items THEN lane.items[k]
         ELSE Effective(IF k \in DOMAIN lane.stored THEN lane.stored[k] ELSE Default)]

ReadReport ==
  /\ lane.pc = "reports" /\ lane.todo # <<>>
  /\ lane' = [lane EXCEPT !.items = Overlay(Head(lane.todo)), !.todo = Tail(@)]
  /\ UNCHANGED <<vars, mttr, held, steady>>

\* The rows of findings that dropped out of the reports are listed as well.
\* Faulty variant: they are not.
Rest_dropped == lane.items
Rest ==
  [k \in DOMAIN lane.items \cup DOMAIN lane.stored |->
     IF k \in DOMAIN lane.items THEN lane.items[k] ELSE Effective(lane.stored[k])]

AnswerLane ==
  /\ lane.pc = "reports" /\ lane.todo = <<>>
  /\ lane' = [lane EXCEPT !.pc = "done", !.items = Rest]
  /\ mttr' = ComputeMTTR(Rest, lane.now)
  /\ UNCHANGED <<vars, held, steady>>

LaneStep == OpenLane \/ ListLifecycle \/ ListClusters \/ ReadReport \/ AnswerLane

\* The other calls go on meanwhile.  Once the answer is out, what they do is no
\* longer of interest here.
Elsewhere ==
  /\ lane.pc # "done"
  /\ Next
  /\ UNCHANGED <<lane, mttr>>
  /\ IF lane.pc = "idle"
       THEN UNCHANGED <<held, steady>>
       ELSE LET t == lane.tenant
            IN  /\ held' = Seen(held, RowsNow(t)', BareNow(t)', ReportedNow(t)')
                /\ steady' = [ rows     |-> steady.rows \cap DOMAIN lifecycle'[t],
                               reported |-> steady.reported \cap ReportedNow(t)' ]

Answered == lane.pc = "done" /\ UNCHANGED allVars

LaneNext == LaneStep \/ Elsewhere \/ Answered
LaneSpec == LaneInit /\ [][LaneNext]_allVars

-----------------------------------------------------------------------------
(* Properties.                                                             *)

Done == lane.pc = "done"

\* The lane shows nothing that never was: the row of every item is one its key
\* had at some moment of the request, with the waiver's expiry judged at the
\* request's clock; or it is the default, and the finding was without a row at some
\* moment of the request and reported then or later (lifecycle_api.go:90), although
\* rows and reports are read at different moments.
LaneShowsWhatWas ==
  Done => \A k \in DOMAIN lane.items :
            \/ \E h \in held.rows : h[1] = k /\ lane.items[k] = Effective(h[2])
            \/ lane.items[k] = Default /\ k \in held.fresh

NothingMissing ==
  Done => {k \in steady.rows \cup steady.reported : InScope(k)} \subseteq DOMAIN lane.items

SummaryAgrees ==
  Done => /\ \A s \in FindingState :
               mttr.count[s] = Cardinality({k \in DOMAIN lane.items : lane.items[k].state = s})
          /\ mttr.measured = mttr.count["resolved"]

\* Nothing that was there all along is missing: a finding of the scope whose row
\* was stored at every moment of the request is in the lane, even when reports
\* drop it or its cluster is scanned anew meanwhile, and so is one that was
\* reported at every moment, whether or not it had a row yet.  The
\* summary (lifecycle.go: ComputeMTTR) counts every item once, in the state the
\* lane shows it in, and every resolved item enters the mean.
LaneIsComplete == NothingMissing /\ SummaryAgrees
=============================================================================
