------------------------------- MODULE Paging --------------------------------
(***************************************************************************)
(* A client walks GET /v1/scans page by page while scans land and clusters *)
(* are removed: it asks for limit scans at an offset, moves the offset on  *)
(* by limit, and stops when the offset reaches the total of the last       *)
(* answer.  The in-memory store answers under its read lock; the Postgres  *)
(* store counts and selects in two statements, and reports a statement     *)
(* that fails as an empty page.                                            *)
(***************************************************************************)
EXTENDS Queries, FiniteSets

CONSTANTS
  Order,       \* the clusters of the tenant, in the order of their registration
  Backend,     \* "mem" or "pg"
  Limits,      \* the page sizes a client may ask for, positive
  MaxScans,    \* bound: scans that land
  MaxTime,     \* bound: the seconds that pass
  MaxDeletes,  \* bound: clusters removed
  MaxFaults    \* bound: statements of the Postgres store that fail

VARIABLES
  lists,    \* the scans of each cluster, the last to land first
  now,      \* the second a.now() renders
  walk,     \* the client: where it is, its page size, the next offset,
            \* and (history) the scans landed when it began
  total,    \* the total of the last answer
  got,      \* the scans received, in order
  there,    \* history: what the store held when the walk began
  landed,   \* the scans that have landed, numbered in landing order
  deletes, faults

vars == <<lists, now, walk, total, got, there, landed, deletes, faults>>

Clusters == Range(Order)
Scan     == [id : 1 .. MaxScans, at : 0 .. MaxTime]
Rows     == UNION {Range(lists[c]) : c \in Clusters}
Listing  == NewestFirst(AllScans(lists, Order, Clusters))

TypeOK ==
  /\ lists \in [Clusters -> Seq(Scan)]
  /\ now \in 0 .. MaxTime
  /\ walk \in [pc : {"idle", "ask", "select", "done"}, limit : Limits, offset : Nat, since : Nat]
  /\ total \in Nat
  /\ got \in Seq(Scan)
  /\ there \in Seq(Scan)
  /\ landed \in 0 .. MaxScans
  /\ deletes \in 0 .. MaxDeletes
  /\ faults \in 0 .. MaxFaults

Init ==
  /\ lists = [c \in Clusters |-> <<>>]
  /\ now = 0
  /\ walk \in [pc : {"idle"}, limit : Limits, offset : {0}, since : {0}]
  /\ total = 0
  /\ got = <<>>
  /\ there = <<>>
  /\ landed = 0
  /\ deletes = 0
  /\ faults = 0

client == <<walk, total, got, there>>
bounds == <<deletes, faults>>

-----------------------------------------------------------------------------
(* The store.                                                              *)

Tick ==
  /\ now < MaxTime
  /\ now' = now + 1
  /\ UNCHANGED <<lists, client, landed, bounds>>

\* RecordScan: the time of a scan is read before the store's lock is taken, so
\* a scan may land behind one of a later second.
Land(c) ==
  /\ landed < MaxScans
  /\ landed' = landed + 1
  /\ \E at \in {now, Max0(now - 1)} :
       lists' = [lists EXCEPT ![c] = <<[id |-> landed', at |-> at]>> \o @]
  /\ UNCHANGED <<now, client, bounds>>

DeleteCluster(c) ==
  /\ deletes < MaxDeletes
  /\ lists[c] # <<>>
  /\ lists' = [lists EXCEPT ![c] = <<>>]
  /\ deletes' = deletes + 1
  /\ UNCHANGED <<now, client, landed, faults>>

-----------------------------------------------------------------------------
(* The client and handleListScans.                                         *)

Begin ==
  /\ walk.pc = "idle"
  /\ walk' = [walk EXCEPT !.pc = "ask", !.since = landed]
  /\ there' = Listing
  /\ UNCHANGED <<lists, now, total, got, landed, bounds>>

\* The client takes an answer and moves on, or stops at the total.
Take(page, n) ==
  LET next == walk.offset + walk.limit
  IN  /\ got' = got \o page
      /\ total' = n
      /\ walk' = [walk EXCEPT !.offset = next, !.pc = IF next >= n THEN "done" ELSE "ask"]

MemAnswer ==
  /\ Backend = "mem" /\ walk.pc = "ask"
  /\ \E r \in {MemListScans(lists, Order, Clusters, walk.limit, walk.offset)} :
       Take(r.page, r.total)
  /\ UNCHANGED <<lists, now, there, landed, bounds>>

PgCount ==
  /\ Backend = "pg" /\ walk.pc = "ask"
  /\ total' = Cardinality(Rows)
  /\ walk' = [walk EXCEPT !.pc = "select"]
  /\ UNCHANGED <<lists, now, got, there, landed, bounds>>

PgSelect ==
  /\ walk.pc = "select"
  /\ \E page \in PgPages(Rows, walk.limit, walk.offset) : Take(page, total)
  /\ UNCHANGED <<lists, now, there, landed, bounds>>

\* A failing count answers an empty page of none, a failing select an empty page.
PgFault ==
  /\ Backend = "pg" /\ walk.pc \in {"ask", "select"}
  /\ faults < MaxFaults
  /\ faults' = faults + 1
  /\ Take(<<>>, IF walk.pc = "ask" THEN 0 ELSE total)
  /\ UNCHANGED <<lists, now, there, landed, deletes>>

Done == walk.pc = "done" /\ UNCHANGED vars

Next ==
  \/ Tick
  \/ \E c \in Clusters : Land(c) \/ DeleteCluster(c)
  \/ Begin \/ MemAnswer \/ PgCount \/ PgSelect \/ PgFault
  \/ Done

Spec == Init /\ [][Next]_vars

-----------------------------------------------------------------------------
(* Properties.                                                             *)

\* ListScans is documented as "newest first ... paginated": a client that walks
\* to the end receives every scan the store held when it began, however many
\* scans land meanwhile and wherever they sort in, unless a cluster was removed
\* or the database failed.  (A landing scan moves the others towards the pages
\* still to come, so the walk may repeat a scan but skips none.)
NoScanMissed ==
  /\ TypeOK
  /\ walk.pc = "done" /\ deletes = 0 /\ faults = 0 => Range(there) \subseteq Range(got)

Undisturbed == walk.pc = "done" /\ landed = walk.since /\ deletes = 0 /\ faults = 0

PagesTileBySecond ==
  Undisturbed =>
    /\ Len(got) = Len(there)
    /\ \A i, j \in DOMAIN got : i < j => got[i].at >= got[j].at
    /\ (\A x, y \in Range(there) : x.at = y.at => x = y) => got = there

\* When nothing lands during the walk, its pages put together are the listing
\* itself: newest first, scans of the same second in the same order on every
\* page, none repeated.  The Postgres store promises less, since its ORDER BY
\* (pg.go: ListScans) names only the second a scan started in: the pages are the
\* listing when no two scans share a second, and otherwise they are still as long
\* as the total announced and newest first.
PagesTile ==
  /\ Backend = "mem" /\ Undisturbed => got = there
  /\ PagesTileBySecond
=============================================================================
