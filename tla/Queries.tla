------------------------------- MODULE Queries -------------------------------
(***************************************************************************)
(* The list queries of the dashboard API as operators: filtering, sorting  *)
(* and paging of findings (dashboard/api.go) and the scan listings of the  *)
(* two stores (dashboard/memstore.go, dashboard/pg/pg.go).  Integers are   *)
(* the machine's: a sum wraps at IntBits bits, and a slice expression      *)
(* whose bounds are out of order panics, which the router's Recoverer      *)
(* answers with a 500.                                                     *)
(*                                                                         *)
(* Names are compared after case folding, so a name here stands for its    *)
(* folded form; what a substring search looks at is the set of terms the   *)
(* text contains; rank and cat are the places of a finding's severity and  *)
(* category in their orders.                                               *)
(***************************************************************************)
EXTENDS Integers, Sequences, SequencesExt, TLC

CONSTANTS
  IntBits,       \* width of an int (64 in the build)
  DefaultLimit,  \* page size of a request that names none (50 in the code)
  MaxPage        \* largest page the Postgres store returns (1000 in the code)

MaxInt  == 2^(IntBits - 1) - 1
Wrap(n) == ((n + 2^(IntBits - 1)) % 2^IntBits) - 2^(IntBits - 1)

-----------------------------------------------------------------------------
(* Paging.  The bounds are positions in Go's half-open sense.              *)

\* Faulty variant: the end is one too near.
PageBounds_short(len, limit, offset) ==
  LET from == IF offset > len THEN len ELSE offset
      end  == Wrap(from + limit)
  IN  [from |-> from, to |-> IF limit <= 0 THEN len ELSE IF end > len THEN len - 1 ELSE end]

PageBounds(len, limit, offset) ==
  LET from == IF offset > len THEN len ELSE offset
      end  == Wrap(from + limit)
  IN  [from |-> from, to |-> IF limit <= 0 \/ end > len THEN len ELSE end]

Panics(b) == ~(0 <= b.from /\ b.from <= b.to)

\* The answer to a list request over the items f.
Recovered == [code |-> 500, page |-> <<>>, total |-> 0]
Paginate(f, limit, offset) ==
  LET b == PageBounds(Len(f), limit, offset)
  IN  IF Panics(b) THEN Recovered
      ELSE [code |-> 200, page |-> SubSeq(f, b.from + 1, b.to), total |-> Len(f)]

-----------------------------------------------------------------------------
(* Findings.                                                               *)

OrDefault(v, d) == IF v = "" THEN d ELSE v
\* An absent or unparsable number is <<>>.
QueryInt(v, d)  == IF v = <<>> THEN d ELSE v[1]

ParseFindingQuery(raw) ==
  [raw EXCEPT !.sort   = OrDefault(@, "severity"),
              !.order  = OrDefault(@, "desc"),
              !.limit  = QueryInt(@, DefaultLimit),
              !.offset = QueryInt(@, 0)]

\* severities is empty when the request names none.
Matches(q, f) ==
  /\ q.severities = {} \/ f.severity \in q.severities
  /\ q.category \in {"", f.category}
  /\ q.namespace \in {"", f.namespace}
  /\ q.framework \in {""} \cup f.frameworks
  /\ q.search \in {""} \cup f.text

FilterFindings(fs, q) == SelectSeq(fs, LAMBDA f : Matches(q, f))

AscLess(key, f, g) ==
  CASE key = "id"       -> f.id < g.id
    [] key = "category" -> \/ f.cat < g.cat
                           \/ f.cat = g.cat /\ f.id < g.id
    [] OTHER            -> \/ f.rank < g.rank
                           \/ f.rank = g.rank /\ f.id < g.id

\* A stable ascending sort, then the whole reversed unless ascending was asked.
\* Faulty variant: the order asked for is ignored.
SortFindings_descAlways(fs, key, order) ==
  LET Precedes(i, j) == AscLess(key, fs[i], fs[j]) \/ (~AscLess(key, fs[j], fs[i]) /\ i < j)
      place          == SortSeq([i \in DOMAIN fs |-> i], Precedes)
  IN  Reverse([n \in DOMAIN fs |-> fs[place[n]]])
SortFindings(fs, key, order) ==
  LET Precedes(i, j) == AscLess(key, fs[i], fs[j]) \/ (~AscLess(key, fs[j], fs[i]) /\ i < j)
      place          == SortSeq([i \in DOMAIN fs |-> i], Precedes)
      asc            == [n \in DOMAIN fs |-> fs[place[n]]]
  IN  IF order = "asc" THEN asc ELSE Reverse(asc)

\* reps holds the scope's report, if there is one.
HandleFindings(reps, raw) ==
  LET q == ParseFindingQuery(raw)
      f == SortFindings(FilterFindings(reps[1], q), q.sort, q.order)
  IN  IF reps = <<>> THEN [code |-> 200, page |-> <<>>, total |-> 0]
      ELSE Paginate(f, q.limit, q.offset)

-----------------------------------------------------------------------------
(* Scans.  lists[c] are the scans of cluster c, the last to land first;    *)
(* order is the clusters in the order they were registered, scope those    *)
(* the request covers.                                                     *)

AllScans(lists, order, scope) ==
  FlattenSeq([i \in DOMAIN order |-> IF order[i] \in scope THEN lists[order[i]] ELSE <<>>])

NewestFirst(all) ==
  LET Precedes(i, j) == all[i].at > all[j].at \/ (all[i].at = all[j].at /\ i < j)
      place          == SortSeq([i \in DOMAIN all |-> i], Precedes)
  IN  [n \in DOMAIN all |-> all[place[n]]]

MemListScans(lists, order, scope, limit, offset) ==
  Paginate(NewestFirst(AllScans(lists, order, scope)), limit, offset)

\* Faulty variant: one row more, to see whether another page follows.
SanitizeLimit_oneMore(n) == IF n <= 0 \/ n > MaxPage THEN MaxPage ELSE n + 1
SanitizeLimit(n) == IF n <= 0 \/ n > MaxPage THEN MaxPage ELSE n
Max0(n)          == IF n < 0 THEN 0 ELSE n

Slice(s, offset, limit) ==
  LET left == Max0(Len(s) - offset)
  IN  [i \in 1 .. IF limit < left THEN limit ELSE left |-> s[offset + i]]

\* The rows the page query may return: ORDER BY started_at DESC leaves the order
\* of equal times to the database, afresh for every query.
PgOrders(rows) == {s \in SetToSeqs(rows) : \A i, j \in DOMAIN s : i < j => s[i].at >= s[j].at}
PgPages(rows, limit, offset) ==
  {Slice(s, Max0(offset), SanitizeLimit(limit)) : s \in PgOrders(rows)}
=============================================================================
