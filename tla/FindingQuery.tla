---------------------------- MODULE FindingQuery -----------------------------
(***************************************************************************)
(* GET /v1/findings: one request, with whatever it names, against one      *)
(* scope's latest report, and its answer.  The reference the answer is     *)
(* held to counts instead of sorting: a finding's place in the listing is  *)
(* the number of matching findings that come before it.                    *)
(***************************************************************************)
EXTENDS Queries, FiniteSets

CONSTANTS
  Reports,   \* the reports a scope may have
  Requests   \* the requests, without their limit and offset

VARIABLES
  reps,   \* the scope's report, if there is one
  raw,    \* the request
  resp    \* the answer, once given

vars == <<reps, raw, resp>>

\* Small numbers and the ends of the machine's range.
Numbers  == {<<>>} \cup {<<n>> : n \in -2 .. 4} \cup {<<n>> : n \in (MaxInt - 2) .. MaxInt}
Pending  == [code |-> 0, page |-> <<>>, total |-> 0]
Answered == resp.code # 0

Init ==
  /\ reps \in {<<>>} \cup {<<r>> : r \in Reports}
  /\ \E q \in Requests, limit, offset \in Numbers :
       raw = q @@ [limit |-> limit, offset |-> offset]
  /\ resp = Pending

Answer ==
  /\ ~Answered
  /\ resp' = HandleFindings(reps, raw)
  /\ UNCHANGED <<reps, raw>>

Next == Answer \/ (Answered /\ UNCHANGED vars)
Spec == Init /\ [][Next]_vars

-----------------------------------------------------------------------------
(* The reference.                                                          *)

q == ParseFindingQuery(raw)

\* A finding satisfies a request when it satisfies every criterion named.
Wanted ==
  IF reps = <<>> THEN {}
  ELSE {f \in Range(reps[1]) :
          /\ raw.severities # {} => f.severity \in raw.severities
          /\ raw.category # ""   => f.category = raw.category
          /\ raw.namespace # ""  => f.namespace = raw.namespace
          /\ raw.framework # ""  => raw.framework \in f.frameworks
          /\ raw.search # ""     => raw.search \in f.text}

\* What comes before what in the order asked for: by the key, then by id, both
\* from the top unless "asc" was asked.
Key(f) == CASE q.sort = "id" -> 0 [] q.sort = "category" -> f.cat [] OTHER -> f.rank
Precedes(f, g) ==
  LET up(x, y) == Key(x) < Key(y) \/ (Key(x) = Key(y) /\ x.id < y.id)
  IN  IF q.order = "asc" THEN up(f, g) ELSE up(g, f)

PageInPlace ==
  resp.code = 200 =>
    /\ resp.total = Cardinality(Wanted)
    /\ \A i, j \in DOMAIN resp.page : resp.page[i] = resp.page[j] => i = j
    /\ \A i \in DOMAIN resp.page :
         LET f == resp.page[i]
         IN  /\ f \in Wanted
             /\ Cardinality({g \in Wanted : Precedes(g, f)}) <= q.offset + i - 1
             /\ q.offset + i - 1 < Cardinality({g \in Wanted : ~Precedes(f, g)})

FullPage ==
  Answered /\ q.offset >= 0 /\ q.offset + q.limit <= MaxInt =>
    /\ resp.code = 200
    /\ LET left == Max0(Cardinality(Wanted) - q.offset)
       IN  Len(resp.page) = IF q.limit <= 0 \/ q.limit > left THEN left ELSE q.limit

\* An answer of 200 carries the number of matching findings as its total, and
\* each finding of its page is one that matches, at a place the order allows:
\* no fewer places down than findings precede it, no more than do not follow it.
\* No finding is on the page twice (filterFindings, sortFindings, paginate).
\* A request inside the listing is never refused and gets a full page: for an
\* offset that is not negative and a sum of offset and limit the machine can
\* hold, the page has limit findings or all that are left, and an offset past
\* the end gets an empty page; a limit of zero or less means all that are left.
PageIsRight == PageInPlace /\ FullPage
=============================================================================
