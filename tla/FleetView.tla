------------------------------ MODULE FleetView ------------------------------
(***************************************************************************)
(* Reading the reports of the in-memory store (dashboard/memstore.go):     *)
(* RecordScan, Report and the MergeReports of its tenant-wide view, and    *)
(* the handler that encodes the answer after the lock is gone.  A report's *)
(* breaches are a Go slice.  Copying a report copies the slice's header,   *)
(* not its array, and append writes into the array while it has room; so   *)
(* the module keeps the arrays, word by word, and lets every copy and      *)
(* every read of them interleave.  The frameworks of a report have arrays  *)
(* of their own; the module has one framework and one tenant.              *)
(***************************************************************************)
EXTENDS Naturals, Sequences

CONSTANTS
  Order,         \* the tenant's clusters, in registration order
  Scans,         \* the scans that may be recorded
  NoScan,
  Readers,       \* requests in flight
  MaxBreaches,   \* bound on the breaches of a report
  Cap,           \* Cap[n]: capacity of an array grown to n elements by append
  Words          \* machine words of a breach

Clusters == {Order[i] : i \in DOMAIN Order}

ASSUME OrderAssumption == Order \in Seq(Clusters)

ASSUME FleetAssumption ==
  /\ NoScan \notin Scans
  /\ MaxBreaches \in Nat /\ Words \in Nat \ {0}
  /\ Cap \in [0..MaxBreaches -> Nat]
  /\ \A n \in 0..MaxBreaches : Cap[n] >= n

VARIABLES
  latest,    \* latest[c]: the cluster's latest report
  recorded,  \* the scans recorded so far
  size,      \* size[k]: how many breaches the report of scan k has
  mem,       \* mem[k]: the array behind the breaches of scan k
  pc,        \* what each request is doing
  reps,      \* Report's list of reports
  at,        \* MergeReports' position in reps
  slice,     \* header of the merged breaches: an array of the store, or none
  own,       \* the request's private array
  from,      \* the next word append copies
  out,       \* what has been encoded
  alone      \* history: no other request was in flight at any time of this one

vars == <<latest, recorded, size, mem, pc, reps, at, slice, own, from, out, alone>>
request == <<reps, at, slice, own, from, out>>

Extent(k) == size[k] * Words
Room(k)   == Cap[size[k]] * Words

\* Word i of the breaches that scan k found; memory nothing was written to.
WordOf(k, i) == <<k, i>>
Zero == <<NoScan, 0>>
Word == (Scans \cup {NoScan}) \X Nat

NoSlice == [arr |-> NoScan, len |-> 0]
Slice   == [arr : Scans \cup {NoScan}, len : Nat]

Init ==
  /\ latest = [c \in Clusters |-> NoScan]
  /\ recorded = {}
  /\ size = [k \in Scans |-> 0]
  /\ mem = [k \in Scans |-> [i \in 1..Room(k) |-> Zero]]
  /\ pc = [r \in Readers |-> "idle"]
  /\ reps = [r \in Readers |-> <<>>]
  /\ at = [r \in Readers |-> 1]
  /\ slice = [r \in Readers |-> NoSlice]
  /\ own = [r \in Readers |-> <<>>]
  /\ from = [r \in Readers |-> 1]
  /\ out = [r \in Readers |-> <<>>]
  /\ alone = [r \in Readers |-> TRUE]

InFlight == {r \in Readers : pc[r] # "idle"}

-----------------------------------------------------------------------------
(* RecordScan waits for the readers' lock.                                  *)

RecordScan(c, k, n) ==
  /\ \A r \in Readers : pc[r] \notin {"merge", "grow"}
  /\ k \notin recorded /\ recorded' = recorded \cup {k}
  /\ latest' = [latest EXCEPT ![c] = k]
  /\ size' = [size EXCEPT ![k] = n]
  /\ mem' = [mem EXCEPT ![k] =
       [i \in 1..(Cap[n] * Words) |-> IF i <= n * Words THEN WordOf(k, i) ELSE Zero]]
  /\ UNCHANGED <<pc, request, alone>>

-----------------------------------------------------------------------------
(* Report.                                                                  *)

Starts(r, to) ==
  /\ pc[r] = "idle"
  /\ pc' = [pc EXCEPT ![r] = to]
  /\ alone' = [x \in Readers |->
       IF x = r THEN InFlight = {} ELSE alone[x] /\ pc[x] = "idle"]

\* The report of one cluster: the handler gets the stored slice's header.
ReportOne(r, c) ==
  /\ latest[c] # NoScan
  /\ Starts(r, "encode")
  /\ reps' = [reps EXCEPT ![r] = <<latest[c]>>]
  /\ slice' = [slice EXCEPT ![r] = [arr |-> latest[c], len |-> Extent(latest[c])]]
  /\ UNCHANGED <<latest, recorded, size, mem, at, own, from, out>>

\* The loop over the tenant's clusters: those never scanned have no report.
LatestReports ==
  LET upTo[n \in 0..Len(Order)] ==
        IF n = 0 THEN <<>>
        ELSE IF latest[Order[n]] = NoScan THEN upTo[n - 1]
        ELSE Append(upTo[n - 1], latest[Order[n]])
  IN  upTo[Len(Order)]

\* The fleet view: takes the readers' lock and collects the latest reports.
ReportAll(r) ==
  /\ Starts(r, "merge")
  /\ reps' = [reps EXCEPT ![r] = LatestReports]
  /\ UNCHANGED <<latest, recorded, size, mem, at, slice, own, from, out>>

-----------------------------------------------------------------------------
(* MergeReports.                                                            *)

Merging(r) == pc[r] = "merge" /\ at[r] <= Len(reps[r])
Current(r) == reps[r][at[r]]
Fits(r) == slice[r].arr # NoScan /\ slice[r].len + Extent(Current(r)) <= Room(slice[r].arr)

\* A framework not seen yet is taken over with the stored header.
TakeHeader(r) ==
  /\ Merging(r) /\ at[r] = 1
  /\ slice' = [slice EXCEPT ![r] = [arr |-> Current(r), len |-> Extent(Current(r))]]
  /\ at' = [at EXCEPT ![r] = 2]
  /\ UNCHANGED <<latest, recorded, size, mem, pc, reps, own, from, out, alone>>

\* Faulty variant: the append starts one word early.
AppendInPlace_early(r) ==
  /\ Merging(r) /\ at[r] > 1 /\ Fits(r) /\ slice[r].len > 0
  /\ from[r] <= Extent(Current(r))
  /\ mem' = [mem EXCEPT ![slice[r].arr][slice[r].len + from[r] - 1] = mem[Current(r)][from[r]]]
  /\ from' = [from EXCEPT ![r] = @ + 1]
  /\ UNCHANGED <<latest, recorded, size, pc, reps, at, slice, own, out, alone>>

\* append while the array has room: the words go behind the stored breaches.
AppendInPlace(r) ==
  /\ Merging(r) /\ at[r] > 1 /\ Fits(r)
  /\ from[r] <= Extent(Current(r))
  /\ mem' = [mem EXCEPT ![slice[r].arr][slice[r].len + from[r]] = mem[Current(r)][from[r]]]
  /\ from' = [from EXCEPT ![r] = @ + 1]
  /\ UNCHANGED <<latest, recorded, size, pc, reps, at, slice, own, out, alone>>

AppendDone(r) ==
  /\ Merging(r) /\ at[r] > 1 /\ Fits(r)
  /\ from[r] > Extent(Current(r))
  /\ slice' = [slice EXCEPT ![r].len = @ + Extent(Current(r))]
  /\ from' = [from EXCEPT ![r] = 1]
  /\ at' = [at EXCEPT ![r] = @ + 1]
  /\ UNCHANGED <<latest, recorded, size, mem, pc, reps, own, out, alone>>

\* append without room: a new array, into which the old words are copied.
GrowStart(r) ==
  /\ Merging(r) /\ at[r] > 1 /\ slice[r].arr # NoScan /\ ~Fits(r)
  /\ pc' = [pc EXCEPT ![r] = "grow"]
  /\ UNCHANGED <<latest, recorded, size, mem, request, alone>>

GrowCopy(r) ==
  /\ pc[r] = "grow" /\ Len(own[r]) < slice[r].len
  /\ own' = [own EXCEPT ![r] = Append(@, mem[slice[r].arr][Len(@) + 1])]
  /\ UNCHANGED <<latest, recorded, size, mem, pc, reps, at, slice, from, out, alone>>

\* Faulty variant: the old words are left behind.
GrowDone_empty(r) ==
  /\ pc[r] = "grow" /\ Len(own[r]) = slice[r].len
  /\ own' = [own EXCEPT ![r] = <<>>]
  /\ slice' = [slice EXCEPT ![r] = NoSlice]
  /\ pc' = [pc EXCEPT ![r] = "merge"]
  /\ UNCHANGED <<latest, recorded, size, mem, reps, at, from, out, alone>>

GrowDone(r) ==
  /\ pc[r] = "grow" /\ Len(own[r]) = slice[r].len
  /\ slice' = [slice EXCEPT ![r] = NoSlice]
  /\ pc' = [pc EXCEPT ![r] = "merge"]
  /\ UNCHANGED <<latest, recorded, size, mem, reps, at, own, from, out, alone>>

\* The new array is the request's own: nobody else sees what is appended.
AppendOwn(r) ==
  /\ Merging(r) /\ at[r] > 1 /\ slice[r].arr = NoScan
  /\ own' = [own EXCEPT ![r] =
       @ \o [i \in 1..Extent(Current(r)) |-> mem[Current(r)][i]]]
  /\ at' = [at EXCEPT ![r] = @ + 1]
  /\ UNCHANGED <<latest, recorded, size, mem, pc, reps, slice, from, out, alone>>

\* The merged report is complete; Report returns and gives the lock back.
Unlock(r) ==
  /\ pc[r] = "merge" /\ at[r] > Len(reps[r])
  /\ pc' = [pc EXCEPT ![r] = "encode"]
  /\ UNCHANGED <<latest, recorded, size, mem, request, alone>>

-----------------------------------------------------------------------------
(* writeJSON in the handler, without the lock.                              *)

EncodeShared(r) ==
  /\ pc[r] = "encode" /\ slice[r].arr # NoScan /\ Len(out[r]) < slice[r].len
  /\ out' = [out EXCEPT ![r] = Append(@, mem[slice[r].arr][Len(@) + 1])]
  /\ UNCHANGED <<latest, recorded, size, mem, pc, reps, at, slice, own, from, alone>>

EncodeDone(r) ==
  /\ pc[r] = "encode"
  /\ slice[r].arr # NoScan => Len(out[r]) = slice[r].len
  /\ out' = [out EXCEPT ![r] = IF slice[r].arr = NoScan THEN own[r] ELSE @]
  /\ pc' = [pc EXCEPT ![r] = "sent"]
  /\ UNCHANGED <<latest, recorded, size, mem, reps, at, slice, own, from, alone>>

\* The handler's goroutine ends; the reader may send another request.
Finish(r) ==
  /\ pc[r] = "sent"
  /\ pc' = [pc EXCEPT ![r] = "idle"]
  /\ reps' = [reps EXCEPT ![r] = <<>>]
  /\ at' = [at EXCEPT ![r] = 1]
  /\ slice' = [slice EXCEPT ![r] = NoSlice]
  /\ own' = [own EXCEPT ![r] = <<>>]
  /\ from' = [from EXCEPT ![r] = 1]
  /\ out' = [out EXCEPT ![r] = <<>>]
  /\ UNCHANGED <<latest, recorded, size, mem, alone>>

Read(r) ==
  \/ ReportAll(r) \/ \E c \in Clusters : ReportOne(r, c)
  \/ TakeHeader(r) \/ AppendInPlace(r) \/ AppendDone(r)
  \/ GrowStart(r) \/ GrowCopy(r) \/ GrowDone(r) \/ AppendOwn(r)
  \/ Unlock(r) \/ EncodeShared(r) \/ EncodeDone(r) \/ Finish(r)

Next ==
  \/ \E c \in Clusters, k \in Scans, n \in 0..MaxBreaches : RecordScan(c, k, n)
  \/ \E r \in Readers : Read(r)

Spec == Init /\ [][Next]_vars

-----------------------------------------------------------------------------
(* Properties.                                                              *)

TypeOK ==
  /\ latest \in [Clusters -> Scans \cup {NoScan}]
  /\ recorded \in SUBSET Scans
  /\ size \in [Scans -> 0..MaxBreaches]
  /\ mem = [k \in Scans |-> mem[k]]
  /\ \A k \in Scans : mem[k] \in [1..Room(k) -> Word]
  /\ pc \in [Readers -> {"idle", "merge", "grow", "encode", "sent"}]
  /\ reps \in [Readers -> Seq(Scans)]
  /\ at \in [Readers -> Nat] /\ from \in [Readers -> Nat]
  /\ slice \in [Readers -> Slice]
  /\ own \in [Readers -> Seq(Word)] /\ out \in [Readers -> Seq(Word)]
  /\ alone \in [Readers -> BOOLEAN]

\* A report the store holds is never altered by the fleet views merged from it
\* (memstore.go:344): append writes behind the stored breaches, not into them.
StoredIntact ==
  \A k \in recorded : \A i \in 1..Extent(k) : mem[k][i] = WordOf(k, i)

BreachesOf(rs) ==
  LET upTo[n \in 0..Len(rs)] ==
        IF n = 0 THEN <<>>
        ELSE upTo[n - 1] \o [j \in 1..Extent(rs[n]) |-> WordOf(rs[n], j)]
  IN  upTo[Len(rs)]

FirstReportExact ==
  \A r \in Readers : pc[r] = "sent" /\ reps[r] # <<>> =>
    \A i \in 1..Extent(reps[r][1]) : i \in DOMAIN out[r] /\ out[r][i] = WordOf(reps[r][1], i)

LengthAgrees ==
  \A r \in Readers : pc[r] = "sent" => Len(out[r]) = Len(BreachesOf(reps[r]))

AloneExact ==
  \A r \in Readers : pc[r] = "sent" /\ alone[r] => out[r] = BreachesOf(reps[r])

\* Every answer starts with the breaches of the first report it is made of,
\* whatever other requests do to the array meanwhile: the answer for one cluster
\* (memstore.go:204) is always that cluster's report.  The list of breaches is as
\* long as the summed Breached count beside it (memstore.go:342): concurrent views
\* may swap words, never add or lose one.  And a request during which no other was
\* in flight answers exactly the breaches of the reports it merged, even if scans
\* are recorded while it encodes.
AnswersHold == TypeOK /\ FirstReportExact /\ LengthAgrees /\ AloneExact

\* What the code does not keep when requests overlap.  Every fleet view lists the breaches of the reports it merged ("Safe for
\* concurrent use", memstore.go:26).
FleetIsMerge ==
  \A r \in Readers : pc[r] = "sent" => out[r] = BreachesOf(reps[r])

=============================================================================
