----------------------------- MODULE MCSessions ------------------------------
(***************************************************************************)
(* Instances of Gateway and of Streaming.  A behaviour is of one of three  *)
(* kinds: the gateway with time passing, the gateway with keys rotating,   *)
(* or the stream.  What the kind is not about rests.                       *)
(***************************************************************************)
EXTENDS Gateway, TLC

CONSTANTS Scans, Clients

VARIABLES
  job,     \* the kind, "limit", "keys" or "stream"
  scan, of, landed, stream, buf, fetch, answer, shown, loaded, notified, gone

S == INSTANCE Streaming WITH cache <- shown, reply <- answer, BufferSize <- 2

streamVars == <<scan, of, landed, stream, buf, fetch, answer, shown, loaded, notified, gone>>
all == <<job, vars, streamVars>>

Token(k, t) == [is |-> "jwt", method |-> TRUE, kid |-> k, good |-> TRUE, tenant |-> t]
Local(k)    == [is |-> "local", method |-> FALSE, kid |-> k, good |-> FALSE, tenant |-> ""]
Plain(c)    == [big |-> FALSE, cred |-> c, unsafe |-> FALSE, origin |-> ""]

\* Tokens by an old and by a new key and of two tenants, bad ones, the local one,
\* and requests that are turned away for their size or their origin.
MCRequests ==
  {Plain(Token("k1", "t1")), Plain(Token("k2", "t2")), Plain(Local("k1")),
   Plain([Token("k2", "t2") EXCEPT !.good = FALSE]), Plain(Token("k1", "")),
   [Plain(Local("k1")) EXCEPT !.big = TRUE],
   [Plain(Local("k1")) EXCEPT !.unsafe = TRUE, !.origin = "other"]}

\* The browsers' tenant has every scan, or all but one (tenants and scans are
\* interchangeable).
Owners ==
  LET other == CHOOSE k \in Scans : TRUE
  IN  {[x \in Scans \cup Clients |-> IF x \in alien THEN "t2" ELSE "t1"] : alien \in {{}, {other}}}

\* In the second kind every tenant's bucket was used up before.
SessionInit ==
  /\ S!Init
  /\ \/ /\ job = "limit"
        /\ of = [x \in Scans \cup Clients |-> LocalTenant]
        /\ InitWith({Keys})
     \/ /\ job = "keys"
        /\ of = [x \in Scans \cup Clients |-> LocalTenant]
        /\ pc = [s \in Slots |-> Idle] /\ req = [s \in Slots |-> NoRequest]
        /\ who = [s \in Slots |-> ""] /\ reply = [s \in Slots |-> {}]
        /\ idp \in {{k} : k \in Keys} /\ cache = {}
        /\ bucket = [t \in Tenants |-> 0] /\ admitted = [t \in Tenants |-> Burst]
        /\ limited = [t \in Tenants |-> TRUE]
        /\ now = MaxTime /\ rotations = 0 /\ faults = 0
     \/ /\ job = "stream"
        /\ of \in Owners
        /\ InitWith({{"k1"}})

SessionNext ==
  \/ /\ job = "limit"
     /\ Next /\ rotations' = 0 /\ faults' = 0
     /\ UNCHANGED <<job, streamVars>>
  \/ job = "keys" /\ Next /\ UNCHANGED <<job, streamVars>>
  \/ job = "stream" /\ S!Next /\ UNCHANGED <<job, vars>>

\* The gateway's Fairness, for behaviours in which keys rotate.
KeysFairness ==
  /\ \A s \in Slots : WF_vars(job = "keys" /\ (Step(s) \/ Answer(s)))
  /\ \A q \in {x \in Requests : Usable(x)} : SF_vars(job = "keys" /\ \E s \in Slots : Arrive(s, q))

SessionSpec ==
  /\ SessionInit /\ [][SessionNext]_all
  /\ KeysFairness
  /\ S!Fairness

\* What is buffered, announced and shown is what was stored, of the subscriber's
\* tenant and in order (broker.go:55, api.go:357, useScanStream.ts).
StreamTruthful == S!StreamTruthful

\* A completion that reached a reading browser's buffer comes to be shown
\* (useScanStream.ts), or the connection ends.
NotifiedComesToShow == S!NotifiedComesToShow

\* "Publishes are non-blocking" (broker.go:21): a scan ends though nobody reads.
ScansNeverStall == S!ScansNeverStall

\* CurrentKeyAccepted (jwt.go:159), where keys rotate and clients ask on.
KeyGetsIn == job = "keys" => CurrentKeyAccepted
=============================================================================
