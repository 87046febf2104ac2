------------------------------ MODULE Streaming ------------------------------
(***************************************************************************)
(* The events of a scan on their way to the browser: the publishes of      *)
(* runScanWithID (dashboard/api.go), the broker (dashboard/broker.go), the *)
(* stream handler, and the browser's live view (web/src/app/               *)
(* useScanStream.ts), which refetches its cached queries when a scan       *)
(* completes.  A publish holds the broker's lock, so it is one step; a     *)
(* subscriber whose buffer is full misses the event.  The connection is    *)
(* part of the buffer: delivering an event takes it from the subscriber's  *)
(* channel to the browser's onEvent.  Of the cached queries one is         *)
(* followed, any that scan_completed alone invalidates ("findings",        *)
(* "history", "attack-paths", "clusters"; "posture" and "scans" are        *)
(* refetched on more occasions).  It is asked for, answered from what the  *)
(* store then holds, and the answer arrives, or the request fails.         *)
(***************************************************************************)
EXTENDS Naturals, Sequences, FiniteSets, Functions

CONSTANTS
  Tenants, Scans, Clients,
  BufferSize                  \* capacity of a subscriber's channel (16 in the code)

VARIABLES
  scan,      \* how far each scan is
  of,        \* the tenant each scan and each client belongs to
  landed,    \* landed[t]: the scans of t the store holds
  stream,    \* how far each client's /v1/stream request is
  buf,       \* the subscriber's channel
  fetch,     \* how far the query's fetch is
  reply,     \* the scans in the answer on its way
  cache,     \* the scans the query's data reflect
  loaded,    \* the query has data
  notified,  \* history: the scans whose scan_completed entered the buffer, but for
             \* those delivered upon a first load that had been answered without them
  gone       \* history: the scans the store failed to keep or was told to remove

vars == <<scan, of, landed, stream, buf, fetch, reply, cache, loaded, notified, gone>>
server  == <<scan, of, landed, gone>>
query   == <<fetch, reply, cache, loaded>>

eventType == {"scan_started", "scan_progress", "scan_completed", "posture_updated"}
Event     == [type : eventType, scan : Scans, failed : BOOLEAN]

ScanState   == {"idle", "begun", "scanning", "stored", "completed", "done", "failed"}
StreamState == {"off", "requested", "subscribed", "ended"}
FetchState  == {"idle", "asked", "answered", "failed"}

Init ==
  /\ scan = [k \in Scans |-> "idle"]
  /\ of \in [Scans \cup Clients -> Tenants]
  /\ landed = [t \in Tenants |-> {}]
  /\ stream = [c \in Clients |-> "off"]
  /\ buf = [c \in Clients |-> <<>>]
  /\ cache = [c \in Clients |-> {}]
  /\ fetch = [c \in Clients |-> "idle"]
  /\ reply = [c \in Clients |-> {}]
  /\ loaded = [c \in Clients |-> FALSE]
  /\ notified = [c \in Clients |-> {}]
  /\ gone = {}

-----------------------------------------------------------------------------
(* Broker.                                                                 *)

Subscribers(t) == {c \in Clients : stream[c] = "subscribed" /\ of[c] = t}

\* Faulty variant: a publish that waits for room.
Publish_blocking(t, type, k, failed) ==
  /\ \A c \in Subscribers(t) : Len(buf[c]) < BufferSize
  /\ buf' = [c \in Clients |->
       IF c \in Subscribers(t)
         THEN Append(buf[c], [type |-> type, scan |-> k, failed |-> failed])
         ELSE buf[c]]
  /\ UNCHANGED notified

\* Every subscriber of the tenant with room in its buffer gets the event.
Publish(t, type, k, failed) ==
  LET reached == {c \in Subscribers(t) : Len(buf[c]) < BufferSize}
      ev == [type |-> type, scan |-> k, failed |-> failed]
  IN  /\ buf' = [c \in Clients |-> IF c \in reached THEN Append(buf[c], ev) ELSE buf[c]]
      /\ notified' = [c \in Clients |->
           IF c \in reached /\ type = "scan_completed" THEN notified[c] \cup {k}
                                                        ELSE notified[c]]

\* handleStream subscribes after it has flushed the response's header.
Subscribe(c) ==
  /\ stream[c] = "requested"
  /\ stream' = [stream EXCEPT ![c] = "subscribed"]
  /\ UNCHANGED <<server, buf, query, notified>>

\* The connection ends, on either side; the handler unsubscribes, and what was
\* in the channel is gone.  The reader of openStream stops without a word.
Unsubscribe(c) ==
  /\ stream[c] \in {"requested", "subscribed"}
  /\ stream' = [stream EXCEPT ![c] = "ended"]
  /\ buf' = [buf EXCEPT ![c] = <<>>]
  /\ notified' = [notified EXCEPT ![c] = {}]
  /\ UNCHANGED <<server, query>>

-----------------------------------------------------------------------------
(* runScanWithID: its publishes and the store call between them.           *)

Moves(k, from, to) == scan[k] = from /\ scan' = [scan EXCEPT ![k] = to]

Begin(k) ==
  /\ Moves(k, "idle", "begun")
  /\ Publish(of[k], "scan_started", k, FALSE)
  /\ UNCHANGED <<of, landed, gone, stream, query>>

Progress(k) ==
  /\ Moves(k, "begun", "scanning")
  /\ Publish(of[k], "scan_progress", k, FALSE)
  /\ UNCHANGED <<of, landed, gone, stream, query>>

Fail(k) ==
  /\ Moves(k, "scanning", "failed")
  /\ Publish(of[k], "scan_completed", k, TRUE)
  /\ UNCHANGED <<of, landed, gone, stream, query>>

\* RecordScan returns whether the report was stored or, on Postgres, its transaction
\* was lost and the error logged; the handler goes on alike.
RecordScan(k) ==
  /\ Moves(k, "scanning", "stored")
  /\ \/ landed' = [landed EXCEPT ![of[k]] = @ \cup {k}] /\ UNCHANGED gone
     \/ gone' = gone \cup {k} /\ UNCHANGED landed
  /\ UNCHANGED <<of, stream, buf, query, notified>>

\* Faulty variant: the completion is announced while the report is being stored.
Complete_early(k) ==
  /\ Moves(k, "scanning", "completed")
  /\ Publish(of[k], "scan_completed", k, FALSE)
  /\ UNCHANGED <<of, landed, gone, stream, query>>

Complete(k) ==
  /\ Moves(k, "stored", "completed")
  /\ Publish(of[k], "scan_completed", k, FALSE)
  /\ UNCHANGED <<of, landed, gone, stream, query>>

PostureUpdated(k) ==
  /\ Moves(k, "completed", "done")
  /\ Publish(of[k], "posture_updated", k, FALSE)
  /\ UNCHANGED <<of, landed, gone, stream, query>>

ScanStep(k) == \/ Begin(k) \/ Progress(k) \/ Fail(k) \/ RecordScan(k)
               \/ Complete(k) \/ PostureUpdated(k)

\* Scans are removed: their cluster is deleted, their tenant erased, or they are
\* too old (DeleteCluster, DeleteTenant, PruneScans).
Remove(t) ==
  /\ \E old \in (SUBSET landed[t]) \ {{}} :
       /\ landed' = [landed EXCEPT ![t] = @ \ old]
       /\ gone' = gone \cup old
  /\ UNCHANGED <<scan, of, stream, buf, query, notified>>

-----------------------------------------------------------------------------
(* The browser.  A query is fetched once (retry: false), and only when it is  *)
(* mounted or invalidated (refetchOnWindowFocus: false, no interval).         *)

Ask(c) == fetch' = [fetch EXCEPT ![c] = "asked"]

\* The effect of useScanStream: the stream is opened and the query fetched as its view
\* mounts.
Mount(c) ==
  /\ stream[c] = "off"
  /\ stream' = [stream EXCEPT ![c] = "requested"]
  /\ Ask(c)
  /\ UNCHANGED <<server, buf, reply, cache, loaded, notified>>

\* The view is left and mounted again: data without a staleTime are fetched anew.
Revisit(c) ==
  /\ stream[c] # "off" /\ fetch[c] \in {"idle", "failed"}
  /\ Ask(c)
  /\ UNCHANGED <<server, stream, buf, reply, cache, loaded, notified>>

\* Faulty variant: a fetch under way is left to answer the invalidation
\* (cancelRefetch: false).
Invalidate_keepsRunning(c) ==
  fetch' = [fetch EXCEPT ![c] = IF @ \notin {"asked", "answered"} THEN "asked" ELSE @]

\* An invalidated query is fetched; a fetch under way is cancelled and begun anew
\* when there are data, and is left to answer the invalidation when there are none.
Invalidate(c) ==
  fetch' = [fetch EXCEPT ![c] = IF loaded[c] \/ @ \notin {"asked", "answered"} THEN "asked" ELSE @]

\* The first load was answered without scan k.
Overtaken(c, k) == ~loaded[c] /\ fetch[c] = "answered" /\ k \notin reply[c]

\* onEvent invalidates the query for a completion, a failed one too; what it sets for
\* the live indicator (LiveState) follows from the events delivered and is left out.
Deliver(c) ==
  /\ stream[c] = "subscribed" /\ buf[c] # <<>>
  /\ LET ev == Head(buf[c])
     IN  \/ /\ ev.type = "scan_completed"
            /\ Invalidate(c)
            /\ notified' = [notified EXCEPT ![c] = IF Overtaken(c, ev.scan) THEN @ \ {ev.scan} ELSE @]
         \/ ev.type # "scan_completed" /\ UNCHANGED <<fetch, notified>>
  /\ buf' = [buf EXCEPT ![c] = Tail(@)]
  /\ UNCHANGED <<server, stream, reply, cache, loaded>>

\* The server reads the store.
Answer(c) ==
  /\ fetch[c] = "asked"
  /\ fetch' = [fetch EXCEPT ![c] = "answered"]
  /\ reply' = [reply EXCEPT ![c] = landed[of[c]]]
  /\ UNCHANGED <<server, stream, buf, cache, loaded, notified>>

\* The answer becomes the query's data.
Arrive(c) ==
  /\ fetch[c] = "answered"
  /\ fetch' = [fetch EXCEPT ![c] = "idle"]
  /\ cache' = [cache EXCEPT ![c] = reply[c]]
  /\ loaded' = [loaded EXCEPT ![c] = TRUE]
  /\ reply' = [reply EXCEPT ![c] = {}]
  /\ UNCHANGED <<server, stream, buf, notified>>

\* The request or its answer is lost, or is an error; older data stay.
FetchFails(c) ==
  /\ fetch[c] \in {"asked", "answered"}
  /\ fetch' = [fetch EXCEPT ![c] = "failed"]
  /\ reply' = [reply EXCEPT ![c] = {}]
  /\ UNCHANGED <<server, stream, buf, cache, loaded, notified>>

ClientStep(c) ==
  \/ Mount(c) \/ Subscribe(c) \/ Unsubscribe(c) \/ Deliver(c)
  \/ Revisit(c) \/ Answer(c) \/ Arrive(c) \/ FetchFails(c)

Next ==
  \/ \E k \in Scans : ScanStep(k)
  \/ \E t \in Tenants : Remove(t)
  \/ \E c \in Clients : ClientStep(c)

Spec == Init /\ [][Next]_vars

\* A scan that has begun goes on; nobody need start one, and no browser need
\* connect or read.
Fairness == \A k \in Scans : WF_vars(scan[k] # "idle" /\ ScanStep(k))

FairSpec == Spec /\ Fairness

-----------------------------------------------------------------------------
TypeOK ==
  /\ scan \in [Scans -> ScanState]
  /\ of \in [Scans \cup Clients -> Tenants]
  /\ landed \in [Tenants -> SUBSET Scans]
  /\ stream \in [Clients -> StreamState]
  /\ buf \in [Clients -> Seq(Event)]
  /\ \A c \in Clients : Len(buf[c]) <= BufferSize
  /\ cache \in [Clients -> SUBSET Scans]
  /\ fetch \in [Clients -> FetchState]
  /\ reply \in [Clients -> SUBSET Scans]
  /\ loaded \in [Clients -> BOOLEAN]
  /\ notified \in [Clients -> SUBSET Scans]
  /\ gone \subseteq Scans

\* How many of its events scan k has published when it is in a state, and the
\* place of an event among them.
published(state) == CASE state = "idle" -> 0
                      [] state = "begun" -> 1
                      [] state \in {"scanning", "stored"} -> 2
                      [] state \in {"completed", "failed"} -> 3
                      [] state = "done" -> 4
place(type) == CASE type = "scan_started" -> 1 [] type = "scan_progress" -> 2
                 [] type = "scan_completed" -> 3 [] type = "posture_updated" -> 4

BufferedInOrder ==
  \A c \in Clients : \A i \in DOMAIN buf[c] :
    LET ev == buf[c][i]
    IN  /\ of[ev.scan] = of[c]
        /\ place(ev.type) <= published(scan[ev.scan])
        /\ \A j \in DOMAIN buf[c] :
             buf[c][j].scan = ev.scan /\ i < j => place(ev.type) < place(buf[c][j].type)

CompletionIsStored ==
  \A c \in Clients : \A i \in DOMAIN buf[c] :
    LET ev == buf[c][i]
    IN  ev.type \in {"scan_completed", "posture_updated"} /\ ~ev.failed =>
          ev.scan \in landed[of[c]] \cup gone

Unread(c, k) == \E i \in DOMAIN buf[c] : buf[c][i].type = "scan_completed" /\ buf[c][i].scan = k

\* What the query's data will be once the answer on its way, if any, has arrived.
Coming(c) == IF fetch[c] = "answered" THEN reply[c] ELSE cache[c]

NotifiedIsShown ==
  \A c \in Clients : \A k \in notified[c] \cap landed[of[c]] :
    Unread(c, k) \/ fetch[c] \in {"asked", "failed"} \/ k \in Coming(c)

\* What a subscriber has yet to read are events of its own tenant's scans
\* (broker.go:55), each published, once, and those of a scan in the order in
\* which the scan went through them, whatever was dropped in between.  A completion
\* is announced after the store was done with the scan (api.go:357, api.go:363): a
\* fetch finds it, unless the store had failed to keep it or it was removed since.
\* And a browser whose buffer took the completion of a stored scan shows the scan,
\* or is about to: the event is unread, a fetch is to be answered, or the answer
\* that will arrive has the scan.  An answer read before the scan landed never
\* overwrites what the completion had fetched.  Two cases are left out, for which
\* nothing in useScanStream.ts or Providers.tsx makes up: a fetch that failed, and a
\* completion delivered while the very first answer was on its way.
StreamTruthful == TypeOK /\ BufferedInOrder /\ CompletionIsStored /\ NotifiedIsShown

\* "Publishes are non-blocking: a slow subscriber drops events rather than
\* stalling a scan" (broker.go:21): a scan ends though no browser reads.
ScansNeverStall == \A k \in Scans : scan[k] = "begun" ~> scan[k] \in {"done", "failed"}

\* A completion that reaches the buffer of a browser that has data and goes on
\* reading, and whose requests are answered or fail, comes to be shown: however many
\* completions cancel the fetch under way, one fetch ends with the scan in it, unless
\* it fails, the scan is removed or the connection ends (useScanStream.ts:38).
NotifiedComesToShow ==
  \A c \in Clients :
    WF_vars(Deliver(c)) /\ WF_vars(Answer(c)) /\ WF_vars(Arrive(c)) =>
      \A k \in Scans :
        loaded[c] /\ k \in notified[c] /\ k \in landed[of[c]] ~>
          k \in cache[c] \/ k \notin landed[of[c]] \/ fetch[c] = "failed" \/ stream[c] = "ended"

-----------------------------------------------------------------------------
(* What documents and comments say that the code does not do.              *)

\* The cached reads are "refreshed the instant a scan lands, with no polling"
\* (docs/performance.md:17): when every scan is over, everything buffered has
\* been read, the query is loaded and no fetch is under way or has failed, a browser
\* on a live stream shows every scan.
LiveIsCurrent ==
  \A c \in Clients :
    /\ \A k \in Scans : scan[k] \in {"idle", "done", "failed"}
    /\ stream[c] = "subscribed" /\ buf[c] = <<>>
    /\ loaded[c] /\ fetch[c] = "idle"
    => landed[of[c]] \subseteq cache[c]
=============================================================================
