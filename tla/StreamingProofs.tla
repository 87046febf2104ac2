--------------------------- MODULE StreamingProofs ---------------------------
(***************************************************************************)
(* What a browser is sent and shows is true, for every number of scans,    *)
(* tenants and browsers and every size of the subscribers' channels:       *)
(* StreamTruthful of Streaming.                                            *)
(***************************************************************************)
EXTENDS Streaming, SequenceTheorems, TLAPS

-----------------------------------------------------------------------------
(* The inductive invariant.  A scan that the store is done with is there, or *)
(* is known to be gone, and the completions a browser was sent are of scans  *)
(* that are over.                                                            *)

Over == {"completed", "done", "failed"}

StoredLanded ==
  \A k \in Scans : scan[k] \in {"stored", "completed", "done"} => k \in landed[of[k]] \cup gone

NotifiedIsOver == \A c \in Clients : \A k \in notified[c] : scan[k] \in Over

SInv == StreamTruthful /\ StoredLanded /\ NotifiedIsOver

\* The parts of StreamTruthful that concern one channel.
InOrder(c) ==
  \A i \in DOMAIN buf[c] :
    /\ of[buf[c][i].scan] = of[c]
    /\ place(buf[c][i].type) <= published(scan[buf[c][i].scan])
    /\ \A j \in DOMAIN buf[c] :
         buf[c][j].scan = buf[c][i].scan /\ i < j => place(buf[c][i].type) < place(buf[c][j].type)

Stored(c) ==
  \A i \in DOMAIN buf[c] :
    buf[c][i].type \in {"scan_completed", "posture_updated"} /\ ~buf[c][i].failed =>
      buf[c][i].scan \in landed[of[c]] \cup gone

Shown(c) ==
  \A k \in notified[c] \cap landed[of[c]] :
    Unread(c, k) \/ fetch[c] \in {"asked", "failed"} \/ k \in Coming(c)

LEMMA ByClient ==
  /\ BufferedInOrder <=> \A c \in Clients : InOrder(c)
  /\ CompletionIsStored <=> \A c \in Clients : Stored(c)
  /\ NotifiedIsShown <=> \A c \in Clients : Shown(c)
<1>1. BufferedInOrder <=> \A c \in Clients : InOrder(c)
  BY DEF BufferedInOrder, InOrder
<1>2. CompletionIsStored <=> \A c \in Clients : Stored(c)
  BY DEF CompletionIsStored, Stored
<1>3. NotifiedIsShown <=> \A c \in Clients : Shown(c)
  BY DEF NotifiedIsShown, Shown, Unread
<1> QED BY <1>1, <1>2, <1>3

LEMMA Places ==
  /\ place("scan_started") = 1 /\ place("scan_progress") = 2
  /\ place("scan_completed") = 3 /\ place("posture_updated") = 4
BY DEF place

LEMMA PublishedValues ==
  /\ published("idle") = 0 /\ published("begun") = 1
  /\ published("scanning") = 2 /\ published("stored") = 2
  /\ published("completed") = 3 /\ published("failed") = 3 /\ published("done") = 4
BY DEF published

LEMMA Ranks ==
  /\ \A t \in eventType : place(t) \in Nat
  /\ \A s \in ScanState : published(s) \in Nat
BY Places, PublishedValues DEF eventType, ScanState

\* Channels.
LEMMA Appended ==
  ASSUME NEW b \in Seq(Event), NEW e \in Event
  PROVE  /\ Append(b, e) \in Seq(Event) /\ Len(b) \in Nat /\ Len(Append(b, e)) = Len(b) + 1
         /\ DOMAIN Append(b, e) = 1 .. Len(b) + 1 /\ DOMAIN b = 1 .. Len(b)
         /\ \A i \in DOMAIN b : Append(b, e)[i] = b[i]
         /\ Append(b, e)[Len(b) + 1] = e
OBVIOUS

LEMMA Taken ==
  ASSUME NEW b \in Seq(Event), b # <<>>
  PROVE  /\ Tail(b) \in Seq(Event) /\ Head(b) = b[1] /\ Head(b) \in Event
         /\ Len(b) \in Nat \ {0} /\ DOMAIN b = 1 .. Len(b)
         /\ Len(Tail(b)) = Len(b) - 1 /\ DOMAIN Tail(b) = 1 .. Len(b) - 1
         /\ \A i \in 1 .. Len(b) - 1 : Tail(b)[i] = b[i + 1]
BY HeadTailProperties

-----------------------------------------------------------------------------
(* A publish: the event is the next one of its scan.                       *)

LEMMA PublishKeeps ==
  ASSUME SInv, BufferSize \in Nat, NEW k \in Scans, NEW from, NEW to \in ScanState, NEW type \in eventType,
         NEW failed \in BOOLEAN, Moves(k, from, to), Publish(of[k], type, k, failed),
         UNCHANGED <<of, landed, gone, stream, query>>,
         place(type) = published(to), published(from) < published(to),
         from \in Over => to \in Over, type = "scan_completed" => to \in Over,
         to \in {"stored", "completed", "done"} => k \in landed[of[k]] \cup gone,
         type \in {"scan_completed", "posture_updated"} /\ ~failed => k \in landed[of[k]] \cup gone
  PROVE  SInv'
<1> DEFINE ev == [type |-> type, scan |-> k, failed |-> failed]
           reached == {c \in Subscribers(of[k]) : Len(buf[c]) < BufferSize}
<1>1. /\ scan \in [Scans -> ScanState] /\ buf \in [Clients -> Seq(Event)]
      /\ notified \in [Clients -> SUBSET Scans]
      /\ \A c \in Clients : Len(buf[c]) <= BufferSize
  BY Zenon DEF SInv, StreamTruthful, TypeOK
<1>2. /\ scan' = [scan EXCEPT ![k] = to] /\ scan[k] = from
      /\ of' = of /\ landed' = landed /\ gone' = gone /\ stream' = stream
      /\ fetch' = fetch /\ reply' = reply /\ cache' = cache /\ loaded' = loaded
  BY DEF Moves, query
<1>3. ev \in Event /\ ev.type = type /\ ev.scan = k /\ ev.failed = failed
  BY DEF Event
<1>4. /\ DOMAIN buf' = Clients /\ DOMAIN notified' = Clients
      /\ \A c \in Clients : IF c \in reached THEN buf'[c] = Append(buf[c], ev) ELSE buf'[c] = buf[c]
      /\ \A c \in Clients : notified'[c] = IF c \in reached /\ type = "scan_completed"
                                            THEN notified[c] \cup {k} ELSE notified[c]
      /\ buf' = [c \in Clients |-> buf'[c]] /\ notified' = [c \in Clients |-> notified'[c]]
  BY DEF Publish
<1>5. \A c \in reached : c \in Clients /\ of[c] = of[k] /\ Len(buf[c]) < BufferSize
  BY DEF Subscribers
<1> HIDE DEF ev, reached
<1>6. ASSUME NEW c \in Clients
      PROVE  /\ buf[c] \in Seq(Event) /\ Len(buf[c]) \in Nat /\ DOMAIN buf[c] = 1 .. Len(buf[c])
             /\ \A i \in DOMAIN buf[c] : buf[c][i] \in Event /\ buf[c][i].scan \in Scans /\ buf[c][i].type \in eventType
             /\ InOrder(c) /\ Stored(c) /\ Shown(c)
  <2>1. buf[c] \in Seq(Event)
    BY <1>1
  <2>2. Len(buf[c]) \in Nat /\ DOMAIN buf[c] = 1 .. Len(buf[c]) /\ \A i \in DOMAIN buf[c] : buf[c][i] \in Event
    BY <2>1
  <2>3. \A e \in Event : e.scan \in Scans /\ e.type \in eventType
    BY DEF Event
  <2>4. InOrder(c) /\ Stored(c) /\ Shown(c)
    BY ByClient DEF SInv, StreamTruthful
  <2> QED BY <2>1, <2>2, <2>3, <2>4
<1>a. ASSUME NEW c \in reached
      PROVE  /\ buf'[c] \in Seq(Event) /\ Len(buf'[c]) = Len(buf[c]) + 1
             /\ DOMAIN buf'[c] = 1 .. Len(buf[c]) + 1
             /\ \A i \in DOMAIN buf[c] : buf'[c][i] = buf[c][i]
             /\ buf'[c][Len(buf[c]) + 1] = ev
  <2>1. c \in Clients /\ buf[c] \in Seq(Event)
    BY <1>5, <1>6
  <2>2. buf'[c] = Append(buf[c], ev)
    BY <1>4, <2>1
  <2> QED BY <1>3, <2>1, <2>2, Appended
<1>7. TypeOK'
  <2>1. scan' \in [Scans -> ScanState]
    BY <1>1, <1>2
  <2>2. ASSUME NEW c \in Clients
        PROVE  buf'[c] \in Seq(Event) /\ Len(buf'[c]) <= BufferSize /\ notified'[c] \subseteq Scans
    <3>1. CASE c \in reached
      <4>1. buf'[c] \in Seq(Event) /\ Len(buf'[c]) = Len(buf[c]) + 1
        BY <1>a, <3>1
      <4>2. Len(buf'[c]) <= BufferSize
        BY <1>5, <1>6, <3>1, <4>1
      <4>3. notified'[c] \subseteq Scans
        BY <1>1, <1>4
      <4> QED BY <4>1, <4>2, <4>3
    <3>2. CASE c \notin reached
      BY <1>1, <1>4, <3>2
    <3> QED BY <3>1, <3>2
  <2>3. buf' \in [Clients -> Seq(Event)] /\ notified' \in [Clients -> SUBSET Scans]
    BY <1>4, <2>2
  <2>4. \A c \in Clients : Len(buf'[c]) <= BufferSize
    BY <2>2
  <2> QED BY <1>2, <2>1, <2>3, <2>4, Zenon DEF SInv, StreamTruthful, TypeOK
<1>8. /\ \A s \in Scans : published(scan[s]) \in Nat /\ published(scan'[s]) \in Nat
                         /\ published(scan[s]) <= published(scan'[s])
      /\ published(scan[k]) < place(type) /\ published(scan'[k]) = place(type)
  BY <1>1, <1>2, Ranks
<1>9. ASSUME NEW c \in Clients PROVE InOrder(c)' /\ Stored(c)' /\ Shown(c)'
  <2>1. CASE c \notin reached
    <3>1. buf'[c] = buf[c] /\ notified'[c] = notified[c]
      BY <1>4, <2>1
    <3>2. InOrder(c)'
      <4> SUFFICES ASSUME NEW i \in DOMAIN buf[c]
                   PROVE  place(buf[c][i].type) <= published(scan'[buf[c][i].scan])
        BY <1>2, <1>6, <3>1 DEF InOrder
      <4>1. place(buf[c][i].type) \in Nat /\ place(buf[c][i].type) <= published(scan[buf[c][i].scan])
        BY <1>6, Ranks DEF InOrder
      <4> QED BY <1>6, <1>8, <4>1
    <3> QED BY <1>2, <1>6, <3>1, <3>2 DEF Stored, Shown, Unread, Coming
  <2>2. CASE c \in reached
    <3>1. /\ DOMAIN buf'[c] = 1 .. Len(buf[c]) + 1
          /\ \A i \in DOMAIN buf[c] : i \in DOMAIN buf'[c] /\ buf'[c][i] = buf[c][i]
          /\ buf'[c][Len(buf[c]) + 1] = ev /\ Len(buf[c]) + 1 \in DOMAIN buf'[c]
      BY <1>6, <1>a, <2>2
    <3>2. \A i \in DOMAIN buf'[c] : i \in DOMAIN buf[c] \/ i = Len(buf[c]) + 1
      BY <1>6, <3>1
    <3>3. \A i \in DOMAIN buf[c] :
             /\ place(buf[c][i].type) \in Nat /\ place(buf[c][i].type) <= published(scan[buf[c][i].scan])
             /\ i < Len(buf[c]) + 1
      BY <1>6, Ranks DEF InOrder
    <3>4. InOrder(c)'
      <4> SUFFICES ASSUME NEW i \in DOMAIN buf'[c]
                   PROVE  /\ of[buf'[c][i].scan] = of[c]
                          /\ place(buf'[c][i].type) <= published(scan'[buf'[c][i].scan])
                          /\ \A j \in DOMAIN buf'[c] : buf'[c][j].scan = buf'[c][i].scan /\ i < j =>
                               place(buf'[c][i].type) < place(buf'[c][j].type)
        BY <1>2 DEF InOrder
      <4>1. CASE i \in DOMAIN buf[c]
        <5>1. of[buf'[c][i].scan] = of[c]
          BY <1>6, <3>1, <4>1 DEF InOrder
        <5>2. place(buf'[c][i].type) <= published(scan'[buf'[c][i].scan])
          <6>1. buf'[c][i] = buf[c][i] /\ buf[c][i].scan \in Scans
            BY <1>6, <3>1, <4>1
          <6>2. /\ place(buf[c][i].type) \in Nat
                /\ place(buf[c][i].type) <= published(scan[buf[c][i].scan])
            BY <3>3, <4>1
          <6>3. /\ published(scan[buf[c][i].scan]) \in Nat /\ published(scan'[buf[c][i].scan]) \in Nat
                /\ published(scan[buf[c][i].scan]) <= published(scan'[buf[c][i].scan])
            BY <1>8, <6>1
          <6>4. place(buf[c][i].type) <= published(scan'[buf[c][i].scan])
            BY <6>2, <6>3
          <6> QED BY <6>1, <6>4
        <5>3. ASSUME NEW j \in DOMAIN buf'[c], buf'[c][j].scan = buf'[c][i].scan, i < j
              PROVE  place(buf'[c][i].type) < place(buf'[c][j].type)
          <6>1. CASE j \in DOMAIN buf[c]
            BY <1>6, <3>1, <4>1, <5>3, <6>1 DEF InOrder
          <6>2. CASE j = Len(buf[c]) + 1
            <7>1. buf'[c][i] = buf[c][i] /\ buf'[c][j] = ev
              BY <3>1, <4>1, <6>2
            <7>2. buf[c][i].scan = k /\ buf'[c][j].type = type
              BY <1>3, <5>3, <7>1
            <7>3. place(buf[c][i].type) \in Nat /\ place(buf[c][i].type) <= published(scan[k])
              BY <3>3, <4>1, <7>2
            <7>4. place(buf[c][i].type) < place(type)
              BY <1>8, <7>3, Ranks
            <7> QED BY <7>1, <7>2, <7>4
          <6> QED BY <3>2, <6>1, <6>2
        <5> QED BY <5>1, <5>2, <5>3
      <4>2. CASE i = Len(buf[c]) + 1
        <5>1. \A j \in DOMAIN buf'[c] : ~(i < j)
          BY <1>6, <3>1, <4>2
        <5>2. buf'[c][i].scan = k /\ buf'[c][i].type = type
          BY <1>3, <3>1, <4>2
        <5>3. place(type) <= published(scan'[k])
          BY <1>8
        <5> QED BY <1>5, <2>2, <5>1, <5>2, <5>3
      <4> QED BY <3>2, <4>1, <4>2
    <3>5. Stored(c)'
      <4> SUFFICES ASSUME NEW i \in DOMAIN buf'[c],
                          buf'[c][i].type \in {"scan_completed", "posture_updated"}, ~buf'[c][i].failed
                   PROVE  buf'[c][i].scan \in landed[of[c]] \cup gone
        BY <1>2 DEF Stored
      <4>1. CASE i \in DOMAIN buf[c]
        BY <1>6, <3>1, <4>1 DEF Stored
      <4>2. CASE i = Len(buf[c]) + 1
        BY <1>3, <1>5, <2>2, <3>1, <4>2
      <4> QED BY <3>2, <4>1, <4>2
    <3>6. Shown(c)'
      <4> SUFFICES ASSUME NEW s \in notified'[c], s \in landed[of[c]]
                   PROVE  Unread(c, s)' \/ fetch[c] \in {"asked", "failed"} \/ s \in Coming(c)
        BY <1>2 DEF Shown, Coming
      <4>1. \A x : Unread(c, x) => Unread(c, x)'
        BY <3>1 DEF Unread
      <4>2. CASE s \in notified[c]
        BY <1>6, <4>1, <4>2 DEF Shown
      <4>3. CASE s = k /\ type = "scan_completed"
        BY <1>3, <3>1, <4>3 DEF Unread
      <4> QED BY <1>4, <4>2, <4>3
    <3> QED BY <3>4, <3>5, <3>6
  <2> QED BY <2>1, <2>2
<1>10. BufferedInOrder' /\ CompletionIsStored' /\ NotifiedIsShown'
  <2>1. BufferedInOrder'
    BY <1>9 DEF BufferedInOrder, InOrder
  <2>2. CompletionIsStored'
    BY <1>9 DEF CompletionIsStored, Stored
  <2>3. NotifiedIsShown'
    BY <1>9 DEF NotifiedIsShown, Shown
  <2> QED BY <2>1, <2>2, <2>3
<1>11. StoredLanded'
  BY <1>1, <1>2 DEF SInv, StoredLanded
<1>12. NotifiedIsOver'
  BY <1>1, <1>2, <1>4 DEF SInv, NotifiedIsOver
<1> QED BY <1>7, <1>10, <1>11, <1>12 DEF SInv, StreamTruthful

LEMMA PublishingSteps ==
  ASSUME SInv, BufferSize \in Nat, NEW k \in Scans,
         Begin(k) \/ Progress(k) \/ Fail(k) \/ Complete(k) \/ PostureUpdated(k)
  PROVE  SInv'
<1>0. scan[k] \in {"stored", "completed", "done"} => k \in landed[of[k]] \cup gone
  BY DEF SInv, StoredLanded
<1>1. CASE Begin(k)
  <2>1. /\ Moves(k, "idle", "begun") /\ Publish(of[k], "scan_started", k, FALSE)
        /\ UNCHANGED <<of, landed, gone, stream, query>>
    BY <1>1, Zenon DEF Begin
  <2>2. /\ "begun" \in ScanState /\ "scan_started" \in eventType
        /\ place("scan_started") = published("begun") /\ published("idle") < published("begun")
        /\ "idle" \in Over => "begun" \in Over
        /\ "scan_started" = "scan_completed" => "begun" \in Over
    BY Places, PublishedValues DEF ScanState, eventType, Over
  <2>3. /\ "begun" \in {"stored", "completed", "done"} => k \in landed[of[k]] \cup gone
        /\ "scan_started" \in {"scan_completed", "posture_updated"} /\ ~FALSE => k \in landed[of[k]] \cup gone
    BY <1>0, <2>1 DEF Moves
  <2> QED BY <2>1, <2>2, <2>3, PublishKeeps, Zenon
<1>2. CASE Progress(k)
  <2>1. /\ Moves(k, "begun", "scanning") /\ Publish(of[k], "scan_progress", k, FALSE)
        /\ UNCHANGED <<of, landed, gone, stream, query>>
    BY <1>2, Zenon DEF Progress
  <2>2. /\ "scanning" \in ScanState /\ "scan_progress" \in eventType
        /\ place("scan_progress") = published("scanning") /\ published("begun") < published("scanning")
        /\ "begun" \in Over => "scanning" \in Over
        /\ "scan_progress" = "scan_completed" => "scanning" \in Over
    BY Places, PublishedValues DEF ScanState, eventType, Over
  <2>3. /\ "scanning" \in {"stored", "completed", "done"} => k \in landed[of[k]] \cup gone
        /\ "scan_progress" \in {"scan_completed", "posture_updated"} /\ ~FALSE => k \in landed[of[k]] \cup gone
    BY <1>0, <2>1 DEF Moves
  <2> QED BY <2>1, <2>2, <2>3, PublishKeeps, Zenon
<1>3. CASE Fail(k)
  <2>1. /\ Moves(k, "scanning", "failed") /\ Publish(of[k], "scan_completed", k, TRUE)
        /\ UNCHANGED <<of, landed, gone, stream, query>>
    BY <1>3, Zenon DEF Fail
  <2>2. /\ "failed" \in ScanState /\ "scan_completed" \in eventType
        /\ place("scan_completed") = published("failed") /\ published("scanning") < published("failed")
        /\ "scanning" \in Over => "failed" \in Over
        /\ "scan_completed" = "scan_completed" => "failed" \in Over
    BY Places, PublishedValues DEF ScanState, eventType, Over
  <2>3. /\ "failed" \in {"stored", "completed", "done"} => k \in landed[of[k]] \cup gone
        /\ "scan_completed" \in {"scan_completed", "posture_updated"} /\ ~TRUE => k \in landed[of[k]] \cup gone
    BY <1>0, <2>1 DEF Moves
  <2> QED BY <2>1, <2>2, <2>3, PublishKeeps, Zenon
<1>4. CASE Complete(k)
  <2>1. /\ Moves(k, "stored", "completed") /\ Publish(of[k], "scan_completed", k, FALSE)
        /\ UNCHANGED <<of, landed, gone, stream, query>>
    BY <1>4, Zenon DEF Complete
  <2>2. /\ "completed" \in ScanState /\ "scan_completed" \in eventType
        /\ place("scan_completed") = published("completed") /\ published("stored") < published("completed")
        /\ "stored" \in Over => "completed" \in Over
        /\ "scan_completed" = "scan_completed" => "completed" \in Over
    BY Places, PublishedValues DEF ScanState, eventType, Over
  <2>3. /\ "completed" \in {"stored", "completed", "done"} => k \in landed[of[k]] \cup gone
        /\ "scan_completed" \in {"scan_completed", "posture_updated"} /\ ~FALSE => k \in landed[of[k]] \cup gone
    BY <1>0, <2>1 DEF Moves
  <2> QED BY <2>1, <2>2, <2>3, PublishKeeps, Zenon
<1>5. CASE PostureUpdated(k)
  <2>1. /\ Moves(k, "completed", "done") /\ Publish(of[k], "posture_updated", k, FALSE)
        /\ UNCHANGED <<of, landed, gone, stream, query>>
    BY <1>5, Zenon DEF PostureUpdated
  <2>2. /\ "done" \in ScanState /\ "posture_updated" \in eventType
        /\ place("posture_updated") = published("done") /\ published("completed") < published("done")
        /\ "completed" \in Over => "done" \in Over
        /\ "posture_updated" = "scan_completed" => "done" \in Over
    BY Places, PublishedValues DEF ScanState, eventType, Over
  <2>3. /\ "done" \in {"stored", "completed", "done"} => k \in landed[of[k]] \cup gone
        /\ "posture_updated" \in {"scan_completed", "posture_updated"} /\ ~FALSE => k \in landed[of[k]] \cup gone
    BY <1>0, <2>1 DEF Moves
  <2> QED BY <2>1, <2>2, <2>3, PublishKeeps, Zenon
<1> QED BY <1>1, <1>2, <1>3, <1>4, <1>5

-----------------------------------------------------------------------------
(* The store and the browsers.                                             *)

\* A scan that lands now has not been announced; one that is removed is known to be
\* gone.
LEMMA StoreKeeps ==
  ASSUME SInv, (\E k \in Scans : RecordScan(k)) \/ (\E t \in Tenants : Remove(t)) PROVE SInv'
<1>1. /\ scan \in [Scans -> ScanState] /\ of \in [Scans \cup Clients -> Tenants]
      /\ landed \in [Tenants -> SUBSET Scans] /\ buf \in [Clients -> Seq(Event)]
      /\ notified \in [Clients -> SUBSET Scans] /\ gone \subseteq Scans
  BY Zenon DEF SInv, StreamTruthful, TypeOK
<1>2. /\ of' = of /\ stream' = stream /\ buf' = buf /\ notified' = notified
      /\ fetch' = fetch /\ reply' = reply /\ cache' = cache /\ loaded' = loaded
  BY DEF RecordScan, Remove, query
<1>3. /\ scan' \in [Scans -> ScanState] /\ landed' \in [Tenants -> SUBSET Scans] /\ gone' \subseteq Scans
      /\ \A s \in Scans : \/ scan'[s] = scan[s]
                          \/ scan[s] = "scanning" /\ scan'[s] = "stored" /\ s \in landed'[of[s]] \cup gone'
      /\ \A t \in Tenants : landed[t] \cup gone \subseteq landed'[t] \cup gone'
      /\ \A t \in Tenants : \A s \in landed'[t] : s \in landed[t] \/ scan[s] = "scanning"
  <2>1. CASE \E k \in Scans : RecordScan(k)
    <3>1. PICK k \in Scans : RecordScan(k)
      BY <2>1
    <3>2. scan[k] = "scanning" /\ scan' = [scan EXCEPT ![k] = "stored"] /\ of[k] \in Tenants
      BY <1>1, <3>1 DEF RecordScan, Moves
    <3>3. \/ landed' = [landed EXCEPT ![of[k]] = @ \cup {k}] /\ gone' = gone
          \/ gone' = gone \cup {k} /\ landed' = landed
      BY <3>1 DEF RecordScan
    <3>4. scan' \in [Scans -> ScanState]
      BY <1>1, <3>2 DEF ScanState
    <3>5. CASE landed' = [landed EXCEPT ![of[k]] = @ \cup {k}] /\ gone' = gone
      BY <1>1, <3>2, <3>4, <3>5
    <3>6. CASE gone' = gone \cup {k} /\ landed' = landed
      BY <1>1, <3>2, <3>4, <3>6
    <3> QED BY <3>3, <3>5, <3>6
  <2>2. CASE \E t \in Tenants : Remove(t)
    <3>1. PICK t \in Tenants : Remove(t)
      BY <2>2
    <3>2. PICK old \in (SUBSET landed[t]) \ {{}} :
             landed' = [landed EXCEPT ![t] = @ \ old] /\ gone' = gone \cup old
      BY <3>1 DEF Remove
    <3>3. scan' = scan
      BY <3>1 DEF Remove
    <3> QED BY <1>1, <3>2, <3>3
  <2> QED BY <2>1, <2>2
<1>4. TypeOK'
  BY <1>2, <1>3, Zenon DEF SInv, StreamTruthful, TypeOK
<1>5. \A c \in Clients : of[c] \in Tenants
  BY <1>1
<1>6. BufferedInOrder'
  <2>1. \A s \in Scans : published(scan'[s]) = published(scan[s])
    BY <1>3, PublishedValues
  <2>2. \A c \in Clients : \A i \in DOMAIN buf[c] : buf[c][i].scan \in Scans
    <3>1. \A e \in Event : e.scan \in Scans
      BY DEF Event
    <3>2. \A c \in Clients : \A i \in DOMAIN buf[c] : buf[c][i] \in Event
      BY <1>1
    <3> QED BY <3>1, <3>2
  <2> QED BY <1>2, <2>1, <2>2 DEF SInv, StreamTruthful, BufferedInOrder
<1>7. CompletionIsStored'
  <2>1. \A c \in Clients : landed[of[c]] \cup gone \subseteq landed'[of[c]] \cup gone'
    BY <1>3, <1>5
  <2> QED BY <1>2, <2>1 DEF SInv, StreamTruthful, CompletionIsStored
<1>8. NotifiedIsShown'
  <2>1. \A c \in Clients : \A s \in notified[c] : scan[s] # "scanning"
    BY DEF SInv, NotifiedIsOver, Over
  <2>2. \A c \in Clients : notified[c] \cap landed'[of[c]] \subseteq notified[c] \cap landed[of[c]]
    BY <1>3, <1>5, <2>1
  <2> QED BY <1>2, <2>2 DEF SInv, StreamTruthful, NotifiedIsShown, Unread, Coming
<1>9. StoredLanded'
  <2>1. \A s \in Scans : of[s] \in Tenants
    BY <1>1
  <2> QED BY <1>2, <1>3, <2>1 DEF SInv, StoredLanded
<1>10. NotifiedIsOver'
  BY <1>1, <1>2, <1>3 DEF SInv, NotifiedIsOver, Over
<1> QED BY <1>4, <1>6, <1>7, <1>8, <1>9, <1>10 DEF SInv, StreamTruthful

\* A step of a browser or its stream touches that one's channel and query only.
LEMMA ClientKeeps ==
  ASSUME SInv, NEW c \in Clients, UNCHANGED server, TypeOK',
         \A d \in Clients : d # c => /\ buf'[d] = buf[d] /\ notified'[d] = notified[d]
                                    /\ cache'[d] = cache[d] /\ reply'[d] = reply[d] /\ fetch'[d] = fetch[d],
         notified'[c] \subseteq notified[c],
         InOrder(c)', Stored(c)', Shown(c)'
  PROVE  SInv'
<1>1. scan' = scan /\ of' = of /\ landed' = landed /\ gone' = gone
  BY DEF server
<1>2. ASSUME NEW d \in Clients PROVE InOrder(d)' /\ Stored(d)' /\ Shown(d)'
  <2>1. CASE d = c
    BY <2>1
  <2>2. CASE d # c
    <3>1. InOrder(d) /\ Stored(d) /\ Shown(d)
      BY ByClient DEF SInv, StreamTruthful
    <3>2. /\ buf'[d] = buf[d] /\ notified'[d] = notified[d]
          /\ cache'[d] = cache[d] /\ reply'[d] = reply[d] /\ fetch'[d] = fetch[d]
      BY <2>2, Zenon
    <3>3. InOrder(d)'
      BY <1>1, <3>1, <3>2 DEF InOrder
    <3>4. Stored(d)'
      BY <1>1, <3>1, <3>2 DEF Stored
    <3>5. Shown(d)'
      BY <1>1, <3>1, <3>2 DEF Shown, Unread, Coming
    <3> QED BY <3>3, <3>4, <3>5
  <2> QED BY <2>1, <2>2
<1>3. BufferedInOrder'
  BY <1>2 DEF BufferedInOrder, InOrder
<1>4. CompletionIsStored'
  BY <1>2 DEF CompletionIsStored, Stored
<1>5. NotifiedIsShown'
  BY <1>2 DEF NotifiedIsShown, Shown
<1>6. StoredLanded'
  BY <1>1 DEF SInv, StoredLanded
<1>7. NotifiedIsOver'
  <2>1. \A d \in Clients : notified'[d] \subseteq notified[d]
    OBVIOUS
  <2> QED BY <1>1, <2>1 DEF SInv, NotifiedIsOver
<1> QED BY <1>3, <1>4, <1>5, <1>6, <1>7 DEF SInv, StreamTruthful

\* What the steps that leave the channel alone keep.
LEMMA ChannelKept ==
  ASSUME SInv, NEW c \in Clients, UNCHANGED <<server, buf, notified>>
  PROVE  InOrder(c)' /\ Stored(c)' /\ \A k : Unread(c, k)' <=> Unread(c, k)
<1>1. InOrder(c) /\ Stored(c)
  BY ByClient DEF SInv, StreamTruthful
<1> QED BY <1>1 DEF server, InOrder, Stored, Unread

LEMMA BrowserSteps ==
  ASSUME SInv, BufferSize \in Nat, NEW c \in Clients, ClientStep(c) PROVE SInv'
<1>1. /\ buf \in [Clients -> Seq(Event)] /\ \A d \in Clients : Len(buf[d]) <= BufferSize
      /\ notified \in [Clients -> SUBSET Scans] /\ loaded \in [Clients -> BOOLEAN]
      /\ fetch \in [Clients -> FetchState] /\ reply \in [Clients -> SUBSET Scans]
      /\ stream \in [Clients -> StreamState] /\ cache \in [Clients -> SUBSET Scans]
      /\ landed \in [Tenants -> SUBSET Scans] /\ of[c] \in Tenants
  BY Zenon DEF SInv, StreamTruthful, TypeOK
<1>2. InOrder(c) /\ Stored(c) /\ Shown(c)
  BY ByClient DEF SInv, StreamTruthful
<1>3. CASE Mount(c) \/ Revisit(c)
  <2>1. /\ UNCHANGED <<server, buf, reply, cache, loaded, notified>>
        /\ fetch' = [fetch EXCEPT ![c] = "asked"]
    BY <1>3 DEF Mount, Revisit, Ask
  <2>2. stream' \in [Clients -> StreamState]
    BY <1>1, <1>3 DEF Mount, Revisit, StreamState
  <2>3. /\ fetch' \in [Clients -> FetchState] /\ fetch'[c] = "asked"
        /\ \A d \in Clients : d # c => fetch'[d] = fetch[d]
    BY <1>1, <2>1 DEF FetchState
  <2>4. TypeOK'
    BY <2>1, <2>2, <2>3, Zenon DEF SInv, StreamTruthful, TypeOK, server
  <2>5. InOrder(c)' /\ Stored(c)'
    BY <2>1, ChannelKept
  <2>6. Shown(c)'
    BY <2>3 DEF Shown
  <2> QED BY <2>1, <2>3, <2>4, <2>5, <2>6, ClientKeeps
<1>4. CASE Subscribe(c)
  <2>1. UNCHANGED <<server, buf, query, notified>>
    BY <1>4 DEF Subscribe
  <2>2. stream' \in [Clients -> StreamState]
    BY <1>1, <1>4 DEF Subscribe, StreamState
  <2>3. TypeOK'
    BY <2>1, <2>2, Zenon DEF SInv, StreamTruthful, TypeOK, server, query
  <2>4. InOrder(c)' /\ Stored(c)' /\ \A k : Unread(c, k)' <=> Unread(c, k)
    BY <2>1, ChannelKept
  <2>5. Shown(c)'
    BY <1>2, <2>1, <2>4 DEF Shown, Coming, server, query
  <2> QED BY <2>1, <2>3, <2>4, <2>5, ClientKeeps DEF query
<1>5. CASE Unsubscribe(c)
  <2>1. /\ UNCHANGED <<server, query>>
        /\ buf' = [buf EXCEPT ![c] = <<>>] /\ notified' = [notified EXCEPT ![c] = {}]
    BY <1>5 DEF Unsubscribe
  <2>2. stream' \in [Clients -> StreamState]
    BY <1>1, <1>5 DEF Unsubscribe, StreamState
  <2>3. /\ buf' \in [Clients -> Seq(Event)] /\ notified' \in [Clients -> SUBSET Scans]
        /\ buf'[c] = <<>> /\ notified'[c] = {}
        /\ \A d \in Clients : d # c => buf'[d] = buf[d] /\ notified'[d] = notified[d]
    BY <1>1, <2>1
  <2>4. \A d \in Clients : Len(buf'[d]) <= BufferSize
    BY <1>1, <2>3
  <2>5. TypeOK'
    BY <2>1, <2>2, <2>3, <2>4, Zenon DEF SInv, StreamTruthful, TypeOK, server, query
  <2>6. InOrder(c)' /\ Stored(c)' /\ Shown(c)'
    BY <2>3 DEF InOrder, Stored, Shown
  <2> QED BY <2>1, <2>3, <2>5, <2>6, ClientKeeps DEF query
<1>6. CASE Answer(c)
  <2>1. /\ UNCHANGED <<server, stream, buf, cache, loaded, notified>>
        /\ fetch' = [fetch EXCEPT ![c] = "answered"] /\ reply' = [reply EXCEPT ![c] = landed[of[c]]]
    BY <1>6 DEF Answer
  <2>2. /\ fetch' \in [Clients -> FetchState] /\ fetch'[c] = "answered"
        /\ reply' \in [Clients -> SUBSET Scans] /\ reply'[c] = landed[of[c]]
        /\ \A d \in Clients : d # c => fetch'[d] = fetch[d] /\ reply'[d] = reply[d]
    BY <1>1, <2>1 DEF FetchState
  <2>3. TypeOK'
    BY <2>1, <2>2, Zenon DEF SInv, StreamTruthful, TypeOK, server
  <2>4. InOrder(c)' /\ Stored(c)'
    BY <2>1, ChannelKept
  <2>5. Shown(c)'
    BY <2>1, <2>2 DEF Shown, Coming, server
  <2> QED BY <2>1, <2>2, <2>3, <2>4, <2>5, ClientKeeps
<1>7. CASE Arrive(c)
  <2>1. /\ UNCHANGED <<server, stream, buf, notified>> /\ fetch[c] = "answered"
        /\ fetch' = [fetch EXCEPT ![c] = "idle"] /\ cache' = [cache EXCEPT ![c] = reply[c]]
        /\ loaded' = [loaded EXCEPT ![c] = TRUE] /\ reply' = [reply EXCEPT ![c] = {}]
    BY <1>7 DEF Arrive
  <2>2. /\ fetch' \in [Clients -> FetchState] /\ fetch'[c] = "idle" /\ loaded' \in [Clients -> BOOLEAN]
        /\ reply' \in [Clients -> SUBSET Scans]
        /\ cache' \in [Clients -> SUBSET Scans] /\ cache'[c] = reply[c]
        /\ \A d \in Clients : d # c => fetch'[d] = fetch[d] /\ reply'[d] = reply[d] /\ cache'[d] = cache[d]
    BY <1>1, <2>1 DEF FetchState
  <2>3. TypeOK'
    BY <2>1, <2>2, Zenon DEF SInv, StreamTruthful, TypeOK, server
  <2>4. InOrder(c)' /\ Stored(c)' /\ \A k : Unread(c, k)' <=> Unread(c, k)
    BY <2>1, ChannelKept
  <2>5. Shown(c)'
    BY <1>2, <2>1, <2>2, <2>4 DEF Shown, Coming, server
  <2> QED BY <2>1, <2>2, <2>3, <2>4, <2>5, ClientKeeps
<1>8. CASE FetchFails(c)
  <2>1. /\ UNCHANGED <<server, stream, buf, cache, loaded, notified>>
        /\ fetch' = [fetch EXCEPT ![c] = "failed"] /\ reply' = [reply EXCEPT ![c] = {}]
    BY <1>8 DEF FetchFails
  <2>2. /\ fetch' \in [Clients -> FetchState] /\ fetch'[c] = "failed" /\ reply' \in [Clients -> SUBSET Scans]
        /\ \A d \in Clients : d # c => fetch'[d] = fetch[d] /\ reply'[d] = reply[d]
    BY <1>1, <2>1 DEF FetchState
  <2>3. TypeOK'
    BY <2>1, <2>2, Zenon DEF SInv, StreamTruthful, TypeOK, server
  <2>4. InOrder(c)' /\ Stored(c)'
    BY <2>1, ChannelKept
  <2>5. Shown(c)'
    BY <2>2 DEF Shown
  <2> QED BY <2>1, <2>2, <2>3, <2>4, <2>5, ClientKeeps
<1>9. CASE Deliver(c)
  <2> DEFINE ev == Head(buf[c])
  <2>1. /\ UNCHANGED <<server, stream, reply, cache, loaded>> /\ buf[c] # <<>>
        /\ scan' = scan /\ of' = of /\ landed' = landed /\ gone' = gone
        /\ buf' = [buf EXCEPT ![c] = Tail(@)]
    BY <1>9 DEF Deliver, server
  <2>2. \/ /\ ev.type = "scan_completed"
           /\ fetch' = [fetch EXCEPT ![c] =
                IF loaded[c] \/ @ \notin {"asked", "answered"} THEN "asked" ELSE @]
           /\ notified' = [notified EXCEPT ![c] = IF Overtaken(c, ev.scan) THEN @ \ {ev.scan} ELSE @]
        \/ ev.type # "scan_completed" /\ fetch' = fetch /\ notified' = notified
    BY <1>9 DEF Deliver, Invalidate
  <2>3. /\ buf[c] \in Seq(Event) /\ ev = buf[c][1] /\ ev \in Event
        /\ Len(buf[c]) \in Nat \ {0} /\ DOMAIN buf[c] = 1 .. Len(buf[c])
        /\ Tail(buf[c]) \in Seq(Event) /\ Len(Tail(buf[c])) = Len(buf[c]) - 1
        /\ DOMAIN Tail(buf[c]) = 1 .. Len(buf[c]) - 1
        /\ \A i \in 1 .. Len(buf[c]) - 1 : Tail(buf[c])[i] = buf[c][i + 1]
    <3>1. buf[c] \in Seq(Event) /\ buf[c] # <<>>
      BY <1>1, <2>1
    <3> QED BY <3>1, Taken
  <2> HIDE DEF ev
  <2>4. /\ buf' \in [Clients -> Seq(Event)] /\ buf'[c] = Tail(buf[c])
        /\ \A d \in Clients : d # c => buf'[d] = buf[d]
    BY <1>1, <2>1, <2>3
  <2>5. /\ DOMAIN buf'[c] = 1 .. Len(buf[c]) - 1 /\ Len(buf'[c]) = Len(buf[c]) - 1
        /\ \A i \in DOMAIN buf'[c] : i + 1 \in DOMAIN buf[c] /\ buf'[c][i] = buf[c][i + 1] /\ i \in Nat
    BY <2>3, <2>4
  <2>6. \A d \in Clients : Len(buf'[d]) <= BufferSize
    <3>1. Len(buf[c]) \in Nat /\ Len(buf[c]) <= BufferSize
      BY <1>1, <2>3
    <3>2. Len(buf'[c]) <= BufferSize
      BY <2>5, <3>1
    <3> QED BY <1>1, <2>4, <3>2
  <2>7. /\ fetch' \in [Clients -> FetchState] /\ \A d \in Clients : d # c => fetch'[d] = fetch[d]
        /\ fetch'[c] \in {fetch[c], "asked"}
        /\ ev.type = "scan_completed" /\ fetch'[c] # "asked" => ~loaded[c] /\ fetch'[c] = "answered"
    BY <1>1, <2>2 DEF FetchState
  <2>8. /\ notified' \in [Clients -> SUBSET Scans] /\ notified'[c] \subseteq notified[c]
        /\ \A d \in Clients : d # c => notified'[d] = notified[d]
        /\ ev.type = "scan_completed" /\ Overtaken(c, ev.scan) => ev.scan \notin notified'[c]
    BY <1>1, <2>2
  <2>9. TypeOK'
    BY <2>1, <2>4, <2>6, <2>7, <2>8, Zenon DEF SInv, StreamTruthful, TypeOK
  <2>10. InOrder(c)'
    <3> SUFFICES ASSUME NEW i \in DOMAIN buf'[c]
                 PROVE  /\ of[buf'[c][i].scan] = of[c]
                        /\ place(buf'[c][i].type) <= published(scan[buf'[c][i].scan])
                        /\ \A j \in DOMAIN buf'[c] : buf'[c][j].scan = buf'[c][i].scan /\ i < j =>
                             place(buf'[c][i].type) < place(buf'[c][j].type)
      BY <2>1 DEF InOrder
    <3>1. i + 1 \in DOMAIN buf[c] /\ buf'[c][i] = buf[c][i + 1]
      BY <2>5
    <3>2. of[buf'[c][i].scan] = of[c] /\ place(buf'[c][i].type) <= published(scan[buf'[c][i].scan])
      BY <1>2, <3>1 DEF InOrder
    <3>3. ASSUME NEW j \in DOMAIN buf'[c], buf'[c][j].scan = buf'[c][i].scan, i < j
          PROVE  place(buf'[c][i].type) < place(buf'[c][j].type)
      <4>1. j + 1 \in DOMAIN buf[c] /\ buf'[c][j] = buf[c][j + 1] /\ i + 1 < j + 1
        BY <2>5, <3>3
      <4> QED BY <1>2, <3>1, <3>3, <4>1 DEF InOrder
    <3> QED BY <3>2, <3>3
  <2>11. Stored(c)'
    BY <1>2, <2>1, <2>5 DEF Stored
  <2>12. Shown(c)'
    <3> SUFFICES ASSUME NEW k \in notified'[c], k \in landed[of[c]], fetch'[c] \notin {"asked", "failed"}
                 PROVE  Unread(c, k)' \/ k \in Coming(c)'
      BY <2>1 DEF Shown
    <3>1. /\ k \in notified[c] /\ fetch'[c] = fetch[c] /\ Coming(c)' = Coming(c)
          /\ Unread(c, k) \/ k \in Coming(c)
      BY <1>2, <2>1, <2>7, <2>8 DEF Shown, Coming
    <3>2. CASE k \in Coming(c)
      BY <3>1, <3>2
    <3>3. CASE Unread(c, k)
      <4>1. PICK i \in DOMAIN buf[c] : buf[c][i].type = "scan_completed" /\ buf[c][i].scan = k
        BY <3>3 DEF Unread
      <4>2. CASE i = 1
        <5>1. ev.type = "scan_completed" /\ ev.scan = k
          BY <2>3, <4>1, <4>2
        <5>2. ~loaded[c] /\ fetch[c] = "answered"
          BY <2>7, <3>1, <5>1
        <5>3. k \in reply[c]
          BY <2>8, <5>1, <5>2 DEF Overtaken
        <5> QED BY <3>1, <5>2, <5>3 DEF Coming
      <4>3. CASE i # 1
        <5>1. i - 1 \in DOMAIN buf'[c] /\ buf'[c][i - 1] = buf[c][i]
          BY <2>3, <2>4, <4>1, <4>3
        <5> QED BY <4>1, <5>1 DEF Unread
      <4> QED BY <4>2, <4>3
    <3> QED BY <3>1, <3>2, <3>3
  <2> QED BY <2>1, <2>4, <2>7, <2>8, <2>9, <2>10, <2>11, <2>12, ClientKeeps
<1> QED BY <1>3, <1>4, <1>5, <1>6, <1>7, <1>8, <1>9 DEF ClientStep

-----------------------------------------------------------------------------
(* The theorem.                                                            *)

LEMMA SInvInit == BufferSize \in Nat /\ Init => SInv
<1> SUFFICES ASSUME BufferSize \in Nat, Init PROVE SInv
  OBVIOUS
<1>1. \A c \in Clients : buf[c] = <<>> /\ notified[c] = {}
  BY DEF Init
<1>2. TypeOK
  <2>1. buf \in [Clients -> Seq(Event)] /\ notified \in [Clients -> SUBSET Scans]
    BY DEF Init
  <2>2. \A c \in Clients : Len(buf[c]) <= BufferSize
    BY <1>1
  <2>3. /\ scan \in [Scans -> ScanState] /\ of \in [Scans \cup Clients -> Tenants]
        /\ landed \in [Tenants -> SUBSET Scans] /\ stream \in [Clients -> StreamState]
        /\ cache \in [Clients -> SUBSET Scans] /\ reply \in [Clients -> SUBSET Scans]
        /\ gone \subseteq Scans
    BY DEF Init, ScanState, StreamState
  <2>4. loaded \in [Clients -> BOOLEAN] /\ fetch \in [Clients -> FetchState]
    BY DEF Init, FetchState
  <2> QED BY <2>1, <2>2, <2>3, <2>4, Zenon DEF TypeOK
<1>3. BufferedInOrder /\ CompletionIsStored /\ NotifiedIsShown /\ NotifiedIsOver
  BY <1>1 DEF BufferedInOrder, CompletionIsStored, NotifiedIsShown, NotifiedIsOver
<1>4. StoredLanded
  BY DEF Init, StoredLanded
<1> QED BY <1>2, <1>3, <1>4 DEF SInv, StreamTruthful

LEMMA SInvStep == BufferSize \in Nat /\ SInv /\ [Next]_vars => SInv'
<1> SUFFICES ASSUME BufferSize \in Nat, SInv, [Next]_vars PROVE SInv'
  OBVIOUS
<1>1. CASE UNCHANGED vars
  <2>1. /\ scan' = scan /\ of' = of /\ landed' = landed /\ stream' = stream /\ buf' = buf
        /\ fetch' = fetch /\ reply' = reply /\ cache' = cache /\ loaded' = loaded
        /\ notified' = notified /\ gone' = gone
    BY <1>1 DEF vars
  <2>2. TypeOK'
    BY <2>1, Zenon DEF SInv, StreamTruthful, TypeOK
  <2>3. BufferedInOrder'
    BY <2>1 DEF SInv, StreamTruthful, BufferedInOrder
  <2>4. CompletionIsStored'
    BY <2>1 DEF SInv, StreamTruthful, CompletionIsStored
  <2>5. NotifiedIsShown'
    BY <2>1 DEF SInv, StreamTruthful, NotifiedIsShown, Unread, Coming
  <2>6. StoredLanded' /\ NotifiedIsOver'
    BY <2>1 DEF SInv, StoredLanded, NotifiedIsOver
  <2> QED BY <2>2, <2>3, <2>4, <2>5, <2>6 DEF SInv, StreamTruthful
<1>2. ASSUME NEW k \in Scans, ScanStep(k) PROVE SInv'
  BY <1>2, PublishingSteps, StoreKeeps DEF ScanStep
<1>3. ASSUME NEW c \in Clients, ClientStep(c) PROVE SInv'
  BY <1>3, BrowserSteps
<1>4. ASSUME NEW t \in Tenants, Remove(t) PROVE SInv'
  BY <1>4, StoreKeeps
<1> QED BY <1>1, <1>2, <1>3, <1>4 DEF Next

\* What waits in a subscriber's channel is of its own tenant, published, and in the
\* order of its scan (broker.go:55); a completion is announced after the store was done
\* with the scan, whether it kept it, lost it or was told to remove it
\* (api.go:357, api.go:363); and a browser that was sent the completion of a scan the
\* store has shows it or is about to (useScanStream.ts), whatever a full channel dropped
\* and whichever fetches were cancelled, except for the failed fetch and the overtaken
\* first load that StreamTruthful names.
THEOREM StreamIsTruthful == ASSUME BufferSize \in Nat PROVE Spec => []StreamTruthful
<1>1. SInv => StreamTruthful
  BY DEF SInv
<1> QED BY <1>1, SInvInit, SInvStep, PTL DEF Spec
=============================================================================
