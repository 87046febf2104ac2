---------------------------- MODULE ServiceProofs ----------------------------
(***************************************************************************)
(* Proof that the gauges of the single-tenant service hold, for every      *)
(* number of overlapping scans, every list of vectors and labels, and      *)
(* every number of restarts.                                               *)
(*                                                                         *)
(* A call of updateMetrics is "ahead" of a series when it has yet to look  *)
(* it up, or holds the registered gauge it is about to set.  Whatever      *)
(* unregisters a series is itself ahead of it, so a series that shows no   *)
(* scan's value always has a call ahead of it; at rest there is no call.   *)
(***************************************************************************)
EXTENDS Service, SequenceTheorems, TLAPS

Piece == [rec : Scans, whole : BOOLEAN]

Series(i, j) == gauge[Vecs[i]][Labels[Vecs[i]][j]]

\* Call c, with h the state of the gauge it holds, will yet set label j of vector i.
Before(c, h, i, j) ==
  \/ c.vec < i
  \/ c.vec = i /\ c.label < j
  \/ c.vec = i /\ c.label = j /\ (c.op = "with" \/ h)

Ahead(k, i, j) == pc[k] = "metrics" /\ Before(step[k], handle[k], i, j)

\* Types the steps need, and what a call outside updateMetrics looks like.
Shape ==
  /\ TypeOK
  /\ DOMAIN gauge = VecNames /\ DOMAIN page = {"at", "rep", "trend", "known"}
  /\ file \in Seq(Seq(Piece)) /\ file # <<>>
  /\ \A k \in Scans : pc[k] # "metrics" => step[k] = FillVec(1)
  /\ \A k \in Scans : handle[k] => pc[k] = "metrics" /\ step[k].op = "set"

\* Every series shows a scan's value or has a call ahead of it.
Covered ==
  latest # None =>
    /\ paths # None \/ \E k \in Scans : pc[k] = "metrics"
    /\ \A i \in DOMAIN Vecs : \A j \in DOMAIN Labels[Vecs[i]] :
         Series(i, j) \in Scans \/ \E k \in Scans : Ahead(k, i, j)

\* Without overlapping updates the only call is that of the cached report: it
\* keeps the gauge it looked up, and what it is not ahead of shows its value.
Alone ==
  ~overlap =>
    /\ \A k \in Scans : pc[k] = "metrics" => k = latest
    /\ \A k \in Scans : pc[k] = "metrics" /\ step[k].op = "set" => handle[k]
    /\ latest # None =>
         /\ paths = latest \/ pc[latest] = "metrics"
         /\ \A i \in DOMAIN Vecs : \A j \in DOMAIN Labels[Vecs[i]] :
              Series(i, j) = latest \/ Ahead(latest, i, j)

GaugeInv == Shape /\ Covered /\ Alone

-----------------------------------------------------------------------------
(* The calls of updateMetrics.                                              *)

\* FillVec gives a call that is ahead of all its vector's labels and those after.
LEMMA FillVecCall ==
  ASSUME NEW v \in 1..(Len(Vecs) + 1)
  PROVE  /\ FillVec(v) \in Calls
         /\ FillVec(v).op \in {"reset", "paths"}
         /\ FillVec(v).vec = v /\ FillVec(v).label = 0
  BY ServiceAssumption DEF FillVec, Calls

\* The loop over the labels goes to a label or to the next vector.
LEMMA FillLabelCall ==
  ASSUME NEW v \in DOMAIN Vecs, NEW l \in Nat \ {0}
  PROVE  /\ FillLabel(v, l) \in Calls
         /\ FillLabel(v, l).op # "set"
         /\ \A i \in DOMAIN Vecs : \A j \in DOMAIN Labels[Vecs[i]], h \in BOOLEAN :
              (v < i \/ (v = i /\ l <= j)) => Before(FillLabel(v, l), h, i, j)
<1> DEFINE n == Len(Labels[Vecs[v]])
<1>1. n \in Nat /\ DOMAIN Labels[Vecs[v]] = 1..n /\ v \in 1..Len(Vecs) /\ Len(Vecs) \in Nat
  BY ServiceAssumption
<1>2. CASE l <= n
  <2>1. FillLabel(v, l) = [op |-> "with", vec |-> v, label |-> l]  BY <1>2 DEF FillLabel
  <2>2. FillLabel(v, l) \in Calls  BY <2>1, <1>1, <1>2 DEF Calls
  <2>3. ASSUME NEW i \in DOMAIN Vecs, NEW j \in DOMAIN Labels[Vecs[i]], NEW h \in BOOLEAN,
               v < i \/ (v = i /\ l <= j)
        PROVE  Before(FillLabel(v, l), h, i, j)
    <3>1. j \in Nat  BY ServiceAssumption
    <3> QED  BY <2>1, <2>3, <3>1, <1>1 DEF Before
  <2> QED  BY <2>1, <2>2, <2>3
<1>3. CASE ~(l <= n)
  <2>1. FillLabel(v, l) = FillVec(v + 1)  BY <1>3 DEF FillLabel
  <2>2. v + 1 \in 1..(Len(Vecs) + 1)  BY <1>1
  <2>3. /\ FillVec(v + 1) \in Calls
        /\ FillVec(v + 1).op \in {"reset", "paths"}
        /\ FillVec(v + 1).vec = v + 1 /\ FillVec(v + 1).label = 0
    BY <2>2, FillVecCall
  <2>4. ASSUME NEW i \in DOMAIN Vecs, NEW j \in DOMAIN Labels[Vecs[i]], NEW h \in BOOLEAN,
               v < i \/ (v = i /\ l <= j)
        PROVE  Before(FillLabel(v, l), h, i, j)
    <3>1. j \in 1..Len(Labels[Vecs[i]]) /\ Len(Labels[Vecs[i]]) \in Nat /\ i \in 1..Len(Vecs)
      BY ServiceAssumption
    <3>2. v < i  BY <2>4, <3>1, <1>1, <1>3
    <3> QED  BY <2>1, <2>3, <3>1, <3>2, <1>1 DEF Before
  <2> QED  BY <2>1, <2>3, <2>4
<1> QED  BY <1>2, <1>3

\* A step of updateMetrics is a call, and stays ahead of every series but the one
\* it sets; a reset is ahead of all its vector's series.
LEMMA AfterCall ==
  ASSUME NEW c \in Calls, c.op # "paths"
  PROVE  /\ c.vec \in DOMAIN Vecs
         /\ After(c) \in Calls
         /\ After(c).op = "set" <=> c.op = "with"
         /\ \A i \in DOMAIN Vecs : \A j \in DOMAIN Labels[Vecs[i]], h \in BOOLEAN, g \in BOOLEAN :
              /\ Before(c, h, i, j)
              /\ c.op = "set" => ~(c.vec = i /\ c.label = j)
              /\ c.op = "with" => g
              => Before(After(c), g, i, j)
         /\ c.op = "reset" => \A j \in DOMAIN Labels[Vecs[c.vec]], g \in BOOLEAN :
                                Before(After(c), g, c.vec, j)
<1>1. /\ c.vec \in DOMAIN Vecs /\ c.label \in Nat /\ c.op \in {"reset", "with", "set"}
      /\ c = [op |-> c.op, vec |-> c.vec, label |-> c.label]
      /\ c.op = "reset" => c.label = 0
      /\ c.op # "reset" => c.label \in DOMAIN Labels[Vecs[c.vec]]
  BY DEF Calls
<1>2. c.vec \in Nat  BY <1>1, ServiceAssumption
<1>3. CASE c.op = "with"
  <2>1. After(c) = [op |-> "set", vec |-> c.vec, label |-> c.label]  BY <1>1, <1>3 DEF After
  <2>2. After(c) \in Calls  BY <2>1, <1>1, <1>3, ServiceAssumption DEF Calls
  <2>3. ASSUME NEW i \in DOMAIN Vecs, NEW j \in DOMAIN Labels[Vecs[i]], NEW h \in BOOLEAN,
               NEW g \in BOOLEAN, Before(c, h, i, j), g
        PROVE  Before(After(c), g, i, j)
    BY <2>1, <2>3, <1>3 DEF Before
  <2> QED  BY <1>1, <1>3, <2>1, <2>2, <2>3
<1>4. CASE c.op # "with"
  <2> DEFINE l == c.label + 1
  <2>1. After(c) = FillLabel(c.vec, l) /\ l \in Nat \ {0}  BY <1>1, <1>4 DEF After
  <2> HIDE DEF l
  <2>2. /\ FillLabel(c.vec, l) \in Calls
        /\ FillLabel(c.vec, l).op # "set"
        /\ \A i \in DOMAIN Vecs : \A j \in DOMAIN Labels[Vecs[i]], h \in BOOLEAN :
             (c.vec < i \/ (c.vec = i /\ l <= j)) => Before(FillLabel(c.vec, l), h, i, j)
    BY <1>1, <2>1, FillLabelCall
  <2>3. ASSUME NEW i \in DOMAIN Vecs, NEW j \in DOMAIN Labels[Vecs[i]], NEW h \in BOOLEAN,
               Before(c, h, i, j), c.op = "set" => ~(c.vec = i /\ c.label = j)
        PROVE  c.vec < i \/ (c.vec = i /\ l <= j)
    <3>1. j \in 1..Len(Labels[Vecs[i]]) /\ Len(Labels[Vecs[i]]) \in Nat  BY ServiceAssumption
    <3> QED  BY <2>3, <3>1, <1>1, <1>4 DEF Before, l
  <2>4. ASSUME c.op = "reset", NEW j \in DOMAIN Labels[Vecs[c.vec]]
        PROVE  l <= j
    <3>1. j \in 1..Len(Labels[Vecs[c.vec]]) /\ Len(Labels[Vecs[c.vec]]) \in Nat
      BY <1>1, ServiceAssumption
    <3> QED  BY <2>4, <3>1, <1>1 DEF l
  <2>5. ASSUME NEW i \in DOMAIN Vecs, NEW j \in DOMAIN Labels[Vecs[i]], NEW h \in BOOLEAN,
               NEW g \in BOOLEAN, Before(c, h, i, j), c.op = "set" => ~(c.vec = i /\ c.label = j)
        PROVE  Before(After(c), g, i, j)
    BY <2>1, <2>2, <2>3, <2>5
  <2>6. ASSUME c.op = "reset", NEW j \in DOMAIN Labels[Vecs[c.vec]], NEW g \in BOOLEAN
        PROVE  Before(After(c), g, c.vec, j)
    BY <2>1, <2>2, <2>4, <2>6, <1>1
  <2> QED  BY <1>1, <1>4, <2>1, <2>2, <2>5, <2>6
<1> QED  BY <1>3, <1>4

-----------------------------------------------------------------------------
(* What the steps keep of the types.                                        *)

\* A write leaves a file of lines of pieces.
LEMMA WrittenType ==
  ASSUME NEW f \in Seq(Seq(Piece)), f # <<>>, NEW k \in Scans, NEW how \in Writes(Backend)
  PROVE  Written(f, k, how) \in Seq(Seq(Piece)) /\ Written(f, k, how) # <<>>
<1>1. ASSUME NEW p \in Piece
      PROVE  Join(f, p) \in Seq(Seq(Piece)) /\ Join(f, p) # <<>>
  <2>1. Len(f) \in DOMAIN f  OBVIOUS
  <2>2. Append(f[Len(f)], p) \in Seq(Piece)  BY <2>1
  <2>3. Join(f, p) \in Seq(Seq(Piece)) /\ Len(Join(f, p)) = Len(f)
    BY <2>1, <2>2, ExceptSeq DEF Join
  <2> QED  BY <2>3
<1>2. \A b \in BOOLEAN : [rec |-> k, whole |-> b] \in Piece  BY DEF Piece
<1>3. how \in {"nothing", "partial", "unterminated", "full"}  BY DEF Writes
<1>4. CASE how = "nothing"  BY <1>4 DEF Written
<1>5. CASE how = "partial"
  <2>1. Written(f, k, how) = Join(f, [rec |-> k, whole |-> FALSE])  BY <1>5 DEF Written
  <2> QED  BY <2>1, <1>1, <1>2, Zenon
<1>6. CASE how = "unterminated"
  <2>1. Written(f, k, how) = Join(f, [rec |-> k, whole |-> TRUE])  BY <1>6 DEF Written
  <2> QED  BY <2>1, <1>1, <1>2, Zenon
<1>7. CASE how = "full"
  <2> DEFINE g == Join(f, [rec |-> k, whole |-> TRUE])
  <2>1. Written(f, k, how) = Append(g, <<>>)  BY <1>7 DEF Written
  <2>2. g \in Seq(Seq(Piece))  BY <1>1, <1>2, Zenon
  <2>3. <<>> \in Seq(Piece)  OBVIOUS
  <2> HIDE DEF g
  <2>4. Append(g, <<>>) \in Seq(Seq(Piece)) /\ Append(g, <<>>) # <<>>
    BY <2>2, <2>3, AppendProperties, Zenon
  <2> QED  BY <2>1, <2>4
<1> QED  BY <1>3, <1>4, <1>5, <1>6, <1>7

\* The labels of a vector whose series are all gone.
LEMMA NoSeriesType ==
  /\ DOMAIN NoSeries = VecNames
  /\ \A v \in VecNames : NoSeries[v] \in [Range(Labels[v]) -> Scans \cup {Absent, Zero}]
  BY DEF NoSeries

\* The initial state.
LEMMA InitShape == Init => Shape
<1> SUFFICES ASSUME Init PROVE Shape  OBVIOUS
<1>1. FillVec(1) \in Calls
  <2>1. 1 \in 1..(Len(Vecs) + 1)  BY ServiceAssumption
  <2> QED  BY <2>1, FillVecCall
<1>2. step \in [Scans -> Calls]  BY <1>1 DEF Init
<1>3. file \in Seq(Seq(Piece)) /\ file # <<>>
  <2>1. <<>> \in Seq(Piece)  OBVIOUS
  <2> QED  BY <2>1 DEF Init, Empty
<1>4. \A i \in DOMAIN file : file[i] \in Seq([rec : Scans, whole : BOOLEAN])
  BY <1>3 DEF Piece
<1>5. acked \in Seq(Scans) /\ stops \in 0..MaxStops  BY ServiceAssumption DEF Init
<1>6. page.at \in {"idle", "snapshot", "sent"} /\ page.known \subseteq Scans
      /\ DOMAIN page = {"at", "rep", "trend", "known"}
  BY DEF Init, NoPage
<1>7. DOMAIN gauge = VecNames
      /\ \A v \in VecNames : gauge[v] \in [Range(Labels[v]) -> Scans \cup {Absent, Zero}]
  BY NoSeriesType DEF Init
<1>8. TypeOK  BY <1>2, <1>4, <1>5, <1>6, <1>7, Zenon DEF TypeOK, Init
<1> QED  BY <1>3, <1>6, <1>7, <1>8 DEF Shape, Init

\* A scan that moves between places other than updateMetrics.
LEMMA MoveShape ==
  ASSUME Shape, NEW k \in Scans, pc[k] # "metrics",
         NEW to \in {"load", "analyzed", "metrics", "done", "failed"},
         pc' = [pc EXCEPT ![k] = to],
         UNCHANGED <<step, handle, gauge, paths, stops>>,
         phase' \in {"down", "boot", "serving"}, latest' \in Scans \cup {None},
         overlap' \in BOOLEAN, acked' \in Seq(Scans),
         file' \in Seq(Seq(Piece)), file' # <<>>, UNCHANGED page
  PROVE  Shape'
<1>1. \A i \in DOMAIN file' : file'[i] \in Seq([rec : Scans, whole : BOOLEAN])  BY DEF Piece
<1>2. TypeOK'  BY <1>1 DEF Shape, TypeOK
<1>3. \A j \in Scans : pc'[j] # "metrics" => step'[j] = FillVec(1)  BY DEF Shape, TypeOK
<1>4. \A j \in Scans : handle'[j] => pc'[j] = "metrics" /\ step'[j].op = "set"
  BY DEF Shape, TypeOK
<1> QED  BY <1>2, <1>3, <1>4 DEF Shape

\* A call of updateMetrics, the last one or another, on one vector's gauges.
LEMMA UpdateShape ==
  ASSUME Shape, NEW k \in Scans, UpdateMetrics(k)
  PROVE  Shape'
<1> DEFINE c == step[k]
<1>1. c \in Calls /\ pc[k] = "metrics"  BY DEF UpdateMetrics, Shape, TypeOK
<1>2. /\ c.op \in {"reset", "with", "set", "paths"}
      /\ c.op # "paths" => c.vec \in DOMAIN Vecs
      /\ c.op \in {"with", "set"} => c.label \in DOMAIN Labels[Vecs[c.vec]]
  BY <1>1 DEF Calls
<1>3. FillVec(1) \in Calls
  <2>1. 1 \in 1..(Len(Vecs) + 1)  BY ServiceAssumption
  <2> QED  BY <2>1, FillVecCall
<1>4. c.op # "paths" => After(c) \in Calls /\ (After(c).op = "set" <=> c.op = "with")
  BY <1>1, AfterCall
<1> DEFINE v == Vecs[c.vec]
           l == Labels[v][c.label]
<1>5. /\ c.op # "paths" => v \in VecNames
      /\ c.op \in {"with", "set"} => l \in Range(Labels[v])
  BY <1>2 DEF VecNames, Range
<1>6. pc' \in [Scans -> {"idle", "load", "analyzed", "metrics", "append", "done", "failed", "lost"}]
  BY Zenon DEF UpdateMetrics, Shape, TypeOK
<1>7. step' \in [Scans -> Calls]
  BY <1>3, <1>4, Zenon DEF UpdateMetrics, Shape, TypeOK
<1>8. Update(k, c)  BY DEF UpdateMetrics
<1>9. /\ handle' \in [Scans -> BOOLEAN] /\ paths' \in Scans \cup {None}
      /\ DOMAIN gauge' = VecNames
      /\ \A w \in VecNames : gauge'[w] \in [Range(Labels[w]) -> Scans \cup {Absent, Zero}]
      /\ \A j \in Scans : handle'[j] => \/ handle[j] /\ (j = k => c.op \in {"reset", "paths"})
                                        \/ j = k /\ c.op = "with"
  <2> HIDE DEF c, v, l
  <2>0. /\ handle \in [Scans -> BOOLEAN] /\ paths \in Scans \cup {None}
        /\ DOMAIN gauge = VecNames
        /\ \A w \in VecNames : gauge[w] \in [Range(Labels[w]) -> Scans \cup {Absent, Zero}]
    BY DEF Shape, TypeOK
  <2>1. CASE c.op = "reset"
    <3>1. Reset(k, v)  BY <2>1, <1>8 DEF Update, v
    <3> QED  BY <2>0, <2>1, <3>1, <1>5, NoSeriesType DEF Reset
  <2>2. CASE c.op = "with"
    <3>1. With(k, v, l)  BY <2>2, <1>8 DEF Update, v, l
    <3>2. gauge' = [gauge EXCEPT ![v] = [gauge[v] EXCEPT ![l] = IF @ = Absent THEN Zero ELSE @]]
      BY <3>1 DEF With
    <3>3. [gauge[v] EXCEPT ![l] = IF @ = Absent THEN Zero ELSE @]
            \in [Range(Labels[v]) -> Scans \cup {Absent, Zero}]
      BY <2>0, <2>2, <1>5
    <3>4. handle' = [handle EXCEPT ![k] = TRUE] /\ paths' = paths  BY <3>1 DEF With
    <3> QED  BY <2>0, <2>2, <3>2, <3>3, <3>4, <1>5
  <2>3. CASE c.op = "set"
    <3>1. Set(k, v, l)  BY <2>3, <1>8 DEF Update, v, l
    <3>2. gauge' = [gauge EXCEPT ![v] = [gauge[v] EXCEPT ![l] = IF handle[k] THEN k ELSE @]]
      BY <3>1 DEF Set
    <3>3. [gauge[v] EXCEPT ![l] = IF handle[k] THEN k ELSE @]
            \in [Range(Labels[v]) -> Scans \cup {Absent, Zero}]
      BY <2>0, <2>3, <1>5
    <3>4. handle' = [handle EXCEPT ![k] = FALSE] /\ paths' = paths  BY <3>1 DEF Set
    <3> QED  BY <2>0, <2>3, <3>2, <3>3, <3>4, <1>5
  <2>4. CASE c.op = "paths"
    <3>1. paths' = k /\ gauge' = gauge /\ handle' = handle  BY <2>4, <1>8 DEF Update
    <3> QED  BY <2>0, <2>4, <3>1
  <2> QED  BY <1>2, <2>1, <2>2, <2>3, <2>4 DEF c
<1>10. UNCHANGED <<phase, latest, file, acked, stops, overlap, page>>  BY DEF UpdateMetrics
<1>11. TypeOK'  BY <1>6, <1>7, <1>9, <1>10, Zenon DEF Shape, TypeOK
<1>12. ASSUME NEW j \in Scans, pc'[j] # "metrics" PROVE step'[j] = FillVec(1)
  BY <1>12, <1>1, Zenon DEF UpdateMetrics, Shape, TypeOK
<1>13. ASSUME NEW j \in Scans, handle'[j] PROVE pc'[j] = "metrics" /\ step'[j].op = "set"
  <2>1. CASE j # k
    <3>1. handle[j]  BY <1>9, <1>13, <2>1
    <3>2. pc'[j] = pc[j] /\ step'[j] = step[j]  BY <2>1 DEF UpdateMetrics, Shape, TypeOK
    <3> QED  BY <3>1, <3>2 DEF Shape
  <2>2. CASE j = k
    <3>1. handle[k] => c.op = "set"  BY DEF Shape
    <3>2. c.op = "with"  BY <3>1, <1>9, <1>13, <2>2
    <3>3. pc'[k] = pc[k] /\ step'[k] = After(c)  BY <3>2 DEF UpdateMetrics, Shape, TypeOK
    <3> QED  BY <3>2, <3>3, <2>2, <1>1, <1>4
  <2> QED  BY <2>1, <2>2
<1> QED  BY <1>9, <1>10, <1>11, <1>12, <1>13 DEF Shape

\* The process stops.
LEMMA StopShape ==
  ASSUME Shape, Stop
  PROVE  Shape'
<1>1. FillVec(1) \in Calls
  <2>1. 1 \in 1..(Len(Vecs) + 1)  BY ServiceAssumption
  <2> QED  BY <2>1, FillVecCall
<1>2. step' \in [Scans -> Calls] /\ handle' \in [Scans -> BOOLEAN]  BY <1>1 DEF Stop
<1>3. file' \in Seq(Seq(Piece)) /\ file' # <<>>
  <2>1. file \in Seq(Seq(Piece)) /\ file # <<>>  BY DEF Shape
  <2>2. file' = file \/ \E k \in Scans, how \in Writes(Backend) : file' = Written(file, k, how)
    BY DEF Stop
  <2> QED  BY <2>1, <2>2, WrittenType
<1>4. \A i \in DOMAIN file' : file'[i] \in Seq([rec : Scans, whole : BOOLEAN])
  BY <1>3 DEF Piece
<1>5. stops' \in 0..MaxStops  BY ServiceAssumption DEF Stop, Shape, TypeOK
<1>6. page'.at \in {"idle", "snapshot", "sent"} /\ page'.known \subseteq Scans
      /\ DOMAIN page' = {"at", "rep", "trend", "known"}
  BY DEF Stop, NoPage
<1>7. DOMAIN gauge' = VecNames
      /\ \A v \in VecNames : gauge'[v] \in [Range(Labels[v]) -> Scans \cup {Absent, Zero}]
  BY NoSeriesType DEF Stop
<1>8. pc' \in [Scans -> {"idle", "load", "analyzed", "metrics", "append", "done", "failed", "lost"}]
  BY DEF Stop, Shape, TypeOK
<1>9. TypeOK'  BY <1>2, <1>4, <1>5, <1>6, <1>7, <1>8, Zenon DEF Stop, Shape, TypeOK
<1>10. \A k \in Scans : step'[k] = FillVec(1) /\ ~handle'[k]  BY DEF Stop
<1> QED  BY <1>3, <1>6, <1>7, <1>9, <1>10 DEF Shape

-----------------------------------------------------------------------------
(* What the steps keep of the gauges.                                       *)

\* A step that leaves the metrics alone and moves no call into or out of
\* updateMetrics.
LEMMA AsideGauges ==
  ASSUME Shape, Covered, Alone, UNCHANGED <<step, handle, latest, gauge, paths, overlap>>,
         \A k \in Scans : pc'[k] = "metrics" <=> pc[k] = "metrics"
  PROVE  Covered' /\ Alone'
<1>1. \A k \in Scans : \A i, j : Ahead(k, i, j)' <=> Ahead(k, i, j)  BY DEF Ahead, Before
<1>2. \A i, j : Series(i, j)' = Series(i, j)  BY DEF Series
<1>3. latest \in Scans \cup {None}  BY DEF Shape, TypeOK
<1>4. Covered'  BY <1>1, <1>2 DEF Covered
<1>5. Alone'  BY <1>1, <1>2, <1>3 DEF Alone
<1> QED  BY <1>4, <1>5

\* A call at the start of updateMetrics is ahead of every series.
LEMMA StartAhead ==
  ASSUME NEW i \in DOMAIN Vecs, NEW j \in DOMAIN Labels[Vecs[i]], NEW h
  PROVE  Before(FillVec(1), h, i, j)
<1>1. i \in 1..Len(Vecs) /\ Len(Vecs) \in Nat  BY ServiceAssumption
<1>2. j \in 1..Len(Labels[Vecs[i]]) /\ Len(Labels[Vecs[i]]) \in Nat  BY ServiceAssumption
<1>3. FillVec(1).vec = 1 /\ FillVec(1).label = 0  BY <1>1, FillVecCall
<1> QED  BY <1>1, <1>2, <1>3 DEF Before

\* A report is cached: its scan is ahead of everything.
LEMMA CacheGauges ==
  ASSUME Shape, Alone, NEW k \in Scans, CacheLatest(k)
  PROVE  Covered' /\ Alone'
<1>1. /\ pc' = [pc EXCEPT ![k] = "metrics"] /\ pc[k] = "analyzed" /\ latest' = k
      /\ step' = step /\ handle' = handle
  BY DEF CacheLatest
<1>2. pc'[k] = "metrics" /\ step'[k] = FillVec(1)  BY <1>1 DEF Shape, TypeOK
<1>3. \A i \in DOMAIN Vecs : \A j \in DOMAIN Labels[Vecs[i]] : Ahead(k, i, j)'
  BY <1>2, StartAhead DEF Ahead
<1>4. Covered'  BY <1>1, <1>2, <1>3 DEF Covered
<1>5. ASSUME ~overlap', NEW j \in Scans, pc'[j] = "metrics" PROVE j = k
  BY <1>1, <1>5, Zenon DEF CacheLatest, Shape, TypeOK
<1>6. step'[k].op # "set"
  <2>1. 1 \in 1..(Len(Vecs) + 1)  BY ServiceAssumption
  <2> QED  BY <2>1, <1>2, FillVecCall
<1>7. Alone'  BY <1>1, <1>2, <1>3, <1>5, <1>6 DEF Alone
<1> QED  BY <1>4, <1>7

\* After a stop there is no report.
LEMMA StopGauges ==
  ASSUME Shape, Stop
  PROVE  Covered' /\ Alone'
<1>1. latest' = None  BY DEF Stop
<1>2. \A k \in Scans : pc'[k] # "metrics"  BY DEF Stop, Active, Shape, TypeOK
<1> QED  BY <1>1, <1>2 DEF Covered, Alone

\* One call of updateMetrics: which series it touches, and who is ahead then.
LEMMA UpdateEffect ==
  ASSUME Shape, NEW k \in Scans, UpdateMetrics(k),
         NEW i \in DOMAIN Vecs, NEW j \in DOMAIN Labels[Vecs[i]]
  PROVE  /\ \/ Series(i, j)' = Series(i, j)
            \/ Series(i, j)' = k
            \/ Series(i, j)' = Zero /\ Series(i, j) = Absent
            \/ Ahead(k, i, j)'
         /\ Ahead(k, i, j) => Ahead(k, i, j)' \/ Series(i, j)' = k
         /\ \A m \in Scans \ {k} : Ahead(m, i, j) => Ahead(m, i, j)' \/ Ahead(k, i, j)'
<1> DEFINE c == step[k]
<1>1. c \in Calls /\ pc[k] = "metrics"  BY DEF UpdateMetrics, Shape, TypeOK
<1>2. /\ c.op \in {"reset", "with", "set", "paths"}
      /\ c.op # "paths" => c.vec \in DOMAIN Vecs
      /\ c.op = "paths" => c.vec = Len(Vecs) + 1
      /\ c.op \in {"with", "set"} => c.label \in DOMAIN Labels[Vecs[c.vec]]
  BY <1>1 DEF Calls
<1>3. i \in 1..Len(Vecs) /\ Len(Vecs) \in Nat /\ \A n \in DOMAIN Vecs : Vecs[n] = Vecs[i] => n = i
  BY ServiceAssumption
<1>4. Update(k, c)  BY DEF UpdateMetrics
<1>5. /\ handle \in [Scans -> BOOLEAN] /\ step \in [Scans -> Calls] /\ DOMAIN gauge = VecNames
      /\ \A w \in VecNames : gauge[w] \in [Range(Labels[w]) -> Scans \cup {Absent, Zero}]
  BY DEF Shape, TypeOK
<1>6. \A m \in Scans \ {k} : pc'[m] = pc[m] /\ step'[m] = step[m]
  BY DEF UpdateMetrics, Shape, TypeOK
<1>7. c.op # "paths" => pc'[k] = "metrics" /\ step'[k] = After(c)
  BY <1>1 DEF UpdateMetrics, Shape, TypeOK
<1>8. handle' \in [Scans -> BOOLEAN]  BY UpdateShape, Zenon DEF Shape, TypeOK
<1> DEFINE v == Vecs[c.vec]
           l == Labels[v][c.label]
<1>9. c.op # "paths" => v \in VecNames  BY <1>2 DEF VecNames, Range
<1>10. c.op \in {"with", "set"} => l \in Range(Labels[v])  BY <1>2, Zenon DEF Range
<1>11. Vecs[i] \in VecNames /\ Labels[Vecs[i]][j] \in Range(Labels[Vecs[i]])
  BY DEF VecNames, Range
<1>12. c.op = "paths" => ~Ahead(k, i, j)
  <2>1. c.op = "paths" => c.vec > i  BY <1>2, <1>3
  <2>2. c.vec \in Nat  BY <1>1, <1>3 DEF Calls
  <2> QED  BY <2>1, <2>2, <1>3 DEF Ahead, Before
<1>13. ASSUME c.op # "paths", Ahead(k, i, j), c.op = "set" => ~(c.vec = i /\ c.label = j),
              c.op = "with" => handle'[k]
       PROVE  Ahead(k, i, j)'
  <2>1. Before(c, handle[k], i, j)  BY <1>13 DEF Ahead
  <2>2. handle[k] \in BOOLEAN /\ handle'[k] \in BOOLEAN  BY <1>5, <1>8
  <2>3. Before(After(c), handle'[k], i, j)  BY <1>1, <1>13, <2>1, <2>2, AfterCall
  <2> QED  BY <2>3, <1>7, <1>13 DEF Ahead
<1> HIDE DEF c, v, l
<1>14. CASE c.op = "reset"
  <2>1. Reset(k, v)  BY <1>4, <1>14 DEF Update, v
  <2>2. c.vec = i => Ahead(k, i, j)'
    <3>1. handle'[k] \in BOOLEAN  BY <1>8
    <3>2. c.vec = i => Before(After(c), handle'[k], i, j)  BY <1>1, <1>14, <3>1, AfterCall DEF c
    <3> QED  BY <3>2, <1>7, <1>14 DEF Ahead
  <2>3. c.vec # i => v # Vecs[i]  BY <1>2, <1>3, <1>14 DEF v
  <2>4. c.vec # i => Series(i, j)' = Series(i, j)
    BY <2>1, <2>3, <1>5, <1>11 DEF Reset, Series
  <2>5. Ahead(k, i, j) => Ahead(k, i, j)'  BY <1>13, <1>14
  <2>6. ASSUME NEW m \in Scans \ {k}, Ahead(m, i, j), c.vec # i PROVE Ahead(m, i, j)'
    <3>1. handle[m] /\ step[m].vec = i => handle'[m]  BY <2>1, <2>3, <2>6, Zenon DEF Reset
    <3> QED  BY <3>1, <2>6, <1>6 DEF Ahead, Before
  <2> QED  BY <2>2, <2>4, <2>5, <2>6
<1>15. CASE c.op = "with"
  <2>1. With(k, v, l)  BY <1>4, <1>15 DEF Update, v, l
  <2>2. gauge' = [gauge EXCEPT ![v] = [gauge[v] EXCEPT ![l] = IF @ = Absent THEN Zero ELSE @]]
        /\ handle' = [handle EXCEPT ![k] = TRUE]
    BY <2>1 DEF With
  <2>3. handle'[k] /\ \A m \in Scans \ {k} : handle'[m] = handle[m]  BY <2>2, <1>5
  <2>4. Series(i, j)' = Series(i, j) \/ (Series(i, j)' = Zero /\ Series(i, j) = Absent)
    BY <2>2, <1>5, <1>9, <1>10, <1>11, <1>15 DEF Series
  <2>5. Ahead(k, i, j) => Ahead(k, i, j)'  BY <1>13, <1>15, <2>3
  <2>6. \A m \in Scans \ {k} : Ahead(m, i, j) => Ahead(m, i, j)'
    BY <2>3, <1>6 DEF Ahead, Before
  <2> QED  BY <2>4, <2>5, <2>6
<1>16. CASE c.op = "set"
  <2>1. Set(k, v, l)  BY <1>4, <1>16 DEF Update, v, l
  <2>2. gauge' = [gauge EXCEPT ![v] = [gauge[v] EXCEPT ![l] = IF handle[k] THEN k ELSE @]]
        /\ handle' = [handle EXCEPT ![k] = FALSE]
    BY <2>1 DEF Set
  <2>3. \A m \in Scans \ {k} : handle'[m] = handle[m]  BY <2>2, <1>5
  <2>4. Series(i, j)' = Series(i, j) \/ Series(i, j)' = k
    BY <2>2, <1>5, <1>9, <1>10, <1>11, <1>16 DEF Series
  <2>5. ASSUME c.vec = i, c.label = j, Ahead(k, i, j) PROVE Series(i, j)' = k
    <3>1. handle[k]  BY <2>5, <1>16, <1>3, ServiceAssumption DEF Ahead, Before, c
    <3>2. v = Vecs[i] /\ l = Labels[Vecs[i]][j]  BY <2>5 DEF v, l
    <3> QED  BY <2>2, <3>1, <3>2, <1>5, <1>11 DEF Series
  <2>6. Ahead(k, i, j) => Ahead(k, i, j)' \/ Series(i, j)' = k  BY <1>13, <1>16, <2>5
  <2>7. \A m \in Scans \ {k} : Ahead(m, i, j) => Ahead(m, i, j)'
    BY <2>3, <1>6 DEF Ahead, Before
  <2> QED  BY <2>4, <2>6, <2>7
<1>17. CASE c.op = "paths"
  <2>1. gauge' = gauge /\ handle' = handle  BY <1>4, <1>17 DEF Update
  <2>2. \A m \in Scans \ {k} : Ahead(m, i, j) => Ahead(m, i, j)'
    BY <2>1, <1>6 DEF Ahead, Before
  <2> QED  BY <2>1, <2>2, <1>12, <1>17 DEF Series
<1> QED  BY <1>2, <1>14, <1>15, <1>16, <1>17

\* One call of updateMetrics keeps every series covered.
LEMMA UpdateGauges ==
  ASSUME Shape, Covered, Alone, NEW k \in Scans, UpdateMetrics(k)
  PROVE  Covered' /\ Alone'
<1>1. /\ latest' = latest /\ overlap' = overlap /\ pc[k] = "metrics" /\ Update(k, step[k])
      /\ step[k] \in Calls
  BY DEF UpdateMetrics, Shape, TypeOK
<1>2. k # None /\ Absent \notin Scans  BY ServiceAssumption
<1>3. step[k].op # "paths" => pc'[k] = "metrics" /\ step'[k] = After(step[k])
  BY <1>1 DEF UpdateMetrics, Shape, TypeOK
<1>4. step[k].op = "paths" => paths' = k /\ pc'[k] = "append"
  BY <1>1 DEF UpdateMetrics, Update, Shape, TypeOK
<1>5. \A m \in Scans : pc'[m] = "metrics" => pc[m] = "metrics"
  BY DEF UpdateMetrics, Shape, TypeOK
<1>6. Covered'
  <2> SUFFICES ASSUME latest # None
               PROVE  /\ paths' # None \/ \E m \in Scans : pc'[m] = "metrics"
                      /\ \A i \in DOMAIN Vecs : \A j \in DOMAIN Labels[Vecs[i]] :
                           Series(i, j)' \in Scans \/ \E m \in Scans : Ahead(m, i, j)'
    BY <1>1 DEF Covered
  <2>1. paths' # None \/ \E m \in Scans : pc'[m] = "metrics"  BY <1>2, <1>3, <1>4
  <2>2. ASSUME NEW i \in DOMAIN Vecs, NEW j \in DOMAIN Labels[Vecs[i]]
        PROVE  Series(i, j)' \in Scans \/ \E m \in Scans : Ahead(m, i, j)'
    <3>1. Series(i, j) \in Scans \/ \E m \in Scans : Ahead(m, i, j)  BY DEF Covered
    <3>2. CASE Series(i, j) \in Scans  BY <3>2, <1>2, UpdateEffect
    <3>3. CASE \E m \in Scans : Ahead(m, i, j)
      <4>1. PICK m \in Scans : Ahead(m, i, j)  BY <3>3
      <4>2. CASE m = k  BY <4>1, <4>2, UpdateEffect
      <4>3. CASE m # k  BY <4>1, <4>3, UpdateEffect
      <4> QED  BY <4>2, <4>3
    <3> QED  BY <3>1, <3>2, <3>3
  <2> QED  BY <2>1, <2>2
<1>7. Alone'
  <2> SUFFICES ASSUME ~overlap
               PROVE  /\ \A m \in Scans : pc'[m] = "metrics" => m = latest
                      /\ \A m \in Scans : pc'[m] = "metrics" /\ step'[m].op = "set" => handle'[m]
                      /\ latest # None =>
                           /\ paths' = latest \/ pc'[latest] = "metrics"
                           /\ \A i \in DOMAIN Vecs : \A j \in DOMAIN Labels[Vecs[i]] :
                                Series(i, j)' = latest \/ Ahead(latest, i, j)'
    BY <1>1 DEF Alone
  <2>1. k = latest  BY <1>1 DEF Alone
  <2>2. \A m \in Scans : pc'[m] = "metrics" => m = k  BY <1>5, <2>1 DEF Alone
  <2>3. ASSUME pc'[k] = "metrics", step'[k].op = "set" PROVE handle'[k]
    <3>1. step[k].op # "paths"  BY <2>3, <1>4
    <3>2. step[k].op = "with"  BY <3>1, <2>3, <1>1, <1>3, AfterCall
    <3> QED  BY <3>2, <1>1, Zenon DEF Update, With, Shape, TypeOK
  <2>4. paths' = k \/ pc'[k] = "metrics"  BY <1>3, <1>4
  <2>5. ASSUME NEW i \in DOMAIN Vecs, NEW j \in DOMAIN Labels[Vecs[i]]
        PROVE  Series(i, j)' = k \/ Ahead(k, i, j)'
    <3>1. Series(i, j) = k \/ Ahead(k, i, j)  BY <2>1, <1>2 DEF Alone
    <3> QED  BY <3>1, <1>2, UpdateEffect
  <2>6. \A i, j : Ahead(latest, i, j)' <=> Ahead(k, i, j)'  BY <2>1, <1>1 DEF Ahead
  <2> QED  BY <2>1, <2>2, <2>3, <2>4, <2>5, <2>6
<1> QED  BY <1>6, <1>7

-----------------------------------------------------------------------------
(* The invariant.                                                           *)

LEMMA GaugeInvInit == Init => GaugeInv
<1> SUFFICES ASSUME Init PROVE GaugeInv  OBVIOUS
<1>1. latest = None /\ \A k \in Scans : pc[k] = "idle"  BY DEF Init
<1>2. Covered /\ Alone  BY <1>1 DEF Covered, Alone
<1> QED  BY <1>2, InitShape DEF GaugeInv

LEMMA GaugeInvNext == GaugeInv /\ [Next]_vars => GaugeInv'
<1> SUFFICES ASSUME GaugeInv, [Next]_vars PROVE GaugeInv'  OBVIOUS
<1>0. Shape /\ Covered /\ Alone  BY DEF GaugeInv
<1> USE <1>0
<1>1. CASE Serve
  <2>1. Shape'  BY <1>1, Zenon DEF Serve, Shape, TypeOK
  <2> QED  BY <1>1, <2>1, AsideGauges DEF Serve, GaugeInv
<1>2. CASE Stop  BY <1>2, StopShape, StopGauges DEF GaugeInv
<1>3. CASE Snapshot \/ RenderPage \/ ClosePage
  <2>1. page'.at \in {"idle", "snapshot", "sent"} /\ page'.known \subseteq Scans
        /\ DOMAIN page' = {"at", "rep", "trend", "known"}
    <3>1. CASE Snapshot
      <4>1. Range(acked) \subseteq Scans  BY DEF Shape, TypeOK, Range
      <4> QED  BY <3>1, <4>1 DEF Snapshot
    <3>2. CASE RenderPage  BY <3>2 DEF RenderPage, Shape, TypeOK
    <3>3. CASE ClosePage  BY <3>3 DEF ClosePage, NoPage
    <3> QED  BY <1>3, <3>1, <3>2, <3>3
  <2>2. UNCHANGED <<phase, pc, step, handle, latest, gauge, paths, file, acked, stops, overlap>>
    BY <1>3 DEF Snapshot, RenderPage, ClosePage
  <2>3. Shape'  BY <2>1, <2>2, Zenon DEF Shape, TypeOK
  <2> QED  BY <2>2, <2>3, AsideGauges DEF GaugeInv
<1>4. ASSUME NEW k \in Scans, Boot(k) \/ Trigger(k) \/ ScanFails(k) \/ Analyzed(k)
      PROVE  GaugeInv'
  <2>1. PICK to \in {"load", "analyzed", "failed"} : pc' = [pc EXCEPT ![k] = to]
    BY <1>4 DEF Boot, Trigger, ScanFails, Analyzed
  <2>2. /\ pc[k] # "metrics" /\ phase' \in {"down", "boot", "serving"}
        /\ UNCHANGED <<step, handle, latest, gauge, paths, file, acked, stops, overlap, page>>
    BY <1>4 DEF Boot, Trigger, ScanFails, Analyzed, Shape, TypeOK
  <2>3. Shape'
    <3>1. /\ latest' \in Scans \cup {None} /\ overlap' \in BOOLEAN /\ acked' \in Seq(Scans)
          /\ file' \in Seq(Seq(Piece)) /\ file' # <<>>
      BY <2>2 DEF Shape, TypeOK
    <3> QED  BY <2>1, <2>2, <3>1, MoveShape, Zenon
  <2>4. \A j \in Scans : pc'[j] = "metrics" <=> pc[j] = "metrics"
    BY <2>1, <2>2 DEF Shape, TypeOK
  <2> QED  BY <2>2, <2>3, <2>4, AsideGauges DEF GaugeInv
<1>5. ASSUME NEW k \in Scans, CacheLatest(k) PROVE GaugeInv'
  <2>1. /\ pc' = [pc EXCEPT ![k] = "metrics"] /\ pc[k] # "metrics" /\ latest' = k
        /\ overlap' \in BOOLEAN
        /\ UNCHANGED <<phase, step, handle, gauge, paths, file, acked, stops, page>>
    BY <1>5 DEF CacheLatest, Shape, TypeOK
  <2>2. /\ phase' \in {"down", "boot", "serving"} /\ acked' \in Seq(Scans)
        /\ file' \in Seq(Seq(Piece)) /\ file' # <<>>
    BY <2>1 DEF Shape, TypeOK
  <2>3. Shape'  BY <2>1, <2>2, MoveShape, Zenon
  <2> QED  BY <1>5, <2>3, CacheGauges DEF GaugeInv
<1>6. ASSUME NEW k \in Scans, UpdateMetrics(k) PROVE GaugeInv'
  BY <1>6, UpdateShape, UpdateGauges DEF GaugeInv
<1>7. ASSUME NEW k \in Scans, AppendHistory(k) PROVE GaugeInv'
  <2>1. PICK how \in Writes(Backend) :
          /\ file' = Written(file, k, how)
          /\ acked' = IF how = "full" THEN Append(acked, k) ELSE acked
    BY <1>7 DEF AppendHistory
  <2>2. /\ pc' = [pc EXCEPT ![k] = "done"] /\ pc[k] # "metrics"
        /\ UNCHANGED <<phase, step, handle, latest, gauge, paths, stops, overlap, page>>
    BY <1>7 DEF AppendHistory
  <2>3. file' \in Seq(Seq(Piece)) /\ file' # <<>>
    BY <2>1, WrittenType DEF Shape
  <2>4. acked' \in Seq(Scans)  BY <2>1 DEF Shape, TypeOK
  <2>5. /\ phase' \in {"down", "boot", "serving"} /\ latest' \in Scans \cup {None}
        /\ overlap' \in BOOLEAN
    BY <2>2 DEF Shape, TypeOK
  <2>6. Shape'  BY <2>2, <2>3, <2>4, <2>5, MoveShape, Zenon
  <2>7. \A j \in Scans : pc'[j] = "metrics" <=> pc[j] = "metrics"
    BY <2>2 DEF Shape, TypeOK
  <2> QED  BY <2>2, <2>6, <2>7, AsideGauges DEF GaugeInv
<1>8. CASE UNCHANGED vars
  <2>1. Shape'  BY <1>8, Zenon DEF vars, Shape, TypeOK
  <2> QED  BY <1>8, <2>1, AsideGauges DEF vars, GaugeInv
<1> QED
  BY <1>1, <1>2, <1>3, <1>4, <1>5, <1>6, <1>7, <1>8 DEF Next, ScanOnce, Terminated

\* At rest no call is ahead of anything.
LEMMA GaugeInvHolds == GaugeInv => GaugesHold
<1> SUFFICES ASSUME GaugeInv PROVE GaugesHold  OBVIOUS
<1>1. TypeOK  BY DEF GaugeInv, Shape
<1>2. Quiet => latest \in Scans /\ \A k \in Scans : pc[k] # "metrics"
  BY <1>1 DEF Quiet, Active, TypeOK
<1>3. ASSUME NEW v \in VecNames, NEW l \in Range(Labels[v])
      PROVE  \E i \in DOMAIN Vecs : \E j \in DOMAIN Labels[Vecs[i]] : gauge[v][l] = Series(i, j)
  BY DEF VecNames, Range, Series
<1>4. SeriesComplete
  <2>1. Quiet => paths # None  BY <1>2 DEF GaugeInv, Covered, Quiet
  <2>2. Quiet => \A i \in DOMAIN Vecs : \A j \in DOMAIN Labels[Vecs[i]] : Series(i, j) \in Scans
    BY <1>2 DEF GaugeInv, Covered, Quiet, Ahead
  <2> QED  BY <2>1, <2>2, <1>3 DEF SeriesComplete
<1>5. SequentialGauges
  <2>1. Quiet /\ ~overlap => paths = latest  BY <1>2 DEF GaugeInv, Alone, Quiet
  <2>2. Quiet /\ ~overlap =>
          \A i \in DOMAIN Vecs : \A j \in DOMAIN Labels[Vecs[i]] : Series(i, j) = latest
    BY <1>2 DEF GaugeInv, Alone, Quiet, Ahead
  <2> QED  BY <2>1, <2>2, <1>3 DEF SequentialGauges
<1> QED  BY <1>1, <1>4, <1>5 DEF GaugesHold

\* However many scans update the metrics at once (server.go:122), at rest no series
\* is missing or left at zero, and without overlapping updates every gauge is that
\* of the cached report.
THEOREM GaugesTellScans == Spec => []GaugesHold
<1>1. Init => GaugeInv  BY GaugeInvInit
<1>2. GaugeInv /\ [Next]_vars => GaugeInv'  BY GaugeInvNext
<1>3. GaugeInv => GaugesHold  BY GaugeInvHolds
<1> QED  BY <1>1, <1>2, <1>3, PTL DEF Spec
=============================================================================
