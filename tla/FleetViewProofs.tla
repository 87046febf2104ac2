--------------------------- MODULE FleetViewProofs ---------------------------
(***************************************************************************)
(* Proofs about FleetView, for any number of clusters, scans, requests and *)
(* breaches: the reports the store holds are never altered by the views    *)
(* merged from them, and what an answer made of shared arrays still        *)
(* promises while other requests append to the same arrays.                *)
(***************************************************************************)
EXTENDS FleetView, NaturalsInduction, WellFoundedInduction, TLAPS

-----------------------------------------------------------------------------
(* Induction, from the least element of a set of numbers.                   *)

\* A set of natural numbers has a least element.
LEMMA LeastElement ==
  ASSUME NEW T \in SUBSET Nat, T # {}
  PROVE  \E x \in T : \A y \in T : x <= y
<1>0. OpToRel(<, Nat) = {ss \in Nat \X Nat : ss[1] < ss[2]}
  BY DEF OpToRel
<1>1. PICK x \in T : \A y \in T : ~(<<y, x>> \in {ss \in Nat \X Nat : ss[1] < ss[2]})
  BY <1>0, NatLessThanWellFounded, WFMin, Zenon
<1>2. \A y \in T : x <= y
  <2> SUFFICES ASSUME NEW y \in T, ~(x <= y) PROVE FALSE
    OBVIOUS
  <2>1. x \in Nat /\ y \in Nat  OBVIOUS
  <2>2. y < x  BY <2>1
  <2>3. <<y, x>> \in {ss \in Nat \X Nat : ss[1] < ss[2]}
    BY <2>1, <2>2
  <2> QED BY <1>1, <2>3, Zenon
<1> QED BY <1>2

\* A set with 0 that has n + 1 whenever it has n holds all of them.
LEMMA SetInduction ==
  ASSUME NEW S, 0 \in S, \A n \in Nat : n \in S => (n + 1) \in S
  PROVE  Nat \subseteq S
<1> SUFFICES ASSUME NEW m \in Nat, m \notin S PROVE FALSE
  OBVIOUS
<1> DEFINE T == {n \in Nat : n \notin S}
<1>1. PICK x \in T : \A y \in T : x <= y
  <2>1. T \in SUBSET Nat /\ T # {} OBVIOUS
  <2> HIDE DEF T
  <2> QED BY <2>1, LeastElement, Zenon
<1>2. x \in Nat /\ x \notin S /\ x # 0 /\ (x - 1) \in Nat  BY <1>1
<1>3. (x - 1) \notin S  BY <1>2
<1>4. (x - 1) \in T BY <1>2, <1>3
<1> QED BY <1>1, <1>2, <1>4

-----------------------------------------------------------------------------
(* The inductive invariant.                                                 *)

\* The breaches of scan k under the sizes sz, and those of the first n scans of rs.
Breaches(sz, k) == [j \in 1..(sz[k] * Words) |-> WordOf(k, j)]
Chain(sz, rs, n, f) ==
  f = [m \in 0..n |-> IF m = 0 THEN <<>> ELSE f[m - 1] \o Breaches(sz, rs[m])]
Joined(sz, rs, n) == (CHOOSE f : Chain(sz, rs, n, f))[n]

\* How many of the request's reports are merged.
Merged(r) == IF pc[r] \in {"merge", "grow"} THEN at[r] - 1 ELSE Len(reps[r])
SoFar(r)  == Joined(size, reps[r], Merged(r))

\* Everything a request refers to is recorded; an idle one has nothing left of the
\* last answer.
Recorded ==
  /\ \A c \in Clusters : latest[c] \in recorded \cup {NoScan}
  /\ \A r \in Readers : reps[r] \in Seq(recorded)

Idle(r) ==
  pc[r] = "idle" =>
    reps[r] = <<>> /\ at[r] = 1 /\ slice[r] = NoSlice /\ own[r] = <<>> /\ from[r] = 1 /\ out[r] = <<>>

\* The header of a request on a shared array: the array of its first report, past
\* that report's breaches, inside the array; nothing of its own but what it copies
\* while it grows.
Header(r) ==
  slice[r].arr # NoScan =>
    /\ reps[r] # <<>> /\ slice[r].arr = reps[r][1]
    /\ Extent(slice[r].arr) <= slice[r].len /\ slice[r].len <= Room(slice[r].arr)
    /\ Merged(r) >= 1 /\ slice[r].len = Len(SoFar(r))
    /\ pc[r] \in {"merge", "encode"} => own[r] = <<>>
    /\ Len(own[r]) <= slice[r].len
    /\ Len(out[r]) <= slice[r].len

\* A request with an array of its own has merged that much into it.
Private(r) ==
  slice[r].arr = NoScan =>
    /\ pc[r] # "grow" /\ slice[r].len = 0
    /\ Len(own[r]) = Len(SoFar(r))
    /\ Merged(r) >= 1 => Extent(reps[r][1]) <= Len(own[r])
    /\ pc[r] # "sent" => out[r] = <<>>

Position(r) ==
  /\ at[r] >= 1 /\ from[r] >= 1
  /\ at[r] <= Len(reps[r]) + 1
  /\ pc[r] \in {"merge", "grow"} => out[r] = <<>>
  /\ pc[r] = "merge" /\ at[r] = 1 => slice[r].arr = NoScan
  /\ pc[r] = "grow" => at[r] > 1 /\ at[r] <= Len(reps[r])
  /\ from[r] > 1 =>
       /\ pc[r] = "merge" /\ at[r] > 1 /\ at[r] <= Len(reps[r]) /\ Fits(r)
       /\ from[r] <= Extent(Current(r)) + 1
  /\ pc[r] = "sent" => Len(out[r]) = Len(SoFar(r))

\* What a request has copied of its first report's breaches is those breaches.
FirstKept(r) ==
  reps[r] # <<>> =>
    /\ \A i \in 1..Len(own[r]) : i <= Extent(reps[r][1]) => own[r][i] = WordOf(reps[r][1], i)
    /\ \A i \in 1..Len(out[r]) : i <= Extent(reps[r][1]) => out[r][i] = WordOf(reps[r][1], i)
    /\ pc[r] = "sent" => Extent(reps[r][1]) <= Len(out[r])

\* Nobody else is in flight beside a request that is alone, so all of the words it
\* has merged are those of its reports.
AloneKept(r) ==
  alone[r] /\ pc[r] # "idle" =>
    /\ \A x \in Readers \ {r} : pc[x] = "idle"
    /\ slice[r].arr # NoScan =>
         \A i \in 1..slice[r].len : mem[slice[r].arr][i] = SoFar(r)[i]
    /\ \A i \in 1..(from[r] - 1) :
         mem[slice[r].arr][slice[r].len + i] = WordOf(Current(r), i)
    /\ \A i \in 1..Len(own[r]) : own[r][i] = SoFar(r)[i]
    /\ \A i \in 1..Len(out[r]) : out[r][i] = SoFar(r)[i]

Shape == \A r \in Readers : Idle(r) /\ Header(r) /\ Private(r) /\ Position(r)
Words1 == \A r \in Readers : FirstKept(r)
WordsAlone == \A r \in Readers : AloneKept(r)

FleetInv == TypeOK /\ StoredIntact /\ Recorded /\ Shape /\ Words1 /\ WordsAlone

-----------------------------------------------------------------------------
(* Sizes, and the breaches of a list of reports.                            *)

\* More elements take more words.
LEMMA Scaled ==
  ASSUME NEW a \in Nat, NEW b \in Nat, a <= b, NEW w \in Nat
  PROVE  a * w \in Nat /\ b * w \in Nat /\ a * w <= b * w /\ w * b = b * w
OBVIOUS

\* A stored report fits its array.
LEMMA Sizes ==
  ASSUME NEW sz \in [Scans -> 0..MaxBreaches], NEW k \in Scans
  PROVE  /\ sz[k] * Words \in Nat /\ Cap[sz[k]] * Words \in Nat
         /\ sz[k] * Words <= Cap[sz[k]] * Words
<1>1. sz[k] \in Nat /\ Cap[sz[k]] \in Nat /\ Words \in Nat /\ sz[k] <= Cap[sz[k]]
  BY FleetAssumption
<1> QED BY <1>1, Scaled

\* The loop that joins the breaches: there is a function for it, any two agree, and
\* what it holds are sequences of words.
LEMMA ChainExists ==
  ASSUME NEW sz, NEW rs, NEW n \in Nat
  PROVE  \E f : Chain(sz, rs, n, f)
<1> DEFINE S == {m \in Nat : \E f : Chain(sz, rs, m, f)}
<1>1. 0 \in S
  <2>1. Chain(sz, rs, 0, [m \in 0..0 |-> <<>>])  BY DEF Chain
  <2> QED BY <2>1
<1>2. ASSUME NEW m \in Nat, m \in S PROVE (m + 1) \in S
  <2>1. PICK f : Chain(sz, rs, m, f)  BY <1>2
  <2> DEFINE g == [i \in 0..(m + 1) |-> IF i = m + 1 THEN f[m] \o Breaches(sz, rs[i]) ELSE f[i]]
             h == [i \in 0..(m + 1) |-> IF i = 0 THEN <<>> ELSE g[i - 1] \o Breaches(sz, rs[i])]
  <2>2. ASSUME NEW i \in 0..(m + 1) PROVE g[i] = h[i]
    <3>1. CASE i = m + 1
      <4>1. i # 0 /\ i - 1 = m /\ m \in 0..(m + 1) /\ m # m + 1  BY <3>1
      <4>2. g[m] = f[m] /\ g[i] = f[m] \o Breaches(sz, rs[i])  BY <3>1, <4>1, Zenon
      <4> QED BY <4>1, <4>2, Zenon
    <3>2. CASE i # m + 1
      <4>1. i \in 0..m  BY <3>2
      <4>2. f[i] = IF i = 0 THEN <<>> ELSE f[i - 1] \o Breaches(sz, rs[i])
        BY <2>1, <4>1 DEF Chain
      <4>3. g[i] = f[i]  BY <3>2
      <4>4. i # 0 => g[i - 1] = f[i - 1]  BY <4>1
      <4> QED BY <4>2, <4>3, <4>4
    <3> QED BY <3>1, <3>2
  <2>3. g = h
    <3> g = [i \in 0..(m + 1) |-> g[i]] /\ h = [i \in 0..(m + 1) |-> h[i]]  OBVIOUS
    <3> HIDE DEF g, h
    <3> QED BY <2>2
  <2>4. Chain(sz, rs, m + 1, g)
    <3> HIDE DEF g
    <3> QED BY <2>3, Zenon DEF Chain
  <2>5. \E q : Chain(sz, rs, m + 1, q)
    <3> HIDE DEF g
    <3> QED BY <2>4
  <2> QED BY <2>5
<1>3. Nat \subseteq S
  <2> HIDE DEF S
  <2> QED BY <1>1, <1>2, SetInduction
<1> QED BY <1>3

\* Each link adds the breaches of the next report.
Links(sz, rs, n, f) ==
  \A i \in Nat : i < n => f[i + 1] = f[i] \o Breaches(sz, rs[i + 1])

LEMMA ChainNext ==
  ASSUME NEW sz, NEW rs, NEW n \in Nat, NEW f, Chain(sz, rs, n, f)
  PROVE  Links(sz, rs, n, f)
<1> SUFFICES ASSUME NEW i \in Nat, i < n PROVE f[i + 1] = f[i] \o Breaches(sz, rs[i + 1])
  BY Zenon DEF Links
<1>1. \A m \in 0..n : f[m] = IF m = 0 THEN <<>> ELSE f[m - 1] \o Breaches(sz, rs[m])
  BY Zenon DEF Chain
<1>2. (i + 1) \in 0..n /\ i + 1 # 0 /\ (i + 1) - 1 = i  OBVIOUS
<1>3. f[i + 1] = f[(i + 1) - 1] \o Breaches(sz, rs[i + 1])  BY <1>1, <1>2, Zenon
<1> QED BY <1>2, <1>3, Zenon

LEMMA ChainZero ==
  ASSUME NEW sz, NEW rs, NEW n \in Nat, NEW f, Chain(sz, rs, n, f)
  PROVE  f[0] = <<>>
BY DEF Chain

Agree(m, f, g) == \A i \in 0..m : f[i] = g[i]

LEMMA ChainUnique ==
  ASSUME NEW sz, NEW rs, NEW m \in Nat, NEW n \in Nat, m <= n,
         NEW f, Chain(sz, rs, m, f), NEW g, Chain(sz, rs, n, g)
  PROVE  Agree(m, f, g)
<1> DEFINE S == {i \in Nat : i <= m => f[i] = g[i]}
<1>1. 0 \in S
  <2>1. f[0] = <<>> /\ g[0] = <<>>  BY ChainZero, Zenon
  <2> QED BY <2>1
<1>2. ASSUME NEW i \in Nat, i \in S PROVE (i + 1) \in S
  <2> SUFFICES ASSUME i + 1 <= m PROVE f[i + 1] = g[i + 1]
    OBVIOUS
  <2>1. i < m /\ i < n /\ f[i] = g[i]  BY <1>2
  <2>2. Links(sz, rs, m, f) /\ Links(sz, rs, n, g)  BY ChainNext, Zenon
  <2> QED BY <2>1, <2>2, Zenon DEF Links
<1>3. Nat \subseteq S
  <2> HIDE DEF S
  <2> QED BY <1>1, <1>2, SetInduction
<1> QED BY <1>3 DEF Agree

LEMMA BreachesType ==
  ASSUME NEW sz \in [Scans -> 0..MaxBreaches], NEW k \in Scans
  PROVE  Breaches(sz, k) \in Seq(Word)
<1>1. PICK e \in Nat : e = sz[k] * Words  BY Sizes
<1>2. \A j \in 1..e : WordOf(k, j) \in Word  BY DEF WordOf, Word
<1>3. Breaches(sz, k) = [j \in 1..e |-> WordOf(k, j)]  BY <1>1 DEF Breaches
<1>4. Breaches(sz, k) \in [1..e -> Word]  BY <1>2, <1>3
<1> QED BY <1>4

LEMMA ChainType ==
  ASSUME NEW sz \in [Scans -> 0..MaxBreaches], NEW rs \in Seq(Scans),
         NEW n \in Nat, n <= Len(rs), NEW f, Chain(sz, rs, n, f)
  PROVE  \A i \in 0..n : f[i] \in Seq(Word)
<1> DEFINE S == {i \in Nat : i <= n => f[i] \in Seq(Word)}
<1>1. 0 \in S
  <2>1. f[0] = <<>>  BY ChainZero, Zenon
  <2>2. f[0] \in Seq(Word)  BY <2>1
  <2> QED BY <2>2
<1>2. ASSUME NEW i \in Nat, i \in S PROVE (i + 1) \in S
  <2> SUFFICES ASSUME i + 1 <= n PROVE f[i + 1] \in Seq(Word)
    OBVIOUS
  <2>1. i < n /\ f[i] \in Seq(Word) /\ rs[i + 1] \in Scans  BY <1>2
  <2>2. f[i + 1] = f[i] \o Breaches(sz, rs[i + 1])
    <3>1. Links(sz, rs, n, f)  BY ChainNext, Zenon
    <3> QED BY <2>1, <3>1, Zenon DEF Links
  <2>3. Breaches(sz, rs[i + 1]) \in Seq(Word)  BY <2>1, BreachesType, Zenon
  <2>4. f[i] \o Breaches(sz, rs[i + 1]) \in Seq(Word)  BY <2>1, <2>3
  <2> QED BY <2>1, <2>2, <2>4, Zenon
<1>3. Nat \subseteq S
  <2> HIDE DEF S
  <2> QED BY <1>1, <1>2, SetInduction, Zenon
<1> QED BY <1>3

\* What the joined breaches are: nothing at first, and each report adds its own behind
\* those of the reports before it.
LEMMA JoinedChain ==
  ASSUME NEW sz, NEW rs, NEW n \in Nat
  PROVE  \E f : Chain(sz, rs, n, f) /\ Joined(sz, rs, n) = f[n]
<1>1. \E f : Chain(sz, rs, n, f)  BY ChainExists, Zenon
<1> QED BY <1>1, Zenon DEF Joined

LEMMA JoinedZero ==
  ASSUME NEW sz, NEW rs
  PROVE  Joined(sz, rs, 0) = <<>>
<1>1. PICK f : Chain(sz, rs, 0, f) /\ Joined(sz, rs, 0) = f[0]  BY JoinedChain
<1> QED BY <1>1, ChainZero

LEMMA JoinedNext ==
  ASSUME NEW sz \in [Scans -> 0..MaxBreaches], NEW rs \in Seq(Scans),
         NEW n \in Nat, n < Len(rs)
  PROVE  /\ Joined(sz, rs, n) \in Seq(Word)
         /\ Breaches(sz, rs[n + 1]) \in Seq(Word)
         /\ Joined(sz, rs, n + 1) = Joined(sz, rs, n) \o Breaches(sz, rs[n + 1])
<1>1. PICK m \in Nat : m = n + 1  OBVIOUS
<1>2. PICK f : Chain(sz, rs, n, f) /\ Joined(sz, rs, n) = f[n]  BY JoinedChain, Zenon
<1>3. PICK g : Chain(sz, rs, m, g) /\ Joined(sz, rs, m) = g[m]  BY JoinedChain, Zenon
<1>4. n < m /\ n <= m /\ n \in 0..n /\ n <= Len(rs) /\ rs[n + 1] \in Scans  BY <1>1
<1>5. f[n] = g[n]
  <2>1. Agree(n, f, g)  BY <1>2, <1>3, <1>4, ChainUnique, Zenon
  <2> QED BY <1>4, <2>1, Zenon DEF Agree
<1>6. g[n + 1] = g[n] \o Breaches(sz, rs[n + 1])
  <2>1. Links(sz, rs, m, g)  BY <1>3, ChainNext, Zenon
  <2> QED BY <1>4, <2>1, Zenon DEF Links
<1>7. f[n] \in Seq(Word)  BY <1>2, <1>4, ChainType, Zenon
<1>8. Breaches(sz, rs[n + 1]) \in Seq(Word)  BY <1>4, BreachesType
<1> QED BY <1>1, <1>2, <1>3, <1>5, <1>6, <1>7, <1>8, Zenon

LEMMA JoinedAt ==
  ASSUME NEW sz \in [Scans -> 0..MaxBreaches], NEW rs \in Seq(Scans),
         NEW n \in Nat, n < Len(rs)
  PROVE  /\ Joined(sz, rs, n) \in Seq(Word) /\ Joined(sz, rs, n + 1) \in Seq(Word)
         /\ Len(Joined(sz, rs, n + 1)) = Len(Joined(sz, rs, n)) + sz[rs[n + 1]] * Words
         /\ \A i \in 1..Len(Joined(sz, rs, n)) : Joined(sz, rs, n + 1)[i] = Joined(sz, rs, n)[i]
         /\ \A i \in 1..(sz[rs[n + 1]] * Words) :
              Joined(sz, rs, n + 1)[Len(Joined(sz, rs, n)) + i] = WordOf(rs[n + 1], i)
<1>1. rs[n + 1] \in Scans  OBVIOUS
<1>2. PICK e \in Nat : e = sz[rs[n + 1]] * Words  BY <1>1, Sizes
<1>3. PICK k : k = rs[n + 1]  OBVIOUS
<1>4. Breaches(sz, rs[n + 1]) = [j \in 1..e |-> WordOf(k, j)]  BY <1>2, <1>3 DEF Breaches
<1>5. PICK J, K, B : J = Joined(sz, rs, n) /\ K = Joined(sz, rs, n + 1) /\ B = Breaches(sz, rs[n + 1])
  OBVIOUS
<1>6. J \in Seq(Word) /\ B \in Seq(Word) /\ K = J \o B  BY <1>5, JoinedNext, Zenon
<1>7. B = [j \in 1..e |-> WordOf(k, j)]  BY <1>4, <1>5
<1>8. /\ K \in Seq(Word) /\ Len(K) = Len(J) + e
      /\ \A i \in 1..Len(J) : K[i] = J[i]
      /\ \A i \in 1..e : K[Len(J) + i] = WordOf(k, i)
  <2>1. Len(B) = e  BY <1>6, <1>7
  <2>2. K \in Seq(Word) /\ Len(K) = Len(J) + e
    <3>1. J \o B \in Seq(Word) /\ Len(J \o B) = Len(J) + Len(B)  BY <1>6
    <3> QED BY <1>6, <2>1, <3>1, Zenon
  <2>3. \A i \in 1..Len(J) : K[i] = J[i]  BY <1>6
  <2>4. \A i \in 1..e : K[Len(J) + i] = B[i]  BY <1>6, <2>1
  <2>5. \A i \in 1..e : B[i] = WordOf(k, i)  BY <1>7
  <2> QED BY <2>2, <2>3, <2>4, <2>5, Zenon
<1> QED BY <1>2, <1>3, <1>5, <1>6, <1>8

LEMMA JoinedType ==
  ASSUME NEW sz \in [Scans -> 0..MaxBreaches], NEW rs \in Seq(Scans),
         NEW n \in Nat, n <= Len(rs)
  PROVE  Joined(sz, rs, n) \in Seq(Word)
<1>1. CASE n = 0
  <2>1. <<>> \in Seq(Word)  OBVIOUS
  <2>2. Joined(sz, rs, 0) = <<>>  BY JoinedZero, Zenon
  <2> QED BY <1>1, <2>1, <2>2, Zenon
<1>2. CASE n # 0
  <2>1. PICK m \in Nat : m + 1 = n /\ m < Len(rs)
    <3>1. n - 1 \in Nat /\ (n - 1) + 1 = n /\ n - 1 < Len(rs)  BY <1>2
    <3> QED BY <3>1
  <2>2. Joined(sz, rs, m + 1) \in Seq(Word)  BY <2>1, JoinedAt, Zenon
  <2> QED BY <2>1, <2>2
<1> QED BY <1>1, <1>2

LEMMA JoinedFirst ==
  ASSUME NEW sz \in [Scans -> 0..MaxBreaches], NEW rs \in Seq(Scans), rs # <<>>
  PROVE  /\ Joined(sz, rs, 1) \in Seq(Word) /\ Len(Joined(sz, rs, 1)) = sz[rs[1]] * Words
         /\ \A i \in 1..(sz[rs[1]] * Words) : Joined(sz, rs, 1)[i] = WordOf(rs[1], i)
<1>1. 0 \in Nat /\ 0 < Len(rs) /\ 0 + 1 = 1 /\ rs[1] \in Scans  OBVIOUS
<1>2. PICK e \in Nat : e = sz[rs[1]] * Words  BY <1>1, Sizes
<1>3. Joined(sz, rs, 0) = <<>>  BY JoinedZero
<1>4. /\ Joined(sz, rs, 1) \in Seq(Word)
      /\ Len(Joined(sz, rs, 1)) = Len(Joined(sz, rs, 0)) + sz[rs[1]] * Words
      /\ \A i \in 1..(sz[rs[1]] * Words) :
           Joined(sz, rs, 1)[Len(Joined(sz, rs, 0)) + i] = WordOf(rs[1], i)
  BY <1>1, JoinedAt
<1> QED BY <1>2, <1>3, <1>4

\* The breaches of recorded scans do not change when another scan is recorded.
LEMMA JoinedSame ==
  ASSUME NEW sz, NEW sy, NEW S, NEW rs \in Seq(S), \A k \in S : sz[k] = sy[k],
         NEW n \in Nat, n <= Len(rs)
  PROVE  Joined(sz, rs, n) = Joined(sy, rs, n)
<1>1. \A i \in 1..n : rs[i] \in S  OBVIOUS
<1>2. \A i \in 1..n : Breaches(sz, rs[i]) = Breaches(sy, rs[i])  BY <1>1 DEF Breaches
<1>3. ASSUME NEW f
      PROVE  [m \in 0..n |-> IF m = 0 THEN <<>> ELSE f[m - 1] \o Breaches(sz, rs[m])]
             = [m \in 0..n |-> IF m = 0 THEN <<>> ELSE f[m - 1] \o Breaches(sy, rs[m])]
  BY <1>2
<1> QED BY <1>3, Zenon DEF Joined, Chain

LEMMA BreachesJoined ==
  ASSUME NEW rs \in Seq(Scans)
  PROVE  BreachesOf(rs) = Joined(size, rs, Len(rs))
BY Zenon DEF BreachesOf, Joined, Chain, Breaches, Extent

\* The loop that collects the latest reports, over any list ls of scans or NoScan.
Collects(ls, n, f) ==
  f = [m \in 0..n |-> IF m = 0 THEN <<>>
                      ELSE IF ls[m] = NoScan THEN f[m - 1] ELSE Append(f[m - 1], ls[m])]

LEMMA CollectsExists ==
  ASSUME NEW ls, NEW n \in Nat
  PROVE  \E f : Collects(ls, n, f)
<1> DEFINE S == {m \in Nat : \E f : Collects(ls, m, f)}
<1>1. 0 \in S
  <2>1. Collects(ls, 0, [m \in 0..0 |-> <<>>])  BY DEF Collects
  <2> QED BY <2>1
<1>2. ASSUME NEW m \in Nat, m \in S PROVE (m + 1) \in S
  <2>1. PICK f : Collects(ls, m, f)  BY <1>2
  <2> DEFINE e == IF ls[m + 1] = NoScan THEN f[m] ELSE Append(f[m], ls[m + 1])
             g == [i \in 0..(m + 1) |-> IF i = m + 1 THEN e ELSE f[i]]
             h == [i \in 0..(m + 1) |-> IF i = 0 THEN <<>>
                     ELSE IF ls[i] = NoScan THEN g[i - 1] ELSE Append(g[i - 1], ls[i])]
  <2>2. ASSUME NEW i \in 0..(m + 1) PROVE g[i] = h[i]
    <3>1. CASE i = m + 1
      <4>1. i # 0 /\ i - 1 = m /\ m \in 0..(m + 1) /\ m # m + 1  BY <3>1
      <4>2. g[m] = f[m] /\ g[i] = e  BY <3>1, <4>1
      <4> QED BY <3>1, <4>1, <4>2
    <3>2. CASE i # m + 1
      <4>1. i \in 0..m  BY <3>2
      <4>2. f[i] = IF i = 0 THEN <<>> ELSE IF ls[i] = NoScan THEN f[i - 1] ELSE Append(f[i - 1], ls[i])
        BY <2>1, <4>1, Zenon DEF Collects
      <4>3. g[i] = f[i]  BY <3>2
      <4>4. i # 0 => g[i - 1] = f[i - 1]  BY <4>1
      <4> QED BY <4>2, <4>3, <4>4
    <3> QED BY <3>1, <3>2
  <2>3. g = h
    <3> g = [i \in 0..(m + 1) |-> g[i]] /\ h = [i \in 0..(m + 1) |-> h[i]]  OBVIOUS
    <3> HIDE DEF g, h
    <3> QED BY <2>2
  <2>4. Collects(ls, m + 1, g)
    <3> HIDE DEF g
    <3> QED BY <2>3, Zenon DEF Collects
  <2>5. \E q : Collects(ls, m + 1, q)
    <3> HIDE DEF g
    <3> QED BY <2>4
  <2> QED BY <2>5
<1>3. Nat \subseteq S
  <2> HIDE DEF S
  <2> QED BY <1>1, <1>2, SetInduction
<1> QED BY <1>3

LEMMA CollectsType ==
  ASSUME NEW T, NEW n \in Nat, NEW ls, \A i \in 1..n : ls[i] \in T \cup {NoScan},
         NEW f, Collects(ls, n, f)
  PROVE  \A i \in 0..n : f[i] \in Seq(T)
<1> DEFINE S == {i \in Nat : i <= n => f[i] \in Seq(T)}
<1>1. 0 \in S
  <2>1. f[0] = <<>>  BY DEF Collects
  <2>2. f[0] \in Seq(T)  BY <2>1
  <2> QED BY <2>2
<1>2. ASSUME NEW i \in Nat, i \in S PROVE (i + 1) \in S
  <2> SUFFICES ASSUME i + 1 <= n PROVE f[i + 1] \in Seq(T)
    OBVIOUS
  <2>1. (i + 1) \in 0..n /\ (i + 1) # 0 /\ (i + 1) - 1 = i /\ (i + 1) \in 1..n  OBVIOUS
  <2>2. f[i + 1] = IF ls[i + 1] = NoScan THEN f[(i + 1) - 1] ELSE Append(f[(i + 1) - 1], ls[i + 1])
    BY <2>1, Zenon DEF Collects
  <2>3. f[i] \in Seq(T)  BY <1>2
  <2>4. ls[i + 1] # NoScan => ls[i + 1] \in T  BY <2>1
  <2>5. ls[i + 1] # NoScan => Append(f[i], ls[i + 1]) \in Seq(T)  BY <2>3, <2>4
  <2> QED BY <2>1, <2>2, <2>3, <2>5
<1>3. Nat \subseteq S
  <2> HIDE DEF S
  <2> QED BY <1>1, <1>2, SetInduction
<1> QED BY <1>3

\* What ReportAll merges are recorded scans.
LEMMA LatestType ==
  ASSUME Recorded
  PROVE  LatestReports \in Seq(recorded)
<1>1. PICK n \in Nat : n = Len(Order)  BY OrderAssumption
<1> DEFINE ls == [i \in 1..n |-> latest[Order[i]]]
<1>2. \A i \in 1..n : Order[i] \in Clusters  BY <1>1, OrderAssumption
<1>3. \A i \in 1..n : ls[i] \in recorded \cup {NoScan}  BY <1>2 DEF Recorded
<1>4. PICK f : f = CHOOSE q : Collects(ls, n, q)  BY Zenon
<1>5. Collects(ls, n, f)
  <2>1. \E q : Collects(ls, n, q)  BY CollectsExists, Zenon
  <2> QED BY <1>4, <2>1, Zenon
<1>6. LatestReports = f[n]
  <2>1. ASSUME NEW q
        PROVE  [m \in 0..n |-> IF m = 0 THEN <<>>
                  ELSE IF latest[Order[m]] = NoScan THEN q[m - 1] ELSE Append(q[m - 1], latest[Order[m]])]
               = [m \in 0..n |-> IF m = 0 THEN <<>>
                  ELSE IF ls[m] = NoScan THEN q[m - 1] ELSE Append(q[m - 1], ls[m])]
    <3>1. \A m \in 0..n : m # 0 => m \in 1..n  OBVIOUS
    <3>2. \A m \in 0..n : m # 0 => ls[m] = latest[Order[m]]  BY <3>1, Zenon
    <3> HIDE DEF ls
    <3> QED BY <3>2, Zenon
  <2>2. LatestReports = (CHOOSE q : q = [m \in 0..n |-> IF m = 0 THEN <<>>
                  ELSE IF latest[Order[m]] = NoScan THEN q[m - 1] ELSE Append(q[m - 1], latest[Order[m]])])[n]
    BY <1>1, Zenon DEF LatestReports
  <2>3. LatestReports = (CHOOSE q : Collects(ls, n, q))[n]
    <3> HIDE DEF ls
    <3> QED BY <2>1, <2>2, Zenon DEF Collects
  <2> QED BY <1>4, <2>3, Zenon
<1>7. n \in 0..n  OBVIOUS
<1> HIDE DEF ls
<1> QED BY <1>3, <1>5, <1>6, <1>7, CollectsType, Zenon

-----------------------------------------------------------------------------
(* Steps.                                                                   *)

LEMMA Extents ==
  ASSUME TypeOK, NEW k \in Scans
  PROVE  Extent(k) \in Nat /\ Room(k) \in Nat /\ Extent(k) <= Room(k)
<1>1. size \in [Scans -> 0..MaxBreaches]  BY DEF TypeOK
<1> QED BY <1>1, Sizes DEF Extent, Room

\* What the invariant says of one request, with the types the steps need.
LEMMA Facts ==
  ASSUME FleetInv, NEW r \in Readers
  PROVE  /\ reps[r] \in Seq(Scans) /\ reps[r] \in Seq(recorded) /\ recorded \subseteq Scans
         /\ at[r] \in Nat /\ from[r] \in Nat /\ at[r] >= 1 /\ from[r] >= 1
         /\ slice[r] \in Slice /\ slice[r].arr \in Scans \cup {NoScan} /\ slice[r].len \in Nat
         /\ own[r] \in Seq(Word) /\ out[r] \in Seq(Word)
         /\ Merged(r) \in Nat /\ Merged(r) <= Len(reps[r])
         /\ SoFar(r) \in Seq(Word)
         /\ NoScan \notin Scans
<1>1. /\ reps[r] \in Seq(Scans) /\ reps[r] \in Seq(recorded) /\ recorded \subseteq Scans
      /\ at[r] \in Nat /\ from[r] \in Nat
      /\ slice[r] \in Slice /\ slice[r].arr \in Scans \cup {NoScan} /\ slice[r].len \in Nat
      /\ own[r] \in Seq(Word) /\ out[r] \in Seq(Word) /\ NoScan \notin Scans
      /\ size \in [Scans -> 0..MaxBreaches]
  BY FleetAssumption DEF FleetInv, TypeOK, Recorded, Slice
<1>2. at[r] >= 1 /\ from[r] >= 1 /\ at[r] <= Len(reps[r]) + 1  BY DEF FleetInv, Shape, Position
<1>3. Merged(r) \in Nat /\ Merged(r) <= Len(reps[r])  BY <1>1, <1>2 DEF Merged
<1>4. SoFar(r) \in Seq(Word)  BY <1>1, <1>3, JoinedType, Zenon DEF SoFar
<1> QED BY <1>1, <1>2, <1>3, <1>4

\* A request stands in an append only while it merges into an array with room.
LEMMA NotCopying ==
  ASSUME FleetInv, NEW r \in Readers, pc[r] # "merge" \/ ~Fits(r) \/ ~(at[r] <= Len(reps[r])) \/ ~(at[r] > 1)
  PROVE  from[r] = 1
<1>1. from[r] \in Nat /\ from[r] >= 1  BY Facts
<1>2. Position(r)  BY DEF FleetInv, Shape
<1>3. ~(from[r] > 1)  BY <1>2, Zenon DEF Position
<1> QED BY <1>1, <1>3

\* A request whose own state does not change.
Unmoved(x) ==
  /\ pc'[x] = pc[x] /\ reps'[x] = reps[x] /\ at'[x] = at[x] /\ slice'[x] = slice[x]
  /\ own'[x] = own[x] /\ from'[x] = from[x] /\ out'[x] = out[x]
OthersStay(r) == \A x \in Readers \ {r} : Unmoved(x)

LEMMA Frame ==
  ASSUME FleetInv, NEW x \in Readers, size' = size, Unmoved(x)
  PROVE  Idle(x)' /\ Header(x)' /\ Private(x)' /\ Position(x)' /\ FirstKept(x)'
<1>0. /\ pc'[x] = pc[x] /\ reps'[x] = reps[x] /\ at'[x] = at[x] /\ slice'[x] = slice[x]
      /\ own'[x] = own[x] /\ from'[x] = from[x] /\ out'[x] = out[x]
  BY DEF Unmoved
<1>1. Idle(x) /\ Header(x) /\ Private(x) /\ Position(x) /\ FirstKept(x)
  BY DEF FleetInv, Shape, Words1
<1>2. Merged(x)' = Merged(x)  BY <1>0 DEF Merged
<1>3. SoFar(x)' = SoFar(x)  BY <1>0, <1>2 DEF SoFar
<1>4. Idle(x)'  BY <1>0, <1>1 DEF Idle
<1>5. Header(x)'  BY <1>0, <1>1, <1>2, <1>3 DEF Header, Extent, Room
<1>6. Private(x)'  BY <1>0, <1>1, <1>2, <1>3, Zenon DEF Private, Extent
<1>7. Position(x)'  BY <1>0, <1>1, <1>3, Zenon DEF Position, Fits, Current, Extent, Room
<1>8. FirstKept(x)'  BY <1>0, <1>1 DEF FirstKept, Extent
<1> QED BY <1>4, <1>5, <1>6, <1>7, <1>8

\* A request is not alone when another one is in flight.
LEMMA NotAlone ==
  ASSUME FleetInv, NEW r \in Readers, NEW x \in Readers, x # r, pc[r] # "idle",
         alone'[x] = alone[x], pc'[x] = pc[x]
  PROVE  AloneKept(x)'
<1>1. ~(alone[x] /\ pc[x] # "idle")
  <2>1. AloneKept(x)  BY DEF FleetInv, WordsAlone
  <2> QED BY <2>1, Zenon DEF AloneKept
<1> QED BY <1>1, Zenon DEF AloneKept

\* A step of request r keeps the invariant if it does so for r.
LEMMA Assemble ==
  ASSUME FleetInv, NEW r \in Readers, size' = size,
         OthersStay(r),
         \A x \in Readers \ {r} : AloneKept(x)',
         TypeOK', StoredIntact', Recorded',
         Idle(r)', Header(r)', Private(r)', Position(r)', FirstKept(r)', AloneKept(r)'
  PROVE  FleetInv'
<1>1. ASSUME NEW x \in Readers
      PROVE  Idle(x)' /\ Header(x)' /\ Private(x)' /\ Position(x)' /\ FirstKept(x)' /\ AloneKept(x)'
  <2>1. CASE x = r  BY <2>1, Zenon
  <2>2. CASE x # r
    <3>1. x \in Readers \ {r}  BY <2>2
    <3>2. Unmoved(x)  BY <3>1, Zenon DEF OthersStay
    <3>3. Idle(x)' /\ Header(x)' /\ Private(x)' /\ Position(x)' /\ FirstKept(x)'
      BY <3>2, Frame, Zenon
    <3> QED BY <3>1, <3>3, Zenon
  <2> QED BY <2>1, <2>2
<1>2. Shape' /\ Words1' /\ WordsAlone'  BY <1>1, Zenon DEF Shape, Words1, WordsAlone
<1> QED BY <1>2, Zenon DEF FleetInv

\* Nothing but the requests changes: the store stays as it is.
LEMMA StoreKept ==
  ASSUME FleetInv, UNCHANGED <<latest, recorded, size, mem>>,
         \A r \in Readers : reps'[r] \in Seq(recorded)
  PROVE  StoredIntact' /\ Recorded'
<1>1. StoredIntact /\ Recorded  BY DEF FleetInv
<1>2. StoredIntact'  BY <1>1 DEF StoredIntact, Extent
<1>3. Recorded'  BY <1>1 DEF Recorded
<1> QED BY <1>2, <1>3

LEMMA StartsStep ==
  ASSUME FleetInv, NEW r \in Readers, NEW to, Starts(r, to)
  PROVE  /\ pc[r] = "idle" /\ pc' = [pc EXCEPT ![r] = to] /\ alone' \in [Readers -> BOOLEAN]
         /\ \A x \in Readers \ {r} : AloneKept(x)'
         /\ alone'[r] => \A x \in Readers \ {r} : pc'[x] = "idle"
         /\ reps[r] = <<>> /\ at[r] = 1 /\ slice[r] = NoSlice /\ own[r] = <<>> /\ from[r] = 1 /\ out[r] = <<>>
<1>1. pc[r] = "idle" /\ pc' = [pc EXCEPT ![r] = to]  BY DEF Starts
<1>2. Idle(r)  BY DEF FleetInv, Shape
<1>3. pc \in [Readers -> {"idle", "merge", "grow", "encode", "sent"}]  BY DEF FleetInv, TypeOK
<1>4. alone \in [Readers -> BOOLEAN]  BY DEF FleetInv, TypeOK
<1>5. alone' = [x \in Readers |-> IF x = r THEN InFlight = {} ELSE alone[x] /\ pc[x] = "idle"]
  BY DEF Starts
<1>6. alone' \in [Readers -> BOOLEAN]
  <2>1. \A x \in Readers : (IF x = r THEN InFlight = {} ELSE alone[x] /\ pc[x] = "idle") \in BOOLEAN
    BY Zenon
  <2> QED BY <1>5, <2>1, Zenon
<1>7. ASSUME NEW x \in Readers \ {r} PROVE AloneKept(x)'
  <2>1. pc'[x] = pc[x]  BY <1>1, <1>3
  <2>2. alone'[x] => pc[x] = "idle"  BY <1>5, Zenon
  <2> QED BY <2>1, <2>2, Zenon DEF AloneKept
<1>8. alone'[r] => \A x \in Readers \ {r} : pc'[x] = "idle"
  <2>1. alone'[r] => InFlight = {}  BY <1>5, Zenon
  <2>2. InFlight = {} => \A x \in Readers \ {r} : pc[x] = "idle"  BY DEF InFlight
  <2>3. \A x \in Readers \ {r} : pc'[x] = pc[x]  BY <1>1, <1>3
  <2> QED BY <2>1, <2>2, <2>3, Zenon
<1>9. reps[r] = <<>> /\ at[r] = 1 /\ slice[r] = NoSlice /\ own[r] = <<>> /\ from[r] = 1 /\ out[r] = <<>>
  BY <1>1, <1>2 DEF Idle
<1> QED BY <1>1, <1>6, <1>7, <1>8, <1>9, Zenon

LEMMA ReportAllKeeps ==
  ASSUME FleetInv, NEW r \in Readers, ReportAll(r)
  PROVE  FleetInv'
<1>1. /\ Starts(r, "merge") /\ reps' = [reps EXCEPT ![r] = LatestReports]
      /\ UNCHANGED <<latest, recorded, size, mem, at, slice, own, from, out>>
  BY DEF ReportAll
<1>2. LatestReports \in Seq(recorded)  BY LatestType, Zenon DEF FleetInv
<1>3. /\ pc[r] = "idle" /\ pc' = [pc EXCEPT ![r] = "merge"] /\ alone' \in [Readers -> BOOLEAN]
      /\ \A x \in Readers \ {r} : AloneKept(x)'
      /\ alone'[r] => \A x \in Readers \ {r} : pc'[x] = "idle"
      /\ reps[r] = <<>> /\ at[r] = 1 /\ slice[r] = NoSlice /\ own[r] = <<>> /\ from[r] = 1 /\ out[r] = <<>>
  BY <1>1, StartsStep, Zenon
<1>4. TypeOK /\ recorded \subseteq Scans /\ NoScan \notin Scans  BY FleetAssumption DEF FleetInv, TypeOK
<1>5. TypeOK'
  <2>1. LatestReports \in Seq(Scans)  BY <1>2, <1>4
  <2>2. reps' \in [Readers -> Seq(Scans)]  BY <1>1, <1>4, <2>1 DEF TypeOK
  <2>3. pc' \in [Readers -> {"idle", "merge", "grow", "encode", "sent"}]  BY <1>3, <1>4 DEF TypeOK
  <2> QED BY <1>1, <1>3, <1>4, <2>2, <2>3, Zenon DEF TypeOK, Room
<1>6. \A x \in Readers : reps'[x] \in Seq(recorded)
  BY <1>1, <1>2, <1>4 DEF FleetInv, Recorded, TypeOK
<1>7. StoredIntact' /\ Recorded'  BY <1>1, <1>6, StoreKept, Zenon
<1>8. /\ pc'[r] = "merge" /\ reps'[r] = LatestReports /\ at'[r] = 1 /\ slice'[r] = NoSlice
      /\ own'[r] = <<>> /\ from'[r] = 1 /\ out'[r] = <<>>
  BY <1>1, <1>3, <1>4 DEF TypeOK
<1>9. Merged(r)' = 0  BY <1>8 DEF Merged
<1>10. SoFar(r)' = <<>>  BY <1>9, JoinedZero DEF SoFar
<1>11. Idle(r)' /\ Header(r)'  BY <1>8 DEF Idle, Header, NoSlice
<1>12. Private(r)'  BY <1>8, <1>9, <1>10 DEF Private, NoSlice
<1>13. Position(r)'  BY <1>2, <1>8 DEF Position, NoSlice
<1>14. FirstKept(r)'  BY <1>8 DEF FirstKept
<1>15. AloneKept(r)'
  <2>1. slice'[r].arr = NoScan  BY <1>8 DEF NoSlice
  <2>2. Len(own'[r]) = 0 /\ Len(out'[r]) = 0 /\ from'[r] - 1 = 0  BY <1>8
  <2>3. \A i \in 1..0 : FALSE  OBVIOUS
  <2> QED BY <1>3, <2>1, <2>2, <2>3, Zenon DEF AloneKept
<1>16. OthersStay(r)
  BY <1>1, <1>3, <1>4 DEF OthersStay, Unmoved, TypeOK
<1> QED
  BY <1>1, <1>3, <1>5, <1>7, <1>11, <1>12, <1>13, <1>14, <1>15, <1>16, Assemble, Zenon

LEMMA ReportOneKeeps ==
  ASSUME FleetInv, NEW r \in Readers, NEW c \in Clusters, ReportOne(r, c)
  PROVE  FleetInv'
<1>1. /\ latest[c] # NoScan /\ Starts(r, "encode") /\ reps' = [reps EXCEPT ![r] = <<latest[c]>>]
      /\ slice' = [slice EXCEPT ![r] = [arr |-> latest[c], len |-> Extent(latest[c])]]
      /\ UNCHANGED <<latest, recorded, size, mem, at, own, from, out>>
  BY DEF ReportOne
<1>2. PICK k : k = latest[c]  OBVIOUS
<1>3. /\ pc[r] = "idle" /\ pc' = [pc EXCEPT ![r] = "encode"] /\ alone' \in [Readers -> BOOLEAN]
      /\ \A x \in Readers \ {r} : AloneKept(x)'
      /\ alone'[r] => \A x \in Readers \ {r} : pc'[x] = "idle"
      /\ reps[r] = <<>> /\ at[r] = 1 /\ slice[r] = NoSlice /\ own[r] = <<>> /\ from[r] = 1 /\ out[r] = <<>>
  BY <1>1, StartsStep, Zenon
<1>4. TypeOK /\ recorded \subseteq Scans /\ NoScan \notin Scans
      /\ k \in recorded /\ k \in Scans /\ k # NoScan
  BY <1>1, <1>2, FleetAssumption, Zenon DEF FleetInv, TypeOK, Recorded
<1>5. Extent(k) \in Nat /\ Room(k) \in Nat /\ Extent(k) <= Room(k)  BY <1>4, Extents
<1>6. <<k>> \in Seq(recorded) /\ <<k>> \in Seq(Scans) /\ <<k>> # <<>> /\ Len(<<k>>) = 1 /\ <<k>>[1] = k
  BY <1>4
<1>7. TypeOK'
  <2>1. reps' \in [Readers -> Seq(Scans)]  BY <1>1, <1>2, <1>4, <1>6 DEF TypeOK
  <2>2. pc' \in [Readers -> {"idle", "merge", "grow", "encode", "sent"}]  BY <1>3, <1>4 DEF TypeOK
  <2>3. slice' \in [Readers -> Slice]  BY <1>1, <1>2, <1>4, <1>5 DEF TypeOK, Slice
  <2> QED BY <1>1, <1>3, <1>4, <2>1, <2>2, <2>3, Zenon DEF TypeOK, Room
<1>8. \A x \in Readers : reps'[x] \in Seq(recorded)
  BY <1>1, <1>2, <1>4, <1>6 DEF FleetInv, Recorded, TypeOK
<1>9. StoredIntact' /\ Recorded'  BY <1>1, <1>8, StoreKept, Zenon
<1>10. /\ pc'[r] = "encode" /\ reps'[r] = <<k>> /\ at'[r] = 1
       /\ slice'[r].arr = k /\ slice'[r].len = Extent(k)
       /\ own'[r] = <<>> /\ from'[r] = 1 /\ out'[r] = <<>>
  BY <1>1, <1>2, <1>3, <1>4 DEF TypeOK
<1>11. Extent(k)' = Extent(k) /\ Room(k)' = Room(k) /\ Extent(k) = size[k] * Words
  BY <1>1 DEF Extent, Room
<1>12. Merged(r)' = 1  BY <1>6, <1>10 DEF Merged
<1>13. /\ SoFar(r)' = Joined(size, <<k>>, 1) /\ Len(SoFar(r)') = Extent(k)
       /\ \A i \in 1..Extent(k) : SoFar(r)'[i] = WordOf(k, i)
  <2>1. SoFar(r)' = Joined(size, <<k>>, 1)  BY <1>1, <1>10, <1>12 DEF SoFar
  <2>2. size \in [Scans -> 0..MaxBreaches]  BY <1>4 DEF TypeOK
  <2>3. Len(Joined(size, <<k>>, 1)) = size[<<k>>[1]] * Words
        /\ \A i \in 1..(size[<<k>>[1]] * Words) : Joined(size, <<k>>, 1)[i] = WordOf(<<k>>[1], i)
    BY <1>6, <2>2, JoinedFirst, Zenon
  <2> QED BY <1>6, <1>11, <2>1, <2>3
<1>14. Idle(r)'  BY <1>10 DEF Idle
<1>15. Header(r)'  BY <1>4, <1>5, <1>6, <1>10, <1>11, <1>12, <1>13 DEF Header
<1>16. Private(r)'  BY <1>4, <1>10, Zenon DEF Private
<1>17. Position(r)'  BY <1>6, <1>10 DEF Position
<1>18. FirstKept(r)'  BY <1>10 DEF FirstKept
<1>19. AloneKept(r)'
  <2>1. \A i \in 1..slice'[r].len : mem'[slice'[r].arr][i] = SoFar(r)'[i]
    BY <1>1, <1>4, <1>10, <1>13 DEF FleetInv, StoredIntact
  <2>2. Len(own'[r]) = 0 /\ Len(out'[r]) = 0 /\ from'[r] - 1 = 0  BY <1>10
  <2>3. \A i \in 1..0 : FALSE  OBVIOUS
  <2> QED BY <1>3, <2>1, <2>2, <2>3, Zenon DEF AloneKept
<1>20. OthersStay(r)
  BY <1>1, <1>3, <1>4 DEF OthersStay, Unmoved, TypeOK
<1> QED
  BY <1>1, <1>3, <1>7, <1>9, <1>14, <1>15, <1>16, <1>17, <1>18, <1>19, <1>20, Assemble, Zenon

\* A step of a request that is in flight.
LEMMA AssembleOn ==
  ASSUME FleetInv, NEW r \in Readers, pc[r] # "idle", size' = size, alone' = alone,
         OthersStay(r),
         TypeOK', StoredIntact', Recorded',
         Idle(r)', Header(r)', Private(r)', Position(r)', FirstKept(r)', AloneKept(r)'
  PROVE  FleetInv'
<1>1. ASSUME NEW x \in Readers \ {r} PROVE AloneKept(x)'
  <2>1. x \in Readers /\ x # r /\ alone'[x] = alone[x] /\ pc'[x] = pc[x]  BY DEF OthersStay, Unmoved
  <2> QED BY <2>1, NotAlone, Zenon
<1> QED BY <1>1, Assemble, Zenon

LEMMA TakeHeaderKeeps ==
  ASSUME FleetInv, NEW r \in Readers, TakeHeader(r)
  PROVE  FleetInv'
<1>1. /\ pc[r] = "merge" /\ at[r] = 1 /\ at[r] <= Len(reps[r])
      /\ slice' = [slice EXCEPT ![r] = [arr |-> reps[r][1], len |-> Extent(reps[r][1])]]
      /\ at' = [at EXCEPT ![r] = 2]
      /\ UNCHANGED <<latest, recorded, size, mem, pc, reps, own, from, out, alone>>
  BY Zenon DEF TakeHeader, Merging, Current
<1>2. TypeOK /\ Header(r) /\ Private(r) /\ Position(r) /\ FirstKept(r) /\ AloneKept(r)
      /\ StoredIntact /\ Recorded
  BY DEF FleetInv, Shape, Words1, WordsAlone
<1>3. PICK k : k = reps[r][1]  BY Zenon
<1>4. /\ reps[r] \in Seq(Scans) /\ reps[r] \in Seq(recorded) /\ recorded \subseteq Scans
      /\ NoScan \notin Scans /\ own[r] \in Seq(Word) /\ out[r] \in Seq(Word) /\ from[r] \in Nat
      /\ reps[r] # <<>> /\ k \in Scans /\ k \in recorded /\ k # NoScan
  BY <1>1, <1>3, Facts
<1>5. Extent(k) \in Nat /\ Room(k) \in Nat /\ Extent(k) <= Room(k)  BY <1>2, <1>4, Extents
<1>6. slice[r].arr = NoScan  BY <1>1, <1>2, Zenon DEF Position
<1>7. from[r] = 1 /\ out[r] = <<>>
  <2>1. at[r] = 1  BY <1>1, Zenon
  <2>2. ~(at[r] > 1)  BY <2>1
  <2>3. from[r] = 1  BY <2>2, NotCopying, Zenon
  <2> QED BY <1>1, <1>2, <2>3, Zenon DEF Position
<1>8. Merged(r) = 0 /\ SoFar(r) = <<>>
  <2>1. Merged(r) = at[r] - 1  BY <1>1, Zenon DEF Merged
  <2>2. at[r] = 1  BY <1>1, Zenon
  <2>3. Merged(r) = 0  BY <2>1, <2>2
  <2> QED BY <2>3, JoinedZero, Zenon DEF SoFar
<1>9. own[r] = <<>>  BY <1>2, <1>4, <1>6, <1>8 DEF Private
<1>10. /\ pc'[r] = "merge" /\ reps'[r] = reps[r] /\ at'[r] = 2
       /\ slice'[r].arr = k /\ slice'[r].len = Extent(k)
       /\ own'[r] = <<>> /\ from'[r] = 1 /\ out'[r] = <<>>
  BY <1>1, <1>2, <1>3, <1>7, <1>9 DEF TypeOK
<1>11. TypeOK'
  <2>1. slice' \in [Readers -> Slice]  BY <1>1, <1>2, <1>3, <1>4, <1>5 DEF TypeOK, Slice
  <2>2. at' \in [Readers -> Nat]  BY <1>1, <1>2, Zenon DEF TypeOK
  <2> QED BY <1>1, <1>2, <2>1, <2>2, Zenon DEF TypeOK, Room
<1>12. \A x \in Readers : reps'[x] \in Seq(recorded)  BY <1>1, <1>2 DEF Recorded
<1>13. StoredIntact' /\ Recorded'  BY <1>1, <1>12, StoreKept, Zenon
<1>14. Extent(k)' = Extent(k) /\ Room(k)' = Room(k) /\ Extent(k) = size[k] * Words
  BY <1>1 DEF Extent, Room
<1>15. Merged(r)' = 1  BY <1>10 DEF Merged
<1>16. /\ Len(SoFar(r)') = Extent(k)
       /\ \A i \in 1..Extent(k) : SoFar(r)'[i] = WordOf(k, i)
  <2>1. SoFar(r)' = Joined(size, reps[r], 1)  BY <1>1, <1>10, <1>15 DEF SoFar
  <2>2. size \in [Scans -> 0..MaxBreaches]  BY <1>2 DEF TypeOK
  <2>3. Len(Joined(size, reps[r], 1)) = size[reps[r][1]] * Words
        /\ \A i \in 1..(size[reps[r][1]] * Words) : Joined(size, reps[r], 1)[i] = WordOf(reps[r][1], i)
    BY <1>4, <2>2, JoinedFirst, Zenon
  <2> QED BY <1>3, <1>14, <2>1, <2>3
<1>17. Idle(r)'  BY <1>10, Zenon DEF Idle
<1>18. Header(r)'  BY <1>3, <1>4, <1>5, <1>10, <1>14, <1>15, <1>16 DEF Header
<1>19. Private(r)'  BY <1>4, <1>10, Zenon DEF Private
<1>20. Position(r)'  BY <1>1, <1>4, <1>10 DEF Position
<1>21. FirstKept(r)'  BY <1>10 DEF FirstKept
<1>22. AloneKept(r)'
  <2>1. \A i \in 1..slice'[r].len : mem'[slice'[r].arr][i] = SoFar(r)'[i]
    BY <1>1, <1>2, <1>4, <1>10, <1>16 DEF StoredIntact
  <2>2. Len(own'[r]) = 0 /\ Len(out'[r]) = 0 /\ from'[r] - 1 = 0  BY <1>10
  <2>3. \A i \in 1..0 : FALSE  OBVIOUS
  <2>4. alone'[r] => \A x \in Readers \ {r} : pc'[x] = "idle"  BY <1>1, <1>2, Zenon DEF AloneKept
  <2> QED BY <2>1, <2>2, <2>3, <2>4, Zenon DEF AloneKept
<1>23. OthersStay(r)
  BY <1>1, <1>2 DEF OthersStay, Unmoved, TypeOK
<1> QED
  BY <1>1, <1>11, <1>13, <1>17, <1>18, <1>19, <1>20, <1>21, <1>22, <1>23, AssembleOn, Zenon

\* Where the words of an append go: behind the header, inside the array.
LEMMA InRange ==
  ASSUME NEW f \in Nat, NEW l \in Nat, NEW e \in Nat, NEW ra \in Nat, NEW ea \in Nat,
         f >= 1, f <= e, l + e <= ra, ea <= l
  PROVE  f \in 1..e /\ l + f \in 1..ra /\ l + f > l /\ l + f > ea
OBVIOUS

\* The arrays have their sizes; n is m with the word v written at w of array a.
Arrays(m) == m = [j \in Scans |-> m[j]] /\ \A j \in Scans : m[j] \in [1..Room(j) -> Word]

Wrote(n, m, a, w, v) ==
  /\ Arrays(n) /\ n[a][w] = v
  /\ \A j \in Scans : j # a => n[j] = m[j]
  /\ \A i \in 1..Room(a) : i # w => n[a][i] = m[a][i]

\* EXCEPT writes one word and leaves the others.
LEMMA Written ==
  ASSUME NEW m, Arrays(m), NEW a \in Scans, NEW w \in 1..Room(a), NEW v \in Word,
         NEW n, n = [m EXCEPT ![a][w] = v]
  PROVE  Wrote(n, m, a, w, v)
<1>1. m = [j \in Scans |-> m[j]] /\ m[a] \in [1..Room(a) -> Word]  BY DEF Arrays
<1>2. n = [m EXCEPT ![a] = [m[a] EXCEPT ![w] = v]]  OBVIOUS
<1>3. n = [j \in Scans |-> n[j]] /\ n[a] = [m[a] EXCEPT ![w] = v] /\ \A j \in Scans : j # a => n[j] = m[j]
  BY <1>1, <1>2, Zenon
<1>4. n[a] \in [1..Room(a) -> Word] /\ n[a][w] = v /\ \A i \in 1..Room(a) : i # w => n[a][i] = m[a][i]
  BY <1>1, <1>3, Zenon
<1>5. \A j \in Scans : n[j] \in [1..Room(j) -> Word]  BY <1>3, <1>4, Zenon DEF Arrays
<1> QED BY <1>3, <1>4, <1>5, Zenon DEF Arrays, Wrote

\* One more report merged is its breaches behind the ones so far.
Continues(S, T, k, e) ==
  /\ T \in Seq(Word) /\ Len(T) = Len(S) + e
  /\ \A i \in 1..Len(S) : T[i] = S[i]
  /\ \A i \in 1..e : T[Len(S) + i] = WordOf(k, i)

LEMMA SoFarNext ==
  ASSUME TypeOK, NEW rs \in Seq(Scans), NEW n \in Nat, n < Len(rs), NEW k, k = rs[n + 1],
         NEW S, S = Joined(size, rs, n), NEW T, T = Joined(size, rs, n + 1)
  PROVE  Continues(S, T, k, Extent(k))
<1>1. size \in [Scans -> 0..MaxBreaches]  BY DEF TypeOK
<1>2. Extent(k) = size[rs[n + 1]] * Words  BY DEF Extent
<1>3. Continues(Joined(size, rs, n), Joined(size, rs, n + 1), rs[n + 1], size[rs[n + 1]] * Words)
  BY <1>1, JoinedAt, Zenon DEF Continues
<1> QED BY <1>2, <1>3, Zenon

\* The words go behind what the request has merged, hence behind the stored breaches of
\* the array: no stored report changes, and no other request's own state.
LEMMA AppendInPlaceKeeps ==
  ASSUME FleetInv, NEW r \in Readers, AppendInPlace(r)
  PROVE  FleetInv'
<1> PICK a, w, k : a = slice[r].arr /\ w = slice[r].len + from[r] /\ k = Current(r)
  OBVIOUS
<1>1. /\ pc[r] = "merge" /\ at[r] > 1 /\ at[r] <= Len(reps[r]) /\ Fits(r) /\ from[r] <= Extent(k)
      /\ mem' = [mem EXCEPT ![a][w] = mem[k][from[r]]]
      /\ from' = [from EXCEPT ![r] = @ + 1]
      /\ UNCHANGED <<latest, recorded, size, pc, reps, at, slice, own, out, alone>>
  BY DEF AppendInPlace, Merging
<1>2. TypeOK /\ Idle(r) /\ Header(r) /\ Private(r) /\ Position(r) /\ FirstKept(r) /\ AloneKept(r)
      /\ StoredIntact /\ Recorded
  BY Zenon DEF FleetInv, Shape, Words1, WordsAlone
<1>3. /\ reps[r] \in Seq(Scans) /\ reps[r] \in Seq(recorded) /\ recorded \subseteq Scans
      /\ NoScan \notin Scans /\ from[r] \in Nat /\ from[r] >= 1 /\ at[r] \in Nat
      /\ a \in Scans \cup {NoScan} /\ slice[r].len \in Nat
  BY Facts
<1>4. a # NoScan /\ slice[r].len + Extent(k) <= Room(a)  BY <1>1, Zenon DEF Fits
<1>5. a \in Scans /\ k \in recorded /\ k \in Scans /\ a = reps[r][1] /\ a \in recorded
      /\ Extent(a) <= slice[r].len
  BY <1>1, <1>2, <1>3, <1>4 DEF Current, Header
<1>6. Extent(k) \in Nat /\ Extent(a) \in Nat /\ Room(a) \in Nat  BY <1>2, <1>5, Extents
<1>7. from[r] \in 1..Extent(k) /\ w \in 1..Room(a) /\ w > slice[r].len /\ w > Extent(a)
  <2>1. from[r] \in Nat /\ slice[r].len \in Nat /\ from[r] >= 1 /\ from[r] <= Extent(k)  BY <1>1, <1>3, Zenon
  <2> QED BY <1>4, <1>5, <1>6, <2>1, InRange, Zenon
<1>8. mem[k][from[r]] = WordOf(k, from[r]) /\ WordOf(k, from[r]) \in Word
  BY <1>2, <1>3, <1>5, <1>7 DEF StoredIntact, WordOf, Word
<1>9. Arrays(mem)  BY <1>2, Zenon DEF TypeOK, Arrays
<1>10. /\ Arrays(mem') /\ mem'[a][w] = WordOf(k, from[r])
       /\ \A j \in Scans : j # a => mem'[j] = mem[j]
       /\ \A i \in 1..Room(a) : i # w => mem'[a][i] = mem[a][i]
  <2>1. PICK v \in Word : v = WordOf(k, from[r])  BY <1>8, Zenon
  <2>2. mem' = [mem EXCEPT ![a][w] = v]  BY <1>1, <1>8, <2>1, Zenon
  <2>3. Wrote(mem', mem, a, w, v)  BY <1>5, <1>7, <1>9, <2>2, Written, Zenon
  <2> QED BY <2>1, <2>3, Zenon DEF Wrote
<1>11. TypeOK'
  <2>1. from' \in [Readers -> Nat]  BY <1>1, <1>2 DEF TypeOK
  <2>2. \A j : Room(j)' = Room(j)  BY <1>1, Zenon DEF Room
  <2> QED BY <1>1, <1>2, <1>10, <2>1, <2>2, Zenon DEF TypeOK, Arrays
<1>12. StoredIntact'
  <2> SUFFICES ASSUME NEW j \in recorded, NEW i \in 1..Extent(j) PROVE mem'[j][i] = WordOf(j, i)
    BY <1>1, Zenon DEF StoredIntact, Extent
  <2>1. mem'[j][i] = mem[j][i]
    <3>1. CASE j # a  BY <1>3, <1>10, <3>1
    <3>2. CASE j = a
      <4>1. w \in 1..Room(a) /\ w > Extent(a) /\ Extent(a) \in Nat /\ Room(a) \in Nat /\ i \in 1..Extent(a)
        BY <1>6, <1>7, <3>2, Zenon
      <4>2. i \in 1..Room(a) /\ i # w  BY <4>1
      <4> QED BY <1>10, <3>2, <4>2, Zenon
    <3> QED BY <3>1, <3>2, Zenon
  <2> QED BY <1>2, <2>1 DEF StoredIntact
<1>13. Recorded'  BY <1>1, <1>2, Zenon DEF Recorded
<1>14. /\ pc'[r] = pc[r] /\ reps'[r] = reps[r] /\ at'[r] = at[r] /\ slice'[r] = slice[r]
       /\ own'[r] = own[r] /\ from'[r] = from[r] + 1 /\ out'[r] = out[r]
  BY <1>1, <1>2 DEF TypeOK
<1>15. Merged(r)' = Merged(r) /\ SoFar(r)' = SoFar(r)  BY <1>1 DEF Merged, SoFar
<1>16. Idle(r)'  BY <1>1, Zenon DEF Idle
<1>17. Header(r)'  BY <1>1, <1>2, <1>15 DEF Header, Extent, Room
<1>18. Private(r)'  BY <1>1, <1>2, <1>15 DEF Private, Extent
<1>19. Position(r)'
  <2>1. Fits(r)' = Fits(r) /\ Extent(Current(r))' = Extent(Current(r))
    BY <1>1 DEF Fits, Current, Extent, Room
  <2>2. from'[r] >= 1 /\ from'[r] <= Extent(k) + 1
    <3>1. from[r] \in 1..Extent(k) /\ Extent(k) \in Nat /\ from'[r] = from[r] + 1  BY <1>6, <1>7, <1>14, Zenon
    <3> QED BY <3>1
  <2> QED BY <1>1, <1>2, <1>14, <1>15, <2>1, <2>2, Zenon DEF Position
<1>20. FirstKept(r)'  BY <1>1, <1>2 DEF FirstKept, Extent
<1>21. AloneKept(r)'
  <2> SUFFICES ASSUME alone[r]
               PROVE  /\ \A x \in Readers \ {r} : pc'[x] = "idle"
                      /\ slice'[r].arr # NoScan =>
                           \A i \in 1..slice'[r].len : mem'[slice'[r].arr][i] = SoFar(r)'[i]
                      /\ \A i \in 1..(from'[r] - 1) :
                           mem'[slice'[r].arr][slice'[r].len + i] = WordOf(Current(r)', i)
                      /\ \A i \in 1..Len(own'[r]) : own'[r][i] = SoFar(r)'[i]
                      /\ \A i \in 1..Len(out'[r]) : out'[r][i] = SoFar(r)'[i]
    BY <1>1, Zenon DEF AloneKept
  <2>1. /\ \A x \in Readers \ {r} : pc[x] = "idle"
        /\ a # NoScan => \A i \in 1..slice[r].len : mem[a][i] = SoFar(r)[i]
        /\ \A i \in 1..(from[r] - 1) : mem[a][slice[r].len + i] = WordOf(k, i)
        /\ \A i \in 1..Len(own[r]) : own[r][i] = SoFar(r)[i]
        /\ \A i \in 1..Len(out[r]) : out[r][i] = SoFar(r)[i]
    <3>1. pc[r] # "idle"  BY <1>1
    <3> QED BY <1>2, <3>1, Zenon DEF AloneKept
  <2>2. slice'[r].arr = a /\ slice'[r].len = slice[r].len /\ Current(r)' = k
    BY <1>1 DEF Current
  <2>3. ASSUME NEW i \in 1..slice[r].len PROVE mem'[a][i] = SoFar(r)[i]
    <3>1. i \in 1..Room(a) /\ i # w
      <4>1. slice[r].len \in Nat /\ w \in 1..Room(a) /\ w > slice[r].len /\ Room(a) \in Nat  BY <1>3, <1>6, <1>7, Zenon
      <4> QED BY <4>1
    <3> QED BY <1>4, <1>10, <2>1, <3>1, Zenon
  <2>4. ASSUME NEW i \in 1..(from'[r] - 1)
        PROVE  mem'[a][slice[r].len + i] = WordOf(k, i)
    <3>1. CASE i = from[r]  BY <1>10, <3>1, Zenon
    <3>2. CASE i # from[r]
      <4>1. i \in 1..(from[r] - 1) /\ slice[r].len + i \in 1..Room(a) /\ slice[r].len + i # w
        <5>1. from[r] \in Nat /\ slice[r].len \in Nat /\ Room(a) \in Nat /\ from'[r] = from[r] + 1
              /\ slice[r].len + from[r] \in 1..Room(a)
          BY <1>3, <1>6, <1>7, <1>14, Zenon
        <5> QED BY <3>2, <5>1
      <4> QED BY <1>10, <2>1, <4>1, Zenon
    <3> QED BY <3>1, <3>2
  <2>5. \A x \in Readers \ {r} : pc'[x] = "idle"  BY <1>1, <2>1, Zenon
  <2>6. \A i \in 1..Len(own'[r]) : own'[r][i] = SoFar(r)'[i]  BY <1>14, <1>15, <2>1, Zenon
  <2>7. \A i \in 1..Len(out'[r]) : out'[r][i] = SoFar(r)'[i]  BY <1>14, <1>15, <2>1, Zenon
  <2> QED BY <1>15, <2>2, <2>3, <2>4, <2>5, <2>6, <2>7, Zenon
<1>22. OthersStay(r)
  BY <1>1, <1>2 DEF OthersStay, Unmoved, TypeOK
<1> QED
  BY <1>1, <1>11, <1>12, <1>13, <1>16, <1>17, <1>18, <1>19, <1>20, <1>21, <1>22, AssembleOn, Zenon

LEMMA AppendDoneKeeps ==
  ASSUME FleetInv, NEW r \in Readers, AppendDone(r)
  PROVE  FleetInv'
<1> PICK a, k, n : a = slice[r].arr /\ k = Current(r) /\ n = at[r] - 1
  OBVIOUS
<1>1. /\ pc[r] = "merge" /\ at[r] > 1 /\ at[r] <= Len(reps[r]) /\ Fits(r) /\ from[r] > Extent(k)
      /\ slice' = [slice EXCEPT ![r].len = @ + Extent(k)]
      /\ from' = [from EXCEPT ![r] = 1] /\ at' = [at EXCEPT ![r] = @ + 1]
      /\ UNCHANGED <<latest, recorded, size, mem, pc, reps, own, out, alone>>
  BY DEF AppendDone, Merging
<1>2. TypeOK /\ Idle(r) /\ Header(r) /\ Private(r) /\ Position(r) /\ FirstKept(r) /\ AloneKept(r)
      /\ StoredIntact /\ Recorded
  BY DEF FleetInv, Shape, Words1, WordsAlone
<1>3. /\ reps[r] \in Seq(Scans) /\ NoScan \notin Scans /\ from[r] \in Nat /\ from[r] >= 1
      /\ at[r] \in Nat /\ a \in Scans \cup {NoScan} /\ slice[r].len \in Nat /\ slice[r] \in Slice
      /\ own[r] \in Seq(Word) /\ out[r] \in Seq(Word) /\ SoFar(r) \in Seq(Word)
  BY Facts
<1>4. a # NoScan /\ slice[r].len + Extent(k) <= Room(a)  BY <1>1 DEF Fits
<1>5. /\ a \in Scans /\ k \in Scans /\ k = reps[r][n + 1] /\ n \in Nat /\ n < Len(reps[r]) /\ n + 1 = at[r]
      /\ n >= 1
  BY <1>1, <1>3, <1>4 DEF Current
<1>6. Extent(k) \in Nat /\ Room(a) \in Nat /\ Extent(a) \in Nat  BY <1>2, <1>5, Extents, Zenon
<1>7. from[r] - 1 = Extent(k)
  <2>1. from[r] > 1 => from[r] <= Extent(k) + 1  BY <1>2, Zenon DEF Position
  <2>2. from[r] \in Nat /\ from[r] >= 1 /\ from[r] > Extent(k) /\ Extent(k) \in Nat  BY <1>1, <1>3, <1>6, Zenon
  <2> QED BY <2>1, <2>2
<1>8. Merged(r) = n /\ SoFar(r) = Joined(size, reps[r], n)  BY <1>1 DEF Merged, SoFar
<1>9. /\ slice[r].len = Len(SoFar(r)) /\ own[r] = <<>> /\ out[r] = <<>> /\ a = reps[r][1]
      /\ Extent(a) <= slice[r].len /\ reps[r] # <<>>
  BY <1>1, <1>2, <1>4 DEF Header, Position
<1>10. /\ pc'[r] = "merge" /\ reps'[r] = reps[r] /\ at'[r] = at[r] + 1
       /\ slice'[r].arr = a /\ slice'[r].len = slice[r].len + Extent(k)
       /\ own'[r] = <<>> /\ from'[r] = 1 /\ out'[r] = <<>>
  BY <1>1, <1>2, <1>9, Zenon DEF TypeOK, Slice
<1>11. Merged(r)' = n + 1  BY <1>3, <1>5, <1>10 DEF Merged
<1>12. SoFar(r)' = Joined(size, reps[r], n + 1)  BY <1>1, <1>10, <1>11 DEF SoFar
<1>13. /\ SoFar(r)' \in Seq(Word) /\ Len(SoFar(r)') = Len(SoFar(r)) + Extent(k)
       /\ \A i \in 1..Len(SoFar(r)) : SoFar(r)'[i] = SoFar(r)[i]
       /\ \A i \in 1..Extent(k) : SoFar(r)'[Len(SoFar(r)) + i] = WordOf(k, i)
  <2>1. Continues(SoFar(r), SoFar(r)', k, Extent(k))  BY <1>2, <1>3, <1>5, <1>8, <1>12, SoFarNext, Zenon
  <2> QED BY <2>1, Zenon DEF Continues
<1>14. Extent(a)' = Extent(a) /\ Room(a)' = Room(a)  BY <1>1 DEF Extent, Room
<1>15. TypeOK'
  <2>1. slice' \in [Readers -> Slice]
    <3>1. slice \in [Readers -> Slice]  BY <1>2 DEF TypeOK
    <3>2. PICK e \in Nat : e = Extent(k)  BY <1>6
    <3>3. slice' = [slice EXCEPT ![r].len = @ + e]  BY <1>1, <3>2, Zenon
    <3> QED BY <3>1, <3>3 DEF Slice
  <2>2. at' \in [Readers -> Nat] /\ from' \in [Readers -> Nat]  BY <1>1, <1>2 DEF TypeOK
  <2> QED BY <1>1, <1>2, <2>1, <2>2, Zenon DEF TypeOK, Room
<1>16. \A x \in Readers : reps'[x] \in Seq(recorded)  BY <1>1, <1>2 DEF Recorded
<1>17. StoredIntact' /\ Recorded'  BY <1>1, <1>16, StoreKept, Zenon
<1>18. Idle(r)'  BY <1>10 DEF Idle
<1>19. Header(r)'
  <2>1. slice'[r].len \in Nat /\ slice'[r].len <= Room(a) /\ Extent(a) <= slice'[r].len
    <3>1. /\ slice[r].len \in Nat /\ Extent(k) \in Nat /\ Room(a) \in Nat /\ Extent(a) \in Nat
          /\ slice[r].len + Extent(k) <= Room(a) /\ Extent(a) <= slice[r].len
          /\ slice'[r].len = slice[r].len + Extent(k)
      BY <1>3, <1>4, <1>6, <1>9, <1>10, Zenon
    <3> QED BY <3>1
  <2>2. Len(own'[r]) <= slice'[r].len /\ Len(out'[r]) <= slice'[r].len
    <3>1. Len(own'[r]) = 0 /\ Len(out'[r]) = 0  BY <1>10
    <3> QED BY <2>1, <3>1
  <2>3. Merged(r)' >= 1 /\ slice'[r].len = Len(SoFar(r)')
    <3>1. n + 1 >= 1  BY <1>5
    <3> QED BY <1>9, <1>10, <1>11, <1>13, <3>1, Zenon
  <2>4. Extent(slice[r].arr)' = Extent(a) /\ Room(slice[r].arr)' = Room(a)
    BY <1>1, <1>10 DEF Extent, Room
  <2> QED BY <1>9, <1>10, <2>1, <2>2, <2>3, <2>4, Zenon DEF Header
<1>20. Private(r)'  BY <1>4, <1>10 DEF Private
<1>21. Position(r)'  BY <1>1, <1>3, <1>10 DEF Position
<1>22. FirstKept(r)'  BY <1>10 DEF FirstKept
<1>23. AloneKept(r)'
  <2> SUFFICES ASSUME alone[r]
               PROVE  /\ \A x \in Readers \ {r} : pc'[x] = "idle"
                      /\ slice'[r].arr # NoScan =>
                           \A i \in 1..slice'[r].len : mem'[slice'[r].arr][i] = SoFar(r)'[i]
                      /\ \A i \in 1..(from'[r] - 1) :
                           mem'[slice'[r].arr][slice'[r].len + i] = WordOf(Current(r)', i)
                      /\ \A i \in 1..Len(own'[r]) : own'[r][i] = SoFar(r)'[i]
                      /\ \A i \in 1..Len(out'[r]) : out'[r][i] = SoFar(r)'[i]
    BY <1>1, Zenon DEF AloneKept
  <2>1. /\ \A x \in Readers \ {r} : pc[x] = "idle"
        /\ a # NoScan => \A i \in 1..slice[r].len : mem[a][i] = SoFar(r)[i]
        /\ \A i \in 1..(from[r] - 1) : mem[a][slice[r].len + i] = WordOf(k, i)
    <3>1. pc[r] # "idle"  BY <1>1, Zenon
    <3> QED BY <1>2, <3>1, Zenon DEF AloneKept
  <2>2. Len(own'[r]) = 0 /\ Len(out'[r]) = 0 /\ from'[r] - 1 = 0  BY <1>10
  <2>3. \A i \in 1..0 : FALSE  OBVIOUS
  <2>4. ASSUME NEW i \in 1..slice'[r].len PROVE mem[a][i] = SoFar(r)'[i]
    <3>1. CASE i <= slice[r].len
      <4>1. i \in 1..slice[r].len /\ i \in 1..Len(SoFar(r))  BY <1>3, <1>9, <3>1
      <4> QED BY <1>4, <1>13, <2>1, <4>1, Zenon
    <3>2. CASE i > slice[r].len
      <4>1. PICK j \in 1..Extent(k) : i = slice[r].len + j
        <5>1. i - slice[r].len \in 1..Extent(k) /\ i = slice[r].len + (i - slice[r].len)
          <6>1. slice[r].len \in Nat /\ Extent(k) \in Nat /\ slice'[r].len = slice[r].len + Extent(k)
            BY <1>3, <1>6, <1>10, Zenon
          <6> QED BY <3>2, <6>1
        <5> QED BY <5>1
      <4>2. mem[a][slice[r].len + j] = WordOf(k, j)  BY <1>7, <2>1, <4>1
      <4>3. SoFar(r)'[Len(SoFar(r)) + j] = WordOf(k, j)  BY <1>13, <4>1, Zenon
      <4>4. slice[r].len = Len(SoFar(r))  BY <1>9, Zenon
      <4> QED BY <4>1, <4>2, <4>3, <4>4, Zenon
    <3>3. slice[r].len \in Nat /\ slice'[r].len \in Nat  BY <1>3, <1>6, <1>10
    <3> QED BY <3>1, <3>2, <3>3
  <2> QED BY <1>1, <1>10, <2>1, <2>2, <2>3, <2>4, Zenon
<1>24. OthersStay(r)
  BY <1>1, <1>2 DEF OthersStay, Unmoved, TypeOK
<1>25. pc[r] # "idle"  BY <1>1
<1> QED
  BY <1>1, <1>15, <1>17, <1>18, <1>19, <1>20, <1>21, <1>22, <1>23, <1>24, <1>25, AssembleOn, Zenon

\* What AloneKept promises a request in flight that is alone.
LEMMA AloneFacts ==
  ASSUME FleetInv, NEW r \in Readers, pc[r] # "idle", alone[r]
  PROVE  /\ \A x \in Readers \ {r} : pc[x] = "idle"
         /\ slice[r].arr # NoScan => \A i \in 1..slice[r].len : mem[slice[r].arr][i] = SoFar(r)[i]
         /\ \A i \in 1..Len(own[r]) : own[r][i] = SoFar(r)[i]
         /\ \A i \in 1..Len(out[r]) : out[r][i] = SoFar(r)[i]
<1>1. AloneKept(r)  BY DEF FleetInv, WordsAlone
<1> QED BY <1>1, Zenon DEF AloneKept

\* The same of the words a step of r leaves it with.
AloneNext(r) ==
  alone[r] =>
    /\ slice'[r].arr # NoScan =>
         \A i \in 1..slice'[r].len : mem[slice'[r].arr][i] = SoFar(r)'[i]
    /\ \A i \in 1..Len(own'[r]) : own'[r][i] = SoFar(r)'[i]
    /\ \A i \in 1..Len(out'[r]) : out'[r][i] = SoFar(r)'[i]

\* A step of r that leaves the store alone and does not stand in an append.
LEMMA AssembleLocal ==
  ASSUME FleetInv, NEW r \in Readers, pc[r] # "idle", from'[r] = 1,
         UNCHANGED <<latest, recorded, size, mem, alone>>, TypeOK',
         OthersStay(r),
         reps'[r] \in Seq(recorded),
         Idle(r)', Header(r)', Private(r)', Position(r)', FirstKept(r)',
         AloneNext(r)
  PROVE  FleetInv'
<1>1. Recorded  BY DEF FleetInv
<1>2. \A x \in Readers : reps'[x] \in Seq(recorded)
  <2>1. ASSUME NEW x \in Readers, x # r PROVE reps'[x] \in Seq(recorded)
    <3>1. reps'[x] = reps[x]  BY <2>1 DEF OthersStay, Unmoved
    <3> QED BY <1>1, <3>1 DEF Recorded
  <2> QED BY <2>1
<1>3. StoredIntact' /\ Recorded'  BY <1>2, StoreKept, Zenon
<1>4. AloneKept(r)'
  <2>1. alone[r] => \A x \in Readers \ {r} : pc[x] = "idle"  BY AloneFacts, Zenon
  <2>2. alone[r] => \A x \in Readers \ {r} : pc'[x] = "idle"  BY <2>1, Zenon DEF OthersStay, Unmoved
  <2>3. from'[r] - 1 = 0  OBVIOUS
  <2>4. \A i \in 1..0 : FALSE  OBVIOUS
  <2>5. mem' = mem /\ alone' = alone  OBVIOUS
  <2> QED BY <2>2, <2>3, <2>4, <2>5, Zenon DEF AloneKept, AloneNext
<1>5. size' = size /\ alone' = alone  OBVIOUS
<1> QED BY <1>3, <1>4, <1>5, AssembleOn, Zenon

LEMMA GrowStartKeeps ==
  ASSUME FleetInv, NEW r \in Readers, GrowStart(r)
  PROVE  FleetInv'
<1>1. /\ pc[r] = "merge" /\ at[r] <= Len(reps[r]) /\ at[r] > 1 /\ slice[r].arr # NoScan /\ ~Fits(r)
      /\ pc' = [pc EXCEPT ![r] = "grow"]
      /\ UNCHANGED <<latest, recorded, size, mem, alone>>
      /\ UNCHANGED <<reps, at, slice, own, from, out>>
  BY DEF GrowStart, Merging, request
<1>2. TypeOK /\ Header(r) /\ Position(r) /\ FirstKept(r) /\ Recorded
  BY DEF FleetInv, Shape, Words1
<1>3. from[r] \in Nat /\ from[r] >= 1 /\ reps[r] \in Seq(recorded)  BY Facts
<1>4. from'[r] = 1
  <2>1. from[r] = 1  BY <1>1, NotCopying, Zenon
  <2> QED BY <1>1, <2>1
<1>5. pc'[r] = "grow" /\ pc' \in [Readers -> {"idle", "merge", "grow", "encode", "sent"}]
  BY <1>1, <1>2 DEF TypeOK
<1>6. TypeOK'  BY <1>1, <1>2, <1>5, Zenon DEF TypeOK, Room
<1>7. Merged(r)' = Merged(r)  BY <1>1, <1>5, Zenon DEF Merged
<1>8. SoFar(r)' = SoFar(r)  BY <1>1, <1>7 DEF SoFar
<1>9. Idle(r)'  BY <1>5 DEF Idle
<1>10. Header(r)'
  <2>1. Extent(slice[r].arr)' = Extent(slice[r].arr) /\ Room(slice[r].arr)' = Room(slice[r].arr)
    BY <1>1 DEF Extent, Room
  <2>2. reps'[r] = reps[r] /\ slice'[r] = slice[r] /\ own'[r] = own[r] /\ out'[r] = out[r] /\ pc[r] = "merge"
    BY <1>1
  <2> QED BY <1>2, <1>5, <1>7, <1>8, <2>1, <2>2, Zenon DEF Header
<1>11. Private(r)'  BY <1>1 DEF Private
<1>12. Position(r)'  BY <1>1, <1>2, <1>4, <1>5, Zenon DEF Position
<1>13. FirstKept(r)'  BY <1>1, <1>2, <1>5, Zenon DEF FirstKept, Extent
<1>14. pc[r] # "idle"  BY <1>1
<1>15. AloneNext(r)
  <2>1. slice'[r] = slice[r] /\ own'[r] = own[r] /\ out'[r] = out[r]  BY <1>1, Zenon
  <2>2. alone[r] => /\ slice[r].arr # NoScan => \A i \in 1..slice[r].len : mem[slice[r].arr][i] = SoFar(r)[i]
                    /\ \A i \in 1..Len(own[r]) : own[r][i] = SoFar(r)[i]
                    /\ \A i \in 1..Len(out[r]) : out[r][i] = SoFar(r)[i]
    BY <1>14, AloneFacts, Zenon
  <2> QED BY <1>8, <2>1, <2>2, Zenon DEF AloneNext
<1>16. OthersStay(r)
  BY <1>1, <1>2 DEF OthersStay, Unmoved, TypeOK
<1>17. reps'[r] \in Seq(recorded)  BY <1>1, <1>3
<1> QED
  BY <1>1, <1>4, <1>6, <1>9, <1>10, <1>11, <1>12, <1>13, <1>14, <1>15, <1>16, <1>17, AssembleLocal, Zenon

\* A word read from the shared array, appended to what the request has copied.
LEMMA CopiedWord ==
  ASSUME FleetInv, NEW r \in Readers, slice[r].arr # NoScan, NEW n \in Nat, n < slice[r].len
  PROVE  /\ mem[slice[r].arr][n + 1] \in Word
         /\ reps[r] # <<>>
         /\ n + 1 <= Extent(reps[r][1]) => mem[slice[r].arr][n + 1] = WordOf(reps[r][1], n + 1)
<1>1. TypeOK /\ Header(r) /\ StoredIntact  BY DEF FleetInv, Shape
<1>2. /\ slice[r].arr \in Scans /\ slice[r].len \in Nat /\ reps[r] \in Seq(recorded)
      /\ slice[r].arr = reps[r][1] /\ slice[r].len <= Room(slice[r].arr) /\ reps[r] # <<>>
  BY <1>1, Facts, Zenon DEF Header
<1>3. /\ Room(slice[r].arr) \in Nat
      /\ Extent(slice[r].arr) \in Nat
  BY <1>1, <1>2, Extents
<1>4. n + 1 \in 1..Room(slice[r].arr)  BY <1>2, <1>3
<1>5. mem[slice[r].arr][n + 1] \in Word  BY <1>1, <1>2, <1>4, Zenon DEF TypeOK
<1>6. reps[r][1] \in recorded  BY <1>2
<1>7. n + 1 <= Extent(reps[r][1]) => mem[reps[r][1]][n + 1] = WordOf(reps[r][1], n + 1)
  BY <1>1, <1>2, <1>3, <1>6 DEF StoredIntact
<1> QED BY <1>2, <1>5, <1>7

LEMMA GrowCopyKeeps ==
  ASSUME FleetInv, NEW r \in Readers, GrowCopy(r)
  PROVE  FleetInv'
<1> DEFINE n == Len(own[r])
           w == mem[slice[r].arr][n + 1]
<1>1. /\ pc[r] = "grow" /\ n < slice[r].len /\ own' = [own EXCEPT ![r] = Append(@, w)]
      /\ UNCHANGED <<latest, recorded, size, mem, alone>>
      /\ UNCHANGED <<pc, reps, at, slice, from, out>>
  BY DEF GrowCopy
<1>2. TypeOK /\ Header(r) /\ Private(r) /\ Position(r) /\ FirstKept(r) /\ Recorded
  BY Zenon DEF FleetInv, Shape, Words1
<1>3. /\ from[r] \in Nat /\ from[r] >= 1 /\ reps[r] \in Seq(recorded) /\ own[r] \in Seq(Word)
      /\ n \in Nat /\ slice[r].len \in Nat
  BY Facts
<1>4. from'[r] = 1
  <2>1. from[r] = 1  BY <1>1, NotCopying, Zenon
  <2> QED BY <1>1, <2>1
<1>5. slice[r].arr # NoScan  BY <1>1, <1>2, Zenon DEF Private
<1>6. w \in Word /\ reps[r] # <<>> /\ (n + 1 <= Extent(reps[r][1]) => w = WordOf(reps[r][1], n + 1))
  BY <1>1, <1>3, <1>5, CopiedWord, Zenon
<1> HIDE DEF w
<1>7. /\ own'[r] = Append(own[r], w) /\ own' \in [Readers -> Seq(Word)]
      /\ Len(own'[r]) = n + 1 /\ own'[r][n + 1] = w
      /\ \A i \in 1..n : own'[r][i] = own[r][i]
  <2>1. own'[r] = Append(own[r], w)  BY <1>1, <1>2 DEF TypeOK
  <2>2. own' \in [Readers -> Seq(Word)]  BY <1>1, <1>2, <1>6 DEF TypeOK
  <2> QED BY <1>3, <1>6, <2>1, <2>2
<1>8. TypeOK'  BY <1>1, <1>2, <1>7, Zenon DEF TypeOK, Room
<1>9. Merged(r)' = Merged(r) /\ SoFar(r)' = SoFar(r)  BY <1>1, Zenon DEF Merged, SoFar
<1>10. Idle(r)'  BY <1>1, Zenon DEF Idle
<1>11. Header(r)'
  <2>1. Len(own'[r]) <= slice[r].len
    <3>1. Len(own'[r]) = n + 1 /\ n < slice[r].len /\ n \in Nat /\ slice[r].len \in Nat  BY <1>1, <1>3, <1>7, Zenon
    <3> QED BY <3>1
  <2>2. Extent(slice[r].arr)' = Extent(slice[r].arr) /\ Room(slice[r].arr)' = Room(slice[r].arr)
    BY <1>1, Zenon DEF Extent, Room
  <2>3. pc'[r] = "grow" /\ reps'[r] = reps[r] /\ slice'[r] = slice[r] /\ out'[r] = out[r]  BY <1>1, Zenon
  <2> QED BY <1>2, <1>9, <2>1, <2>2, <2>3, Zenon DEF Header
<1>12. Private(r)'  BY <1>1, <1>5, Zenon DEF Private
<1>13. Position(r)'  BY <1>1, <1>2, <1>4, Zenon DEF Position
<1> HIDE DEF n
<1>14. FirstKept(r)'
  <2>1. \A i \in 1..Len(own'[r]) : i <= Extent(reps[r][1]) => own'[r][i] = WordOf(reps[r][1], i)
    <3> SUFFICES ASSUME NEW i \in 1..(n + 1), i <= Extent(reps[r][1])
                 PROVE  own'[r][i] = WordOf(reps[r][1], i)
      BY <1>7, Zenon
    <3>1. CASE i = n + 1  BY <1>6, <1>7, <3>1, Zenon
    <3>2. CASE i # n + 1
      <4>1. i \in 1..n  BY <1>3, <3>2
      <4> QED BY <1>2, <1>6, <1>7, <4>1, Zenon DEF FirstKept, n
    <3> QED BY <3>1, <3>2, Zenon
  <2> QED BY <1>1, <1>2, <2>1, Zenon DEF FirstKept, Extent
<1>15. pc[r] # "idle"  BY <1>1
<1>16. AloneNext(r)
  <2> SUFFICES ASSUME alone[r]
               PROVE  /\ \A i \in 1..slice[r].len : mem[slice[r].arr][i] = SoFar(r)[i]
                      /\ \A i \in 1..Len(own'[r]) : own'[r][i] = SoFar(r)[i]
                      /\ \A i \in 1..Len(out[r]) : out[r][i] = SoFar(r)[i]
    BY <1>1, <1>9, Zenon DEF AloneNext
  <2>1. /\ \A i \in 1..slice[r].len : mem[slice[r].arr][i] = SoFar(r)[i]
        /\ \A i \in 1..Len(own[r]) : own[r][i] = SoFar(r)[i]
        /\ \A i \in 1..Len(out[r]) : out[r][i] = SoFar(r)[i]
    BY <1>5, <1>15, AloneFacts, Zenon
  <2>2. ASSUME NEW i \in 1..(n + 1) PROVE own'[r][i] = SoFar(r)[i]
    <3>1. CASE i = n + 1
      <4>1. i \in 1..slice[r].len
        <5>1. n \in Nat /\ slice[r].len \in Nat /\ n < slice[r].len  BY <1>1, <1>3, Zenon
        <5> QED BY <3>1, <5>1
      <4> QED BY <1>7, <2>1, <3>1, <4>1, Zenon DEF w
    <3>2. CASE i # n + 1
      <4>1. i \in 1..n  BY <1>3, <3>2
      <4> QED BY <1>7, <2>1, <4>1 DEF n
    <3> QED BY <3>1, <3>2
  <2> QED BY <1>7, <2>1, <2>2, Zenon
<1>17. OthersStay(r)
  BY <1>1, <1>2 DEF OthersStay, Unmoved, TypeOK
<1>18. reps'[r] \in Seq(recorded)  BY <1>1, <1>3
<1> QED
  BY <1>1, <1>4, <1>8, <1>10, <1>11, <1>12, <1>13, <1>14, <1>15, <1>16, <1>17, <1>18, AssembleLocal, Zenon

LEMMA GrowDoneKeeps ==
  ASSUME FleetInv, NEW r \in Readers, GrowDone(r)
  PROVE  FleetInv'
<1>1. /\ pc[r] = "grow" /\ Len(own[r]) = slice[r].len
      /\ slice' = [slice EXCEPT ![r] = NoSlice] /\ pc' = [pc EXCEPT ![r] = "merge"]
      /\ UNCHANGED <<latest, recorded, size, mem, alone>>
      /\ UNCHANGED <<reps, at, own, from, out>>
  BY DEF GrowDone
<1>2. TypeOK /\ Header(r) /\ Private(r) /\ Position(r) /\ FirstKept(r) /\ Recorded
  BY DEF FleetInv, Shape, Words1
<1>3. /\ from[r] \in Nat /\ from[r] >= 1 /\ reps[r] \in Seq(recorded)
      /\ own[r] \in Seq(Word) /\ at[r] \in Nat
  BY Facts
<1>4. from'[r] = 1
  <2>1. from[r] = 1  BY <1>1, NotCopying, Zenon
  <2> QED BY <1>1, <2>1
<1>5. slice[r].arr # NoScan  BY <1>1, <1>2 DEF Private
<1>6. pc'[r] = "merge" /\ pc' \in [Readers -> {"idle", "merge", "grow", "encode", "sent"}]
      /\ slice'[r] = NoSlice /\ slice' \in [Readers -> Slice]
  BY <1>1, <1>2 DEF TypeOK, NoSlice, Slice
<1>7. TypeOK'  BY <1>1, <1>2, <1>6, Zenon DEF TypeOK, Room
<1>8. Merged(r)' = Merged(r)  BY <1>1, <1>6 DEF Merged
<1>9. SoFar(r)' = SoFar(r)  BY <1>1, <1>8, Zenon DEF SoFar
<1>10. slice'[r].arr = NoScan /\ slice'[r].len = 0  BY <1>6 DEF NoSlice
<1>11. Idle(r)' /\ Header(r)'  BY <1>6, <1>10, Zenon DEF Idle, Header
<1>12. Private(r)'
  <2>1. Len(own[r]) = Len(SoFar(r)) /\ Extent(reps[r][1]) <= Len(own[r])
    BY <1>1, <1>2, <1>5, Zenon DEF Header
  <2>2. out[r] = <<>>  BY <1>1, <1>2, Zenon DEF Position
  <2> QED BY <1>1, <1>6, <1>9, <1>10, <2>1, <2>2 DEF Private, Extent
<1>13. Position(r)'  BY <1>1, <1>2, <1>3, <1>4, <1>6, <1>10, Zenon DEF Position
<1>14. FirstKept(r)'  BY <1>1, <1>2, <1>6, Zenon DEF FirstKept, Extent
<1>15. pc[r] # "idle"  BY <1>1
<1>16. AloneNext(r)
  <2>1. own'[r] = own[r] /\ out'[r] = out[r]  BY <1>1
  <2>2. alone[r] => /\ \A i \in 1..Len(own[r]) : own[r][i] = SoFar(r)[i]
                    /\ \A i \in 1..Len(out[r]) : out[r][i] = SoFar(r)[i]
    BY <1>15, AloneFacts, Zenon
  <2> QED BY <1>9, <1>10, <2>1, <2>2, Zenon DEF AloneNext
<1>17. OthersStay(r)
  BY <1>1, <1>2 DEF OthersStay, Unmoved, TypeOK
<1>18. reps'[r] \in Seq(recorded)  BY <1>1, <1>3
<1> QED
  BY <1>1, <1>4, <1>7, <1>11, <1>12, <1>13, <1>14, <1>15, <1>16, <1>17, <1>18, AssembleLocal, Zenon

LEMMA AppendOwnKeeps ==
  ASSUME FleetInv, NEW r \in Readers, AppendOwn(r)
  PROVE  FleetInv'
<1> PICK k, n : k = Current(r) /\ n = at[r] - 1
  BY Zenon
<1> DEFINE new == [i \in 1..Extent(k) |-> mem[k][i]]
<1>1. /\ pc[r] = "merge" /\ at[r] <= Len(reps[r]) /\ at[r] > 1 /\ slice[r].arr = NoScan
      /\ own' = [own EXCEPT ![r] = @ \o new] /\ at' = [at EXCEPT ![r] = @ + 1]
      /\ UNCHANGED <<latest, recorded, size, mem, alone>>
      /\ UNCHANGED <<pc, reps, slice, from, out>>
  BY DEF AppendOwn, Merging
<1>2. TypeOK /\ Private(r) /\ Position(r) /\ FirstKept(r) /\ Recorded /\ StoredIntact
  BY DEF FleetInv, Shape, Words1
<1>3. /\ from[r] \in Nat /\ from[r] >= 1 /\ reps[r] \in Seq(recorded) /\ reps[r] \in Seq(Scans)
      /\ own[r] \in Seq(Word) /\ at[r] \in Nat /\ SoFar(r) \in Seq(Word) /\ recorded \subseteq Scans
  BY Facts
<1>4. from'[r] = 1 /\ out[r] = <<>>
  <2>1. from[r] = 1
    <3>1. ~Fits(r)  BY <1>1 DEF Fits
    <3> QED BY <3>1, NotCopying, Zenon
  <2>2. out[r] = <<>>  BY <1>1, <1>2, Zenon DEF Position
  <2> QED BY <1>1, <2>1, <2>2
<1>5. /\ k \in Scans /\ k \in recorded /\ k = reps[r][n + 1] /\ n \in Nat /\ n < Len(reps[r])
      /\ n + 1 = at[r] /\ n >= 1 /\ reps[r] # <<>> /\ reps[r][1] \in Scans
  BY <1>1, <1>3 DEF Current
<1>6. PICK e \in Nat : e = Extent(k)  BY <1>2, <1>5, Extents, Zenon
<1>7. /\ new \in Seq(Word) /\ Len(new) = e /\ \A i \in 1..e : new[i] = WordOf(k, i)
  <2>1. \A i \in 1..e : mem[k][i] = WordOf(k, i) /\ WordOf(k, i) \in Word
    <3>1. \A i \in 1..e : mem[k][i] = WordOf(k, i)  BY <1>2, <1>5, <1>6, Zenon DEF StoredIntact
    <3>2. k \in Scans  BY <1>5
    <3>3. \A i \in 1..e : WordOf(k, i) \in Word  BY <3>2 DEF WordOf, Word
    <3> QED BY <3>1, <3>3, Zenon
  <2>2. new \in [1..e -> Word]  BY <1>6, <2>1
  <2> QED BY <1>6, <2>1, <2>2
<1> HIDE DEF new
<1>8. PICK s \in Seq(Word) : s = own[r]  BY <1>3
<1>9. /\ own'[r] = s \o new /\ own' \in [Readers -> Seq(Word)] /\ at'[r] = at[r] + 1
      /\ Len(own'[r]) = Len(s) + e
      /\ \A i \in 1..Len(s) : own'[r][i] = s[i]
      /\ \A i \in 1..e : own'[r][Len(s) + i] = WordOf(k, i)
  <2>1. own'[r] = s \o new /\ at'[r] = at[r] + 1  BY <1>1, <1>2, <1>8, Zenon DEF TypeOK
  <2>2. s \o new \in Seq(Word)  BY <1>7
  <2>3. own' \in [Readers -> Seq(Word)]  BY <1>1, <1>2, <1>8, <2>2 DEF TypeOK
  <2>4. PICK u \in Seq(Word) : u = new  BY <1>7
  <2>5. /\ Len(s \o u) = Len(s) + Len(u)
        /\ \A i \in 1..Len(s) : (s \o u)[i] = s[i]
        /\ \A i \in 1..Len(u) : (s \o u)[Len(s) + i] = u[i]
    OBVIOUS
  <2> QED BY <1>7, <2>1, <2>3, <2>4, <2>5, Zenon
<1>10. TypeOK'
  <2>1. at' \in [Readers -> Nat]  BY <1>1, <1>2 DEF TypeOK
  <2> QED BY <1>1, <1>2, <1>9, <2>1, Zenon DEF TypeOK, Room
<1>11. Merged(r) = n /\ SoFar(r) = Joined(size, reps[r], n)  BY <1>1 DEF Merged, SoFar
<1>12. Merged(r)' = n + 1
  <2>1. Merged(r)' = at'[r] - 1  BY <1>1, Zenon DEF Merged
  <2>2. at[r] \in Nat /\ n \in Nat /\ n + 1 = at[r] /\ at'[r] = at[r] + 1  BY <1>3, <1>5, <1>9, Zenon
  <2> QED BY <2>1, <2>2
<1>13. SoFar(r)' = Joined(size, reps[r], n + 1)  BY <1>1, <1>12 DEF SoFar
<1>14. /\ SoFar(r)' \in Seq(Word) /\ Len(SoFar(r)') = Len(SoFar(r)) + e
       /\ \A i \in 1..Len(SoFar(r)) : SoFar(r)'[i] = SoFar(r)[i]
       /\ \A i \in 1..e : SoFar(r)'[Len(SoFar(r)) + i] = WordOf(k, i)
  <2>1. Continues(SoFar(r), SoFar(r)', k, Extent(k))  BY <1>2, <1>3, <1>5, <1>11, <1>13, SoFarNext, Zenon
  <2> QED BY <1>6, <2>1, Zenon DEF Continues
<1>15. Len(s) = Len(SoFar(r)) /\ Extent(reps[r][1]) <= Len(s) /\ Extent(reps[r][1]) \in Nat
  BY <1>1, <1>2, <1>5, <1>8, <1>11, Extents, Zenon DEF Private
<1>16. Idle(r)' /\ Header(r)'
  <2>1. pc'[r] = "merge" /\ slice'[r].arr = NoScan  BY <1>1, Zenon
  <2> QED BY <2>1 DEF Idle, Header
<1>17. Private(r)'
  <2>1. Len(own'[r]) = Len(SoFar(r)') /\ Extent(reps[r][1]) <= Len(own'[r])
    <3>1. Len(own'[r]) = Len(s) + e /\ Len(SoFar(r)') = Len(s) + e  BY <1>9, <1>14, <1>15, Zenon
    <3>2. Len(s) \in Nat  OBVIOUS
    <3>3. Extent(reps[r][1]) <= Len(s) /\ Extent(reps[r][1]) \in Nat  BY <1>15, Zenon
    <3> QED BY <3>1, <3>2, <3>3
  <2> QED BY <1>1, <1>2, <1>4, <2>1 DEF Private, Extent
<1>18. Position(r)'
  <2>1. at'[r] >= 1 /\ at'[r] > 1 /\ at'[r] # 1 /\ at'[r] <= Len(reps[r]) + 1 /\ from'[r] >= 1 /\ ~(from'[r] > 1)
    <3>1. at[r] \in Nat /\ Len(reps[r]) \in Nat /\ at[r] > 1 /\ at[r] <= Len(reps[r]) /\ at'[r] = at[r] + 1
          /\ from'[r] = 1
      <4>1. PICK q \in Seq(Scans) : q = reps[r]  BY <1>3, Zenon
      <4>2. Len(q) \in Nat  OBVIOUS
      <4> QED BY <1>1, <1>3, <1>4, <1>9, <4>1, <4>2, Zenon
    <3> QED BY <3>1
  <2>2. pc'[r] = "merge" /\ reps'[r] = reps[r] /\ out'[r] = <<>>  BY <1>1, <1>4
  <2> QED BY <2>1, <2>2, Zenon DEF Position
<1>19. FirstKept(r)'
  <2>1. \A i \in 1..Len(own'[r]) : i <= Extent(reps[r][1]) => own'[r][i] = WordOf(reps[r][1], i)
    <3> SUFFICES ASSUME NEW i \in 1..Len(own'[r]), i <= Extent(reps[r][1])
                 PROVE  own'[r][i] = WordOf(reps[r][1], i)
      OBVIOUS
    <3>1. i \in 1..Len(s)
      <4>1. Extent(reps[r][1]) <= Len(s) /\ Extent(reps[r][1]) \in Nat  BY <1>15, Zenon
      <4>2. Len(s) \in Nat  OBVIOUS
      <4> QED BY <4>1, <4>2
    <3> QED BY <1>2, <1>5, <1>8, <1>9, <3>1, Zenon DEF FirstKept
  <2> QED BY <1>1, <1>2, <1>4, <2>1, Zenon DEF FirstKept, Extent
<1>20. pc[r] # "idle"  BY <1>1, Zenon
<1>21. AloneNext(r)
  <2> SUFFICES ASSUME alone[r], NEW i \in 1..Len(own'[r])
               PROVE  own'[r][i] = SoFar(r)'[i]
    <3>1. slice'[r].arr = NoScan /\ Len(out'[r]) = 0  BY <1>1, <1>4, Zenon
    <3>2. \A i \in 1..0 : FALSE  OBVIOUS
    <3> QED BY <3>1, <3>2, Zenon DEF AloneNext
  <2>1. \A j \in 1..Len(own[r]) : own[r][j] = SoFar(r)[j]  BY <1>20, AloneFacts, Zenon
  <2>2. CASE i <= Len(s)
    <3>1. i \in 1..Len(s)  BY <2>2
    <3> QED BY <1>8, <1>9, <1>14, <1>15, <2>1, <3>1, Zenon
  <2>3. CASE i > Len(s)
    <3>1. PICK j \in 1..e : i = Len(s) + j
      <4>1. i - Len(s) \in 1..e /\ i = Len(s) + (i - Len(s))  BY <1>9, <2>3
      <4> QED BY <4>1, Zenon
    <3> QED BY <1>9, <1>14, <1>15, <3>1, Zenon
  <2> QED BY <1>9, <2>2, <2>3
<1>22. OthersStay(r)
  BY <1>1, <1>2, Zenon DEF OthersStay, Unmoved, TypeOK
<1>23. reps'[r] \in Seq(recorded)  BY <1>1, <1>3
<1> QED
  BY <1>1, <1>4, <1>10, <1>16, <1>17, <1>18, <1>19, <1>20, <1>21, <1>22, <1>23, AssembleLocal, Zenon

LEMMA UnlockKeeps ==
  ASSUME FleetInv, NEW r \in Readers, Unlock(r)
  PROVE  FleetInv'
<1>1. /\ pc[r] = "merge" /\ at[r] > Len(reps[r]) /\ pc' = [pc EXCEPT ![r] = "encode"]
      /\ UNCHANGED <<latest, recorded, size, mem, alone>>
      /\ UNCHANGED <<reps, at, slice, own, from, out>>
  BY DEF Unlock, request
<1>2. TypeOK /\ Header(r) /\ Private(r) /\ Position(r) /\ FirstKept(r) /\ Recorded
  BY DEF FleetInv, Shape, Words1
<1>3. from[r] \in Nat /\ from[r] >= 1 /\ reps[r] \in Seq(recorded) /\ at[r] \in Nat  BY Facts
<1>4. from'[r] = 1 /\ out[r] = <<>> /\ at[r] = Len(reps[r]) + 1
  <2>1. from[r] = 1
    <3>1. ~(at[r] <= Len(reps[r]))  BY <1>1, <1>3
    <3> QED BY <3>1, NotCopying, Zenon
  <2>2. out[r] = <<>> /\ at[r] <= Len(reps[r]) + 1  BY <1>1, <1>2, Zenon DEF Position
  <2>3. Len(reps[r]) \in Nat  BY <1>3
  <2> QED BY <1>1, <1>3, <2>1, <2>2, <2>3
<1>5. pc'[r] = "encode" /\ pc' \in [Readers -> {"idle", "merge", "grow", "encode", "sent"}]
  BY <1>1, <1>2 DEF TypeOK
<1>6. TypeOK'  BY <1>1, <1>2, <1>5, Zenon DEF TypeOK, Room
<1>7. Merged(r)' = Merged(r)
  <2>1. Merged(r)' = Len(reps[r]) /\ Merged(r) = at[r] - 1  BY <1>1, <1>5, Zenon DEF Merged
  <2>2. Len(reps[r]) \in Nat  BY <1>3
  <2> QED BY <1>4, <2>1, <2>2
<1>8. SoFar(r)' = SoFar(r)  BY <1>1, <1>7 DEF SoFar
<1>9. Idle(r)'  BY <1>5 DEF Idle
<1>10. Header(r)'
  <2>1. Extent(slice[r].arr)' = Extent(slice[r].arr) /\ Room(slice[r].arr)' = Room(slice[r].arr)
    BY <1>1 DEF Extent, Room
  <2>2. reps'[r] = reps[r] /\ slice'[r] = slice[r] /\ own'[r] = own[r] /\ out'[r] = out[r] /\ pc[r] = "merge"
    BY <1>1
  <2> QED BY <1>2, <1>5, <1>7, <1>8, <2>1, <2>2, Zenon DEF Header
<1>11. Private(r)'  BY <1>1, <1>2, <1>5, <1>7, <1>8, Zenon DEF Private, Extent
<1>12. Position(r)'
  <2>1. ~(from'[r] > 1) /\ from'[r] >= 1  BY <1>4
  <2>2. reps'[r] = reps[r] /\ at'[r] = at[r]  BY <1>1
  <2> QED BY <1>2, <1>5, <2>1, <2>2, Zenon DEF Position
<1>13. FirstKept(r)'  BY <1>1, <1>2, <1>5, Zenon DEF FirstKept, Extent
<1>14. pc[r] # "idle"  BY <1>1
<1>15. AloneNext(r)
  <2>1. slice'[r] = slice[r] /\ own'[r] = own[r] /\ out'[r] = out[r]  BY <1>1, Zenon
  <2>2. alone[r] => /\ slice[r].arr # NoScan => \A i \in 1..slice[r].len : mem[slice[r].arr][i] = SoFar(r)[i]
                    /\ \A i \in 1..Len(own[r]) : own[r][i] = SoFar(r)[i]
                    /\ \A i \in 1..Len(out[r]) : out[r][i] = SoFar(r)[i]
    BY <1>14, AloneFacts, Zenon
  <2> QED BY <1>8, <2>1, <2>2, Zenon DEF AloneNext
<1>16. OthersStay(r)
  BY <1>1, <1>2 DEF OthersStay, Unmoved, TypeOK
<1>17. reps'[r] \in Seq(recorded)  BY <1>1, <1>3
<1> QED
  BY <1>1, <1>4, <1>6, <1>9, <1>10, <1>11, <1>12, <1>13, <1>14, <1>15, <1>16, <1>17, AssembleLocal, Zenon

LEMMA EncodeSharedKeeps ==
  ASSUME FleetInv, NEW r \in Readers, EncodeShared(r)
  PROVE  FleetInv'
<1> DEFINE n == Len(out[r])
           w == mem[slice[r].arr][n + 1]
<1>1. /\ pc[r] = "encode" /\ slice[r].arr # NoScan /\ n < slice[r].len
      /\ out' = [out EXCEPT ![r] = Append(@, w)]
      /\ UNCHANGED <<latest, recorded, size, mem, alone>>
      /\ UNCHANGED <<pc, reps, at, slice, own, from>>
  BY DEF EncodeShared
<1>2. TypeOK /\ Header(r) /\ Private(r) /\ Position(r) /\ FirstKept(r) /\ Recorded
  BY DEF FleetInv, Shape, Words1
<1>3. /\ from[r] \in Nat /\ from[r] >= 1 /\ reps[r] \in Seq(recorded) /\ out[r] \in Seq(Word)
      /\ n \in Nat /\ slice[r].len \in Nat
  BY Facts
<1>4. from'[r] = 1
  <2>1. from[r] = 1  BY <1>1, NotCopying, Zenon
  <2> QED BY <1>1, <2>1
<1>5. w \in Word /\ reps[r] # <<>> /\ (n + 1 <= Extent(reps[r][1]) => w = WordOf(reps[r][1], n + 1))
  BY <1>1, <1>3, CopiedWord, Zenon
<1> HIDE DEF w
<1>6. /\ out'[r] = Append(out[r], w) /\ out' \in [Readers -> Seq(Word)]
      /\ Len(out'[r]) = n + 1 /\ out'[r][n + 1] = w
      /\ \A i \in 1..n : out'[r][i] = out[r][i]
  <2>1. out'[r] = Append(out[r], w)  BY <1>1, <1>2 DEF TypeOK
  <2>2. out' \in [Readers -> Seq(Word)]  BY <1>1, <1>2, <1>5 DEF TypeOK
  <2> QED BY <1>3, <1>5, <2>1, <2>2
<1>7. TypeOK'  BY <1>1, <1>2, <1>6, Zenon DEF TypeOK, Room
<1>8. Merged(r)' = Merged(r) /\ SoFar(r)' = SoFar(r)  BY <1>1, Zenon DEF Merged, SoFar
<1>9. Idle(r)'  BY <1>1 DEF Idle
<1>10. Header(r)'
  <2>1. Len(out'[r]) <= slice[r].len  BY <1>1, <1>3, <1>6
  <2>2. Extent(slice[r].arr)' = Extent(slice[r].arr) /\ Room(slice[r].arr)' = Room(slice[r].arr)
    BY <1>1 DEF Extent, Room
  <2>3. pc'[r] = pc[r] /\ reps'[r] = reps[r] /\ slice'[r] = slice[r] /\ own'[r] = own[r]  BY <1>1
  <2> QED BY <1>2, <1>8, <2>1, <2>2, <2>3, Zenon DEF Header
<1>11. Private(r)'  BY <1>1 DEF Private
<1>12. Position(r)'  BY <1>1, <1>2, <1>4, Zenon DEF Position
<1> HIDE DEF n
<1>13. FirstKept(r)'
  <2>1. \A i \in 1..Len(out'[r]) : i <= Extent(reps[r][1]) => out'[r][i] = WordOf(reps[r][1], i)
    <3> SUFFICES ASSUME NEW i \in 1..(n + 1), i <= Extent(reps[r][1])
                 PROVE  out'[r][i] = WordOf(reps[r][1], i)
      BY <1>6
    <3>1. CASE i = n + 1  BY <1>5, <1>6, <3>1
    <3>2. CASE i # n + 1
      <4>1. i \in 1..n  BY <1>3, <3>2
      <4> QED BY <1>2, <1>5, <1>6, <4>1, Zenon DEF FirstKept, n
    <3> QED BY <3>1, <3>2
  <2> QED BY <1>1, <1>2, <2>1, Zenon DEF FirstKept, Extent
<1>14. pc[r] # "idle"  BY <1>1, Zenon
<1>15. AloneNext(r)
  <2> SUFFICES ASSUME alone[r]
               PROVE  /\ \A i \in 1..slice[r].len : mem[slice[r].arr][i] = SoFar(r)[i]
                      /\ \A i \in 1..Len(own[r]) : own[r][i] = SoFar(r)[i]
                      /\ \A i \in 1..Len(out'[r]) : out'[r][i] = SoFar(r)[i]
    BY <1>1, <1>8, Zenon DEF AloneNext
  <2>1. /\ \A i \in 1..slice[r].len : mem[slice[r].arr][i] = SoFar(r)[i]
        /\ \A i \in 1..Len(own[r]) : own[r][i] = SoFar(r)[i]
        /\ \A i \in 1..Len(out[r]) : out[r][i] = SoFar(r)[i]
    BY <1>1, <1>14, AloneFacts, Zenon
  <2>2. ASSUME NEW i \in 1..(n + 1) PROVE out'[r][i] = SoFar(r)[i]
    <3>1. CASE i = n + 1
      <4>1. i \in 1..slice[r].len
        <5>1. n \in Nat /\ slice[r].len \in Nat /\ n < slice[r].len  BY <1>1, <1>3, Zenon
        <5> QED BY <3>1, <5>1
      <4> QED BY <1>6, <2>1, <3>1, <4>1, Zenon DEF w
    <3>2. CASE i # n + 1
      <4>1. i \in 1..n  BY <1>3, <3>2
      <4> QED BY <1>6, <2>1, <4>1, Zenon DEF n
    <3> QED BY <3>1, <3>2
  <2> QED BY <1>6, <2>1, <2>2, Zenon
<1>16. OthersStay(r)
  BY <1>1, <1>2, Zenon DEF OthersStay, Unmoved, TypeOK
<1>17. reps'[r] \in Seq(recorded)  BY <1>1, <1>3
<1> QED
  BY <1>1, <1>4, <1>7, <1>9, <1>10, <1>11, <1>12, <1>13, <1>14, <1>15, <1>16, <1>17, AssembleLocal, Zenon

LEMMA EncodeDoneKeeps ==
  ASSUME FleetInv, NEW r \in Readers, EncodeDone(r)
  PROVE  FleetInv'
<1>1. /\ pc[r] = "encode" /\ (slice[r].arr # NoScan => Len(out[r]) = slice[r].len)
      /\ out' = [out EXCEPT ![r] = IF slice[r].arr = NoScan THEN own[r] ELSE @]
      /\ pc' = [pc EXCEPT ![r] = "sent"]
      /\ UNCHANGED <<latest, recorded, size, mem, alone>>
      /\ UNCHANGED <<reps, at, slice, own, from>>
  BY Zenon DEF EncodeDone
<1>2. TypeOK /\ Header(r) /\ Private(r) /\ Position(r) /\ FirstKept(r) /\ Recorded
  BY DEF FleetInv, Shape, Words1
<1>3. /\ from[r] \in Nat /\ from[r] >= 1 /\ reps[r] \in Seq(recorded)
      /\ out[r] \in Seq(Word) /\ own[r] \in Seq(Word) /\ slice[r].len \in Nat
  BY Facts, Zenon
<1>4. from'[r] = 1
  <2>1. from[r] = 1  BY <1>1, NotCopying, Zenon
  <2> QED BY <1>1, <2>1
<1>5. pc'[r] = "sent" /\ pc' \in [Readers -> {"idle", "merge", "grow", "encode", "sent"}]
  BY <1>1, <1>2, Zenon DEF TypeOK
<1>6. /\ out'[r] = IF slice[r].arr = NoScan THEN own[r] ELSE out[r]
      /\ out' \in [Readers -> Seq(Word)]
  BY <1>1, <1>2 DEF TypeOK
<1>7. TypeOK'  BY <1>1, <1>2, <1>5, <1>6, Zenon DEF TypeOK, Room
<1>8. Merged(r)' = Merged(r) /\ Merged(r) = Len(reps[r])  BY <1>1, <1>5, Zenon DEF Merged
<1>9. SoFar(r)' = SoFar(r)  BY <1>1, <1>8, Zenon DEF SoFar
<1>10. Idle(r)'  BY <1>5 DEF Idle
<1>11. Header(r)'  BY <1>1, <1>2, <1>5, <1>6, <1>8, <1>9, Zenon DEF Header, Extent, Room
<1>12. Private(r)'  BY <1>1, <1>2, <1>5, <1>8, <1>9, Zenon DEF Private, Extent
<1>13. Position(r)'
  <2>1. Len(out'[r]) = Len(SoFar(r))  BY <1>1, <1>2, <1>6, Zenon DEF Header, Private
  <2> QED BY <1>1, <1>2, <1>4, <1>5, <1>9, <2>1, Zenon DEF Position
<1>14. FirstKept(r)'
  <2>1. reps[r] # <<>> => Merged(r) >= 1
    <3>1. reps[r] \in Seq(recorded) /\ Merged(r) = Len(reps[r])  BY <1>3, <1>8, Zenon
    <3> QED BY <3>1
  <2>2. reps[r] # <<>> => Extent(reps[r][1]) <= Len(out'[r])
    <3>1. CASE slice[r].arr = NoScan
      <4>1. (Merged(r) >= 1 => Extent(reps[r][1]) <= Len(own[r])) /\ out'[r] = own[r]
        BY <1>2, <1>6, <3>1, Zenon DEF Private
      <4> QED BY <2>1, <4>1, Zenon
    <3>2. CASE slice[r].arr # NoScan
      <4>1. slice[r].arr = reps[r][1] /\ Extent(slice[r].arr) <= slice[r].len /\ out'[r] = out[r]
        BY <1>2, <1>6, <3>2, Zenon DEF Header
      <4>2. Len(out[r]) = slice[r].len  BY <1>1, <3>2, Zenon
      <4> QED BY <4>1, <4>2, Zenon
    <3> QED BY <3>1, <3>2, Zenon
  <2>3. reps[r] # <<>> =>
          \A i \in 1..Len(out'[r]) : i <= Extent(reps[r][1]) => out'[r][i] = WordOf(reps[r][1], i)
    BY <1>2, <1>6, Zenon DEF FirstKept
  <2> QED BY <1>1, <1>2, <2>2, <2>3, Zenon DEF FirstKept, Extent
<1>15. pc[r] # "idle"  BY <1>1
<1>16. AloneNext(r)
  <2>1. own'[r] = own[r] /\ slice'[r] = slice[r]  BY <1>1
  <2>2. alone[r] => /\ slice[r].arr # NoScan => \A i \in 1..slice[r].len : mem[slice[r].arr][i] = SoFar(r)[i]
                    /\ \A i \in 1..Len(own[r]) : own[r][i] = SoFar(r)[i]
                    /\ \A i \in 1..Len(out[r]) : out[r][i] = SoFar(r)[i]
    BY <1>15, AloneFacts, Zenon
  <2>3. out'[r] = own[r] \/ out'[r] = out[r]  BY <1>6, Zenon
  <2> QED BY <1>9, <2>1, <2>2, <2>3, Zenon DEF AloneNext
<1>17. OthersStay(r)
  BY <1>1, <1>2, Zenon DEF OthersStay, Unmoved, TypeOK
<1>18. reps'[r] \in Seq(recorded)  BY <1>1, <1>3
<1> QED
  BY <1>1, <1>4, <1>7, <1>10, <1>11, <1>12, <1>13, <1>14, <1>15, <1>16, <1>17, <1>18, AssembleLocal, Zenon

LEMMA FinishKeeps ==
  ASSUME FleetInv, NEW r \in Readers, Finish(r)
  PROVE  FleetInv'
<1>1. /\ pc[r] = "sent" /\ pc' = [pc EXCEPT ![r] = "idle"]
      /\ reps' = [reps EXCEPT ![r] = <<>>] /\ at' = [at EXCEPT ![r] = 1]
      /\ slice' = [slice EXCEPT ![r] = NoSlice] /\ own' = [own EXCEPT ![r] = <<>>]
      /\ from' = [from EXCEPT ![r] = 1] /\ out' = [out EXCEPT ![r] = <<>>]
      /\ UNCHANGED <<latest, recorded, size, mem, alone>>
  BY DEF Finish
<1>2. TypeOK  BY DEF FleetInv
<1>3. /\ pc'[r] = "idle" /\ reps'[r] = <<>> /\ at'[r] = 1 /\ slice'[r] = NoSlice
      /\ own'[r] = <<>> /\ from'[r] = 1 /\ out'[r] = <<>>
  BY <1>1, <1>2 DEF TypeOK
<1>4. TypeOK'
  <2>1. /\ pc' \in [Readers -> {"idle", "merge", "grow", "encode", "sent"}]
        /\ reps' \in [Readers -> Seq(Scans)]
        /\ at' \in [Readers -> Nat] /\ from' \in [Readers -> Nat]
        /\ own' \in [Readers -> Seq(Word)] /\ out' \in [Readers -> Seq(Word)]
    BY <1>1, <1>2 DEF TypeOK
  <2>2. slice' \in [Readers -> Slice]  BY <1>1, <1>2, Zenon DEF TypeOK, NoSlice, Slice
  <2> QED BY <1>1, <1>2, <2>1, <2>2, Zenon DEF TypeOK, Room
<1>5. Merged(r)' = 0  BY <1>3, Zenon DEF Merged
<1>6. SoFar(r)' = <<>>  BY <1>5, JoinedZero DEF SoFar
<1>7. Idle(r)' /\ Header(r)'  BY <1>3 DEF Idle, Header, NoSlice
<1>8. Private(r)'  BY <1>3, <1>5, <1>6 DEF Private, NoSlice
<1>9. Position(r)'  BY <1>3 DEF Position
<1>10. FirstKept(r)'  BY <1>3 DEF FirstKept
<1>11. pc[r] # "idle"  BY <1>1
<1>12. AloneNext(r)
  <2>1. slice'[r].arr = NoScan /\ Len(own'[r]) = 0 /\ Len(out'[r]) = 0  BY <1>3 DEF NoSlice
  <2>2. \A i \in 1..0 : FALSE  OBVIOUS
  <2> QED BY <2>1, <2>2, Zenon DEF AloneNext
<1>13. OthersStay(r)
  BY <1>1, <1>2 DEF OthersStay, Unmoved, TypeOK
<1>14. reps'[r] \in Seq(recorded)  BY <1>3
<1> QED
  BY <1>1, <1>3, <1>4, <1>7, <1>8, <1>9, <1>10, <1>11, <1>12, <1>13, <1>14, AssembleLocal, Zenon

\* A scan is recorded under an id of its own, while nobody merges: what the requests in
\* flight refer to stays as it is.
LEMMA RecordScanKeeps ==
  ASSUME FleetInv, NEW c \in Clusters, NEW k \in Scans, NEW n \in 0..MaxBreaches, RecordScan(c, k, n)
  PROVE  FleetInv'
<1> DEFINE new == [i \in 1..(Cap[n] * Words) |-> IF i <= n * Words THEN WordOf(k, i) ELSE Zero]
<1>1. /\ \A r \in Readers : pc[r] \notin {"merge", "grow"}
      /\ k \notin recorded /\ recorded' = recorded \cup {k}
      /\ latest' = [latest EXCEPT ![c] = k] /\ size' = [size EXCEPT ![k] = n]
      /\ mem' = [mem EXCEPT ![k] = new]
      /\ UNCHANGED <<pc, reps, at, slice, own, from, out, alone>>
  BY DEF RecordScan, request
<1>2. TypeOK /\ StoredIntact /\ Recorded  BY DEF FleetInv
<1>3. recorded \subseteq Scans /\ NoScan \notin Scans /\ size \in [Scans -> 0..MaxBreaches]
  BY <1>2, FleetAssumption DEF TypeOK
<1>4. size' \in [Scans -> 0..MaxBreaches] /\ size'[k] = n /\ \A j \in recorded : size'[j] = size[j]
  BY <1>1, <1>3
<1>5. n * Words \in Nat /\ Cap[n] * Words \in Nat /\ n * Words <= Cap[n] * Words
  BY <1>4, Sizes
<1>6. new \in [1..(Cap[n] * Words) -> Word] /\ \A i \in 1..(n * Words) : new[i] = WordOf(k, i)
  <2>1. \A i \in 1..(Cap[n] * Words) : WordOf(k, i) \in Word /\ Zero \in Word  BY <1>5 DEF WordOf, Word, Zero
  <2> QED BY <1>5, <2>1
<1> HIDE DEF new
<1>7. /\ mem' = [j \in Scans |-> mem'[j]] /\ \A j \in Scans : mem'[j] \in [1..Room(j)' -> Word]
      /\ mem'[k] = new /\ \A j \in recorded : mem'[j] = mem[j]
  <2>1. mem = [j \in Scans |-> mem[j]] /\ \A j \in Scans : mem[j] \in [1..Room(j) -> Word]  BY <1>2 DEF TypeOK
  <2>2. mem' = [j \in Scans |-> mem'[j]] /\ mem'[k] = new /\ \A j \in Scans : j # k => mem'[j] = mem[j]
    BY <1>1, <2>1, Zenon
  <2>3. Room(k)' = Cap[n] * Words /\ \A j \in Scans : j # k => Room(j)' = Room(j)  BY <1>1, <1>3 DEF Room
  <2>4. \A j \in recorded : j \in Scans /\ j # k  BY <1>1, <1>3
  <2>5. \A j \in Scans : mem'[j] \in [1..Room(j)' -> Word]  BY <1>6, <2>1, <2>2, <2>3, Zenon
  <2> QED BY <2>2, <2>4, <2>5, Zenon
<1>8. \A j \in recorded : Extent(j)' = Extent(j) /\ Room(j)' = Room(j)  BY <1>4 DEF Extent, Room
<1>9. Extent(k)' = n * Words  BY <1>4 DEF Extent
<1>10. TypeOK'
  <2>1. latest' \in [Clusters -> Scans \cup {NoScan}] /\ recorded' \in SUBSET Scans
    BY <1>1, <1>2, Zenon DEF TypeOK
  <2> QED BY <1>1, <1>2, <1>4, <1>7, <2>1, Zenon DEF TypeOK
<1>11. StoredIntact'
  <2> SUFFICES ASSUME NEW j \in recorded', NEW i \in 1..Extent(j)' PROVE mem'[j][i] = WordOf(j, i)
    BY Zenon DEF StoredIntact
  <2>1. CASE j = k  BY <1>6, <1>7, <1>9, <2>1, Zenon
  <2>2. CASE j # k
    <3>1. j \in recorded  BY <1>1, <2>2
    <3> QED BY <1>2, <1>7, <1>8, <3>1, Zenon DEF StoredIntact
  <2> QED BY <2>1, <2>2
<1>12. Recorded'
  <2>1. \A d \in Clusters : latest'[d] \in recorded' \cup {NoScan}
    BY <1>1, <1>2, Zenon DEF Recorded, TypeOK
  <2>2. \A r \in Readers : reps'[r] \in Seq(recorded')  BY <1>1, <1>2 DEF Recorded
  <2> QED BY <2>1, <2>2, Zenon DEF Recorded
<1>13. ASSUME NEW r \in Readers
       PROVE  Idle(r)' /\ Header(r)' /\ Private(r)' /\ Position(r)' /\ FirstKept(r)' /\ AloneKept(r)'
  <2>1. Idle(r) /\ Header(r) /\ Private(r) /\ Position(r) /\ FirstKept(r) /\ AloneKept(r)
    BY Zenon DEF FleetInv, Shape, Words1, WordsAlone
  <2>2. /\ reps[r] \in Seq(recorded) /\ from[r] \in Nat /\ from[r] >= 1
        /\ slice[r].arr \in Scans \cup {NoScan}
    BY Facts, Zenon
  <2>3. Merged(r)' = Len(reps[r]) /\ Merged(r) = Len(reps[r])  BY <1>1, Zenon DEF Merged
  <2>4. SoFar(r)' = SoFar(r)
    <3>1. Joined(size', reps[r], Len(reps[r])) = Joined(size, reps[r], Len(reps[r]))
      <4>1. PICK rs \in Seq(recorded) : rs = reps[r]  BY <2>2
      <4>2. Len(rs) \in Nat /\ Len(rs) <= Len(rs)  OBVIOUS
      <4>3. PICK sz, sy : sz = size' /\ sy = size  OBVIOUS
      <4>4. \A j \in recorded : sz[j] = sy[j]  BY <1>4, <4>3, Zenon
      <4>5. Joined(sz, rs, Len(rs)) = Joined(sy, rs, Len(rs))  BY <4>2, <4>4, JoinedSame
      <4> QED BY <4>1, <4>3, <4>5, Zenon
    <3> QED BY <1>1, <2>3, <3>1 DEF SoFar
  <2>5. from[r] = 1
    <3>1. pc[r] # "merge"  BY <1>1, Zenon
    <3> QED BY <3>1, NotCopying, Zenon
  <2>6. reps[r] # <<>> => reps[r][1] \in recorded  BY <2>2
  <2>7. slice[r].arr # NoScan => slice[r].arr \in recorded  BY <2>1, <2>6, Zenon DEF Header
  <2>8. Idle(r)'  BY <1>1, <2>1, Zenon DEF Idle
  <2>9. Header(r)'  BY <1>1, <1>8, <2>1, <2>3, <2>4, <2>7, Zenon DEF Header
  <2>10. Private(r)'
    <3>1. Merged(r) >= 1 => reps[r] # <<>>
      <4>1. reps[r] = <<>> => Len(reps[r]) = 0  OBVIOUS
      <4>2. ~(0 >= 1)  OBVIOUS
      <4> QED BY <2>3, <4>1, <4>2, Zenon
    <3> QED BY <1>1, <1>8, <2>1, <2>3, <2>4, <2>6, <3>1, Zenon DEF Private
  <2>11. Position(r)'  BY <1>1, <2>1, <2>4, <2>5, Zenon DEF Position
  <2>12. FirstKept(r)'  BY <1>1, <1>8, <2>1, <2>6, Zenon DEF FirstKept
  <2>13. AloneKept(r)'
    <3>1. from[r] - 1 = 0  BY <2>5
    <3>2. \A i \in 1..0 : FALSE  OBVIOUS
    <3>3. slice[r].arr # NoScan => mem'[slice[r].arr] = mem[slice[r].arr]  BY <1>7, <2>7, Zenon
    <3>4. /\ slice'[r] = slice[r] /\ own'[r] = own[r] /\ from'[r] = from[r] /\ out'[r] = out[r]
          /\ alone' = alone /\ pc' = pc
      BY <1>1
    <3> SUFFICES ASSUME alone[r], pc[r] # "idle"
                 PROVE  /\ \A x \in Readers \ {r} : pc[x] = "idle"
                        /\ slice[r].arr # NoScan =>
                             \A i \in 1..slice[r].len : mem'[slice[r].arr][i] = SoFar(r)[i]
                        /\ \A i \in 1..Len(own[r]) : own[r][i] = SoFar(r)[i]
                        /\ \A i \in 1..Len(out[r]) : out[r][i] = SoFar(r)[i]
      BY <2>4, <3>1, <3>2, <3>4, Zenon DEF AloneKept
    <3>5. /\ \A x \in Readers \ {r} : pc[x] = "idle"
          /\ slice[r].arr # NoScan => \A i \in 1..slice[r].len : mem[slice[r].arr][i] = SoFar(r)[i]
          /\ \A i \in 1..Len(own[r]) : own[r][i] = SoFar(r)[i]
          /\ \A i \in 1..Len(out[r]) : out[r][i] = SoFar(r)[i]
      BY AloneFacts, Zenon
    <3> QED BY <3>3, <3>5, Zenon
  <2> QED BY <2>8, <2>9, <2>10, <2>11, <2>12, <2>13
<1>14. Shape' /\ Words1' /\ WordsAlone'  BY <1>13, Zenon DEF Shape, Words1, WordsAlone
<1> QED BY <1>10, <1>11, <1>12, <1>14, Zenon DEF FleetInv

LEMMA FleetInit == Init => FleetInv
<1> SUFFICES ASSUME Init PROVE FleetInv
  OBVIOUS
<1>1. TypeOK
  <2>1. Zero \in Word /\ NoSlice \in Slice  BY DEF Zero, Word, NoSlice, Slice
  <2>2. mem = [k \in Scans |-> mem[k]] /\ \A k \in Scans : mem[k] \in [1..Room(k) -> Word]  BY <2>1 DEF Init
  <2>3. alone \in [Readers -> BOOLEAN]  BY DEF Init
  <2>4. size \in [Scans -> 0..MaxBreaches]  BY FleetAssumption DEF Init
  <2>5. /\ latest \in [Clusters -> Scans \cup {NoScan}] /\ recorded \in SUBSET Scans
        /\ pc \in [Readers -> {"idle", "merge", "grow", "encode", "sent"}]
        /\ reps \in [Readers -> Seq(Scans)] /\ at \in [Readers -> Nat] /\ from \in [Readers -> Nat]
        /\ slice \in [Readers -> Slice] /\ own \in [Readers -> Seq(Word)] /\ out \in [Readers -> Seq(Word)]
    BY <2>1 DEF Init
  <2> QED BY <2>2, <2>3, <2>4, <2>5, Zenon DEF TypeOK
<1>2. StoredIntact  BY DEF Init, StoredIntact
<1>3. Recorded  BY DEF Init, Recorded
<1>4. ASSUME NEW r \in Readers
      PROVE  Idle(r) /\ Header(r) /\ Private(r) /\ Position(r) /\ FirstKept(r) /\ AloneKept(r)
  <2>1. /\ pc[r] = "idle" /\ reps[r] = <<>> /\ at[r] = 1 /\ slice[r] = NoSlice
        /\ own[r] = <<>> /\ from[r] = 1 /\ out[r] = <<>>
    BY Zenon DEF Init
  <2>2. Merged(r) = 0  BY <2>1 DEF Merged
  <2>3. SoFar(r) = <<>>  BY <2>2, JoinedZero, Zenon DEF SoFar
  <2>4. Idle(r) /\ Header(r)  BY <2>1 DEF Idle, Header, NoSlice
  <2>5. Private(r)  BY <2>1, <2>2, <2>3 DEF Private, NoSlice
  <2>6. Position(r)  BY <2>1 DEF Position
  <2>7. FirstKept(r) /\ AloneKept(r)  BY <2>1, Zenon DEF FirstKept, AloneKept
  <2> QED BY <2>4, <2>5, <2>6, <2>7
<1> QED BY <1>1, <1>2, <1>3, <1>4, Zenon DEF FleetInv, Shape, Words1, WordsAlone

LEMMA FleetStep == FleetInv /\ [Next]_vars => FleetInv'
<1> SUFFICES ASSUME FleetInv, [Next]_vars PROVE FleetInv'
  OBVIOUS
<1>1. CASE \E c \in Clusters, k \in Scans, n \in 0..MaxBreaches : RecordScan(c, k, n)
  BY <1>1, RecordScanKeeps, Zenon
<1>2. ASSUME NEW r \in Readers, Read(r) PROVE FleetInv'
  BY <1>2, ReportAllKeeps, ReportOneKeeps, TakeHeaderKeeps, AppendInPlaceKeeps, AppendDoneKeeps,
     GrowStartKeeps, GrowCopyKeeps, GrowDoneKeeps, AppendOwnKeeps, UnlockKeeps,
     EncodeSharedKeeps, EncodeDoneKeeps, FinishKeeps, Zenon DEF Read
<1>3. CASE UNCHANGED vars
  <2>1. /\ UNCHANGED <<latest, recorded, size, mem>>
        /\ UNCHANGED <<pc, reps, at, slice, own, from, out, alone>>
    BY <1>3 DEF vars
  <2>2. ASSUME NEW r \in Readers
        PROVE  Idle(r)' /\ Header(r)' /\ Private(r)' /\ Position(r)' /\ FirstKept(r)' /\ AloneKept(r)'
    <3>1. Unmoved(r) /\ size' = size  BY <2>1 DEF Unmoved
    <3>2. Idle(r)' /\ Header(r)' /\ Private(r)' /\ Position(r)' /\ FirstKept(r)'  BY <3>1, Frame, Zenon
    <3>3. AloneKept(r)  BY DEF FleetInv, WordsAlone
    <3>4. AloneKept(r)'  BY <2>1, <3>3, Zenon DEF AloneKept, SoFar, Merged, Current
    <3> QED BY <3>2, <3>4, Zenon
  <2>3. TypeOK'  BY <2>1, Zenon DEF FleetInv, TypeOK, Room
  <2>4. \A r \in Readers : reps'[r] \in Seq(recorded)  BY <2>1 DEF FleetInv, Recorded
  <2>5. StoredIntact' /\ Recorded'  BY <2>1, <2>4, StoreKept, Zenon
  <2>6. Shape' /\ Words1' /\ WordsAlone'  BY <2>2, Zenon DEF Shape, Words1, WordsAlone
  <2> QED BY <2>3, <2>5, <2>6, Zenon DEF FleetInv
<1> QED BY <1>1, <1>2, <1>3, Zenon DEF Next

\* No fleet view alters a report the store holds, however many are merged at once
\* (memstore.go: MergeReports appends behind the stored breaches).
THEOREM StoredReportsIntact == Spec => []StoredIntact
<1>1. FleetInv => StoredIntact  BY DEF FleetInv
<1> QED BY FleetInit, FleetStep, <1>1, PTL DEF Spec

\* What an answer still promises when requests overlap: it begins with the whole of its
\* first report, it is as long as the reports it is made of, and it is exact when no
\* other request was in flight (memstore.go: Report; api.go: writeJSON).
THEOREM AnswersKept == Spec => []AnswersHold
<1>1. ASSUME FleetInv PROVE AnswersHold
  <2>1. ASSUME NEW r \in Readers, pc[r] = "sent"
        PROVE  /\ SoFar(r) = BreachesOf(reps[r]) /\ Len(out[r]) = Len(SoFar(r))
               /\ out[r] \in Seq(Word) /\ SoFar(r) \in Seq(Word)
    <3>1. Position(r)  BY <1>1 DEF FleetInv, Shape
    <3>2. reps[r] \in Seq(Scans) /\ out[r] \in Seq(Word) /\ SoFar(r) \in Seq(Word)  BY <1>1, Facts
    <3>3. SoFar(r) = Joined(size, reps[r], Len(reps[r]))  BY <2>1 DEF SoFar, Merged
    <3> QED BY <2>1, <3>1, <3>2, <3>3, BreachesJoined, Zenon DEF Position
  <2>2. FirstReportExact
    <3> SUFFICES ASSUME NEW r \in Readers, pc[r] = "sent", reps[r] # <<>>, NEW i \in 1..Extent(reps[r][1])
                 PROVE  i \in DOMAIN out[r] /\ out[r][i] = WordOf(reps[r][1], i)
      BY DEF FirstReportExact
    <3>1. FirstKept(r) /\ TypeOK  BY <1>1, Zenon DEF FleetInv, Words1
    <3>2. reps[r] \in Seq(Scans) /\ out[r] \in Seq(Word)  BY <1>1, Facts
    <3>3. reps[r][1] \in Scans  BY <3>2
    <3>4. Extent(reps[r][1]) \in Nat  BY <3>1, <3>3, Extents, Zenon
    <3>5. i \in 1..Len(out[r]) /\ i <= Extent(reps[r][1])  BY <3>1, <3>2, <3>4 DEF FirstKept
    <3>6. i \in DOMAIN out[r]  BY <3>2, <3>5
    <3> QED BY <3>1, <3>5, <3>6, Zenon DEF FirstKept
  <2>3. LengthAgrees  BY <2>1 DEF LengthAgrees
  <2>4. AloneExact
    <3> SUFFICES ASSUME NEW r \in Readers, pc[r] = "sent", alone[r] PROVE out[r] = BreachesOf(reps[r])
      BY DEF AloneExact
    <3>1. \A i \in 1..Len(out[r]) : out[r][i] = SoFar(r)[i]
      <4>1. pc[r] # "idle"  OBVIOUS
      <4> QED BY <1>1, <4>1, AloneFacts, Zenon
    <3>2. /\ SoFar(r) = BreachesOf(reps[r]) /\ Len(out[r]) = Len(SoFar(r))
          /\ out[r] \in Seq(Word) /\ SoFar(r) \in Seq(Word)
      BY <2>1, Zenon
    <3>3. out[r] = SoFar(r)
      <4> SUFFICES ASSUME NEW s \in Seq(Word), NEW t \in Seq(Word), Len(s) = Len(t),
                          \A i \in 1..Len(s) : s[i] = t[i]
                   PROVE  s = t
        BY <3>1, <3>2, Zenon
      <4> QED OBVIOUS
    <3> QED BY <3>2, <3>3, Zenon
  <2>5. TypeOK  BY <1>1 DEF FleetInv
  <2> QED BY <2>2, <2>3, <2>4, <2>5, Zenon DEF AnswersHold
<1> QED BY FleetInit, FleetStep, <1>1, PTL DEF Spec

=============================================================================
