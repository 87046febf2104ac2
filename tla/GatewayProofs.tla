---------------------------- MODULE GatewayProofs -----------------------------
(***************************************************************************)
(* The rate limit and the authentication of Gateway hold for any number of *)
(* slots, tenants and keys, any burst and any rate.                        *)
(***************************************************************************)
EXTENDS Gateway, TLAPS

\* The tokens of a tenant are accounted for: what was admitted and what is left is
\* at least the first burst, and no more than it and what has flowed back since.
Accounted ==
  \A t \in Tenants :
    /\ bucket[t] + admitted[t] >= Burst
    /\ bucket[t] + admitted[t] <= Burst + Rate * now

\* Only a JWT makes a request look for a key.
KeyIsForJWT ==
  \A s \in Slots : pc[s] \in {"fetch", "store", "relook"} => req[s].cred.is = "jwt"

LInv == TypeOK /\ Accounted /\ TenantsIsolated /\ KeyIsForJWT /\ AuthSound

-----------------------------------------------------------------------------

\* The fields of a request that the gateway reads.
LEMMA RequestType ==
  ASSUME NEW q \in Requests
  PROVE  /\ q.big \in BOOLEAN
         /\ q.cred.tenant \in Tenants \cup {""}
         /\ q.cred.is \in {"none", "local", "jwt"}
         /\ q.cred.kid \in Keys
BY RequestAssumption DEF Request, Credential

LEMMA NoRequestType == NoRequest \in Requests
BY RequestAssumption DEF NoRequest

\* What flows back in a unit of time: the bucket never overflows, and never loses
\* what it held.
LEMMA Refill ==
  ASSUME NEW b \in 0 .. Burst
  PROVE  /\ Min({Burst, b + Rate}) \in 0 .. Burst
         /\ Min({Burst, b + Rate}) >= b
         /\ Min({Burst, b + Rate}) <= b + Rate
<1>1. /\ Burst \in Nat /\ Rate \in Nat /\ b \in Nat /\ b <= Burst
  BY GatewayAssumption
<1>2. \E x \in {Burst, b + Rate} : \A y \in {Burst, b + Rate} : x <= y
  BY <1>1
<1> DEFINE m == Min({Burst, b + Rate})
<1>3. m \in {Burst, b + Rate} /\ \A y \in {Burst, b + Rate} : m <= y
  BY <1>2 DEF Min
<1> HIDE DEF m
<1>4. m \in 0 .. Burst /\ m >= b /\ m <= b + Rate
  BY <1>1, <1>3
<1> QED BY <1>4 DEF m

\* A call that has passed authentication has a tenant with a bucket.
LEMMA PrincipalType ==
  ASSUME TypeOK, AuthSound, NEW s \in Slots, pc[s] \in {"csrf", "limit"}
  PROVE  who[s] \in Tenants
<1>1. req[s] \in Requests
  BY DEF TypeOK
<1>2. req[s].cred.tenant \in Tenants \cup {""}
  BY <1>1, RequestType
<1> QED BY <1>2, GatewayAssumption DEF AuthSound, PrincipalIsClaimed, Verified

-----------------------------------------------------------------------------
(* LInv holds at the start.                                                *)

LEMMA InitLInv == Init => LInv
<1> SUFFICES ASSUME Init PROVE LInv
  OBVIOUS
<1>a. /\ pc = [s \in Slots |-> Idle]
      /\ req = [s \in Slots |-> NoRequest] /\ who = [s \in Slots |-> ""]
      /\ reply = [s \in Slots |-> {}] /\ idp \in {{k} : k \in Keys} /\ cache = {}
      /\ bucket = [t \in Tenants |-> Burst] /\ admitted = [t \in Tenants |-> 0]
      /\ now = 0 /\ rotations = 0 /\ faults = 0
  BY Zenon DEF Init, InitWith
<1>b. limited = [t \in Tenants |-> FALSE]
  BY Zenon DEF Init, InitWith
<1>1. TypeOK
  <2>1. /\ pc \in [Slots -> {Idle, "auth", "fetch", "store", "relook", "csrf", "limit"} \cup Answers]
        /\ req \in [Slots -> Requests]
        /\ who \in [Slots -> Tenants \cup {""}]
    BY <1>a, NoRequestType
  <2>2. reply \in [Slots -> SUBSET Keys] /\ idp \in SUBSET Keys /\ cache \in SUBSET Keys
    BY <1>a
  <2>3. limited \in [Tenants -> BOOLEAN]
    BY <1>b, Zenon
  <2>4. /\ bucket \in [Tenants -> 0..Burst]
        /\ admitted \in [Tenants -> Nat]
        /\ now \in 0..MaxTime /\ rotations \in 0..MaxRotations /\ faults \in 0..MaxFaults
    <3>1. /\ Burst \in 0..Burst /\ 0 \in Nat
          /\ 0 \in 0..MaxTime /\ 0 \in 0..MaxRotations /\ 0 \in 0..MaxFaults
      BY GatewayAssumption
    <3> QED BY <1>a, <3>1, Zenon
  <2> QED BY <2>1, <2>2, <2>3, <2>4 DEF TypeOK
<1>2. Accounted
  <2> SUFFICES ASSUME NEW t \in Tenants
               PROVE  /\ bucket[t] + admitted[t] >= Burst
                      /\ bucket[t] + admitted[t] <= Burst + Rate * now
    BY DEF Accounted
  <2>1. bucket[t] = Burst /\ admitted[t] = 0 /\ now = 0
    BY <1>a
  <2>2. Burst + 0 >= Burst /\ Burst + 0 <= Burst + Rate * 0
    BY GatewayAssumption
  <2> QED BY <2>1, <2>2
<1>3. TenantsIsolated
  BY <1>b, Zenon DEF TenantsIsolated
<1>4. KeyIsForJWT /\ AuthSound
  BY <1>a DEF KeyIsForJWT, AuthSound, BreakGlass, PrincipalIsClaimed, Idle
<1> QED BY <1>1, <1>2, <1>3, <1>4 DEF LInv

-----------------------------------------------------------------------------
(* LInv is inductive: a step of a slot, time, a rotation.                   *)

\* What LInv says of one slot.
SlotOK(s) ==
  /\ pc[s] \in {"fetch", "store", "relook"} => req[s].cred.is = "jwt"
  /\ pc[s] = "401" => req[s].cred.is # "local"
  /\ pc[s] \in {"csrf", "limit"} =>
       IF req[s].cred.is = "local" THEN who[s] = LocalTenant
       ELSE Verified(req[s].cred) /\ who[s] = req[s].cred.tenant

LEMMA SlotsOK == (KeyIsForJWT /\ AuthSound) <=> \A s \in Slots : SlotOK(s)
BY DEF KeyIsForJWT, AuthSound, BreakGlass, PrincipalIsClaimed, SlotOK

\* A step of one slot leaves what is known of the others.
LEMMA OtherSlots ==
  ASSUME TypeOK, NEW s \in Slots, NEW r \in Slots, r # s, SlotOK(r),
         \E to : pc' = [pc EXCEPT ![s] = to],
         req' = req \/ \E q : req' = [req EXCEPT ![s] = q],
         who' = who \/ \E t : who' = [who EXCEPT ![s] = t]
  PROVE  SlotOK(r)'
<1>1. pc'[r] = pc[r] /\ req'[r] = req[r] /\ who'[r] = who[r]
  BY DEF TypeOK
<1> QED BY <1>1 DEF SlotOK, Verified

\* The limiter is only touched by Limit and by time.
LEMMA LimiterRests ==
  ASSUME Accounted, TenantsIsolated, UNCHANGED <<bucket, admitted, limited, now>>
  PROVE  Accounted' /\ TenantsIsolated'
BY DEF Accounted, TenantsIsolated

LEMMA StaticAuthSlot ==
  ASSUME TypeOK, NEW s \in Slots, NEW from, StaticAuth(s, from), UNCHANGED req
  PROVE  /\ SlotOK(s)'
         /\ \E to \in {"csrf", "401"} : pc' = [pc EXCEPT ![s] = to]
         /\ \E t \in Tenants \cup {""} : who' = [who EXCEPT ![s] = t]
<1> DEFINE local == req[s].cred.is = "local"
<1>1. /\ pc' = [pc EXCEPT ![s] = IF local THEN "csrf" ELSE "401"]
      /\ who' = [who EXCEPT ![s] = IF local THEN LocalTenant ELSE who[s]]
  BY DEF StaticAuth, Go
<1>2. /\ pc'[s] = IF local THEN "csrf" ELSE "401"
      /\ who'[s] = IF local THEN LocalTenant ELSE who[s]
  BY <1>1 DEF TypeOK
<1>3. SlotOK(s)'
  BY <1>2 DEF SlotOK
<1>4. LocalTenant \in Tenants /\ who[s] \in Tenants \cup {""}
  BY GatewayAssumption DEF TypeOK
<1> QED BY <1>1, <1>3, <1>4

LEMMA AcceptSlot ==
  ASSUME TypeOK, NEW s \in Slots, NEW from, Accept(s, from), UNCHANGED req,
         req[s].cred.is = "jwt"
  PROVE  /\ SlotOK(s)'
         /\ pc' = [pc EXCEPT ![s] = "csrf"]
         /\ \E t \in Tenants \cup {""} : who' = [who EXCEPT ![s] = t]
<1>1. /\ Verified(req[s].cred)
      /\ pc' = [pc EXCEPT ![s] = "csrf"]
      /\ who' = [who EXCEPT ![s] = req[s].cred.tenant]
  BY DEF Accept, Go
<1>2. pc'[s] = "csrf" /\ who'[s] = req[s].cred.tenant /\ req'[s] = req[s]
  BY <1>1 DEF TypeOK
<1>3. SlotOK(s)'
  BY <1>1, <1>2 DEF SlotOK, Verified
<1>4. req[s].cred.tenant \in Tenants \cup {""}
  BY RequestType DEF TypeOK
<1> QED BY <1>1, <1>3, <1>4

Steps == {Idle, "auth", "fetch", "store", "relook", "csrf", "limit"} \cup Answers

\* A step of one slot that does not reach the limiter keeps LInv when it keeps what
\* LInv says of that slot.
LEMMA SlotStep ==
  ASSUME LInv, NEW s \in Slots,
         \E to \in Steps : pc' = [pc EXCEPT ![s] = to],
         req' = req \/ \E q \in Requests : req' = [req EXCEPT ![s] = q],
         who' = who \/ \E t \in Tenants \cup {""} : who' = [who EXCEPT ![s] = t],
         reply' \in [Slots -> SUBSET Keys], cache' \in SUBSET Keys,
         faults' \in 0 .. MaxFaults,
         UNCHANGED <<limits, idp, now, rotations>>,
         SlotOK(s)'
  PROVE  LInv'
<1>a. /\ pc \in [Slots -> Steps] /\ req \in [Slots -> Requests]
      /\ who \in [Slots -> Tenants \cup {""}]
  BY Zenon DEF LInv, TypeOK, Steps
<1>b. pc' \in [Slots -> Steps]
  BY <1>a
<1>c. req' \in [Slots -> Requests]
  BY <1>a
<1>d. who' \in [Slots -> Tenants \cup {""}]
  BY <1>a
<1>1. /\ pc' \in [Slots -> Steps]
      /\ req' \in [Slots -> Requests]
      /\ who' \in [Slots -> Tenants \cup {""}]
  BY <1>b, <1>c, <1>d
<1>2. UNCHANGED <<bucket, admitted, limited, now>>
  BY DEF limits
<1>3. TypeOK'
  BY <1>1, <1>2 DEF LInv, TypeOK, Steps
<1>4. Accounted' /\ TenantsIsolated'
  BY <1>2, LimiterRests DEF LInv
<1>5. ASSUME NEW r \in Slots PROVE SlotOK(r)'
  <2>1. SlotOK(r)
    BY SlotsOK DEF LInv
  <2> QED BY <2>1, OtherSlots DEF LInv
<1>6. KeyIsForJWT' /\ AuthSound'
  BY <1>5 DEF KeyIsForJWT, AuthSound, BreakGlass, PrincipalIsClaimed, SlotOK
<1> QED BY <1>3, <1>4, <1>6 DEF LInv

LEMMA AuthStep ==
  ASSUME LInv, NEW s \in Slots,
         SkipJWT(s) \/ Lookup(s) \/ FetchFails(s) \/ Relook(s)
  PROVE  LInv'
<1>a. TypeOK /\ SlotOK(s)
  BY SlotsOK DEF LInv
<1>b. UNCHANGED <<req, reply, cache, limits, idp, now, rotations>>
  BY DEF SkipJWT, Lookup, FetchFails, Relook, outside
<1>c. reply' \in [Slots -> SUBSET Keys] /\ cache' \in SUBSET Keys /\ req' = req
  BY <1>a, <1>b DEF TypeOK
<1>d. faults' \in 0 .. MaxFaults
  <2>1. faults \in 0 .. MaxFaults /\ MaxFaults \in Nat
    BY <1>a, GatewayAssumption DEF TypeOK
  <2>2. faults' = faults \/ (faults < MaxFaults /\ faults' = faults + 1)
    BY Zenon DEF SkipJWT, Lookup, FetchFails, Relook, outside
  <2> QED BY <2>1, <2>2
<1>1. ASSUME NEW from, StaticAuth(s, from) PROVE LInv'
  <2>1. /\ SlotOK(s)'
        /\ \E to \in Steps : pc' = [pc EXCEPT ![s] = to]
        /\ \E t \in Tenants \cup {""} : who' = [who EXCEPT ![s] = t]
    BY <1>a, <1>b, <1>1, StaticAuthSlot DEF Steps, Answers
  <2> QED BY <1>b, <1>c, <1>d, <2>1, SlotStep
<1>2. ASSUME NEW from, Accept(s, from), req[s].cred.is = "jwt" PROVE LInv'
  <2>1. /\ SlotOK(s)'
        /\ \E to \in Steps : pc' = [pc EXCEPT ![s] = to]
        /\ \E t \in Tenants \cup {""} : who' = [who EXCEPT ![s] = t]
    BY <1>a, <1>b, <1>2, AcceptSlot DEF Steps
  <2> QED BY <1>b, <1>c, <1>d, <2>1, SlotStep
<1>3. CASE SkipJWT(s)
  BY <1>1, <1>3 DEF SkipJWT
<1>4. CASE FetchFails(s)
  BY <1>1, <1>4 DEF FetchFails
<1>5. CASE Lookup(s)
  <2>1. req[s].cred.is = "jwt"
    BY <1>5 DEF Lookup, UsesKey
  <2>2. CASE Go(s, "auth", "fetch") /\ UNCHANGED who
    <3>1. pc' = [pc EXCEPT ![s] = "fetch"] /\ pc'[s] = "fetch"
      BY <1>a, <2>2 DEF Go, TypeOK
    <3>2. SlotOK(s)'
      BY <1>b, <2>1, <3>1 DEF SlotOK
    <3> QED BY <1>b, <1>c, <1>d, <2>2, <3>1, <3>2, SlotStep DEF Steps
  <2> QED BY <1>1, <1>2, <1>5, <2>1, <2>2 DEF Lookup
<1>6. CASE Relook(s)
  <2>1. pc[s] = "relook"
    BY <1>6 DEF Relook, Accept, StaticAuth, Go
  <2>2. req[s].cred.is = "jwt"
    BY <1>a, <2>1 DEF SlotOK
  <2> QED BY <1>1, <1>2, <1>6, <2>2 DEF Relook
<1> QED BY <1>3, <1>4, <1>5, <1>6

LEMMA PlainStep ==
  ASSUME LInv, NEW s \in Slots,
         \/ Fetch(s) \/ Store(s) \/ CsrfOrigin(s) \/ Answer(s)
         \/ \E q \in Requests : Arrive(s, q)
  PROVE  LInv'
<1>a. TypeOK /\ SlotOK(s)
  BY SlotsOK DEF LInv
<1>b. /\ UNCHANGED <<limits, idp, now, rotations>>
      /\ faults' \in 0 .. MaxFaults
  BY <1>a DEF Fetch, Store, CsrfOrigin, Answer, Arrive, outside, TypeOK
<1>c. reply \in [Slots -> SUBSET Keys] /\ cache \in SUBSET Keys /\ idp \in SUBSET Keys
  BY <1>a DEF TypeOK
<1>1. CASE Fetch(s)
  <2>1. /\ pc' = [pc EXCEPT ![s] = "store"] /\ UNCHANGED <<req, who, cache>>
        /\ reply' \in [Slots -> SUBSET Keys]
    BY <1>c, <1>1 DEF Fetch, Go
  <2>2. pc[s] = "fetch" /\ pc'[s] = "store"
    BY <1>a, <1>1 DEF Fetch, Go, TypeOK
  <2>3. SlotOK(s)'
    BY <1>a, <2>1, <2>2 DEF SlotOK
  <2> QED BY <1>b, <1>c, <2>1, <2>3, SlotStep DEF Steps
<1>2. CASE Store(s)
  <2>1. /\ pc' = [pc EXCEPT ![s] = "relook"] /\ UNCHANGED <<req, who>>
        /\ reply' \in [Slots -> SUBSET Keys] /\ cache' \in SUBSET Keys
    BY <1>c, <1>2 DEF Store, Go
  <2>2. pc[s] = "store" /\ pc'[s] = "relook"
    BY <1>a, <1>2 DEF Store, Go, TypeOK
  <2>3. SlotOK(s)'
    BY <1>a, <2>1, <2>2 DEF SlotOK
  <2> QED BY <1>b, <2>1, <2>3, SlotStep DEF Steps
<1>3. CASE CsrfOrigin(s)
  <2>1. /\ pc[s] = "csrf" /\ UNCHANGED <<req, who, reply, cache>>
        /\ \E to \in {"403", "limit", "handler"} : pc' = [pc EXCEPT ![s] = to]
    BY <1>3 DEF CsrfOrigin, Go
  <2>2. pc'[s] \in {"403", "limit", "handler"}
    BY <1>a, <2>1 DEF TypeOK
  <2>3. SlotOK(s)'
    BY <1>a, <2>1, <2>2 DEF SlotOK, Verified
  <2> QED BY <1>b, <1>c, <2>1, <2>3, SlotStep DEF Steps, Answers
<1>4. CASE Answer(s)
  <2>1. /\ pc' = [pc EXCEPT ![s] = Idle] /\ UNCHANGED <<reply, cache>>
        /\ req' = [req EXCEPT ![s] = NoRequest] /\ who' = [who EXCEPT ![s] = ""]
    BY <1>4 DEF Answer
  <2>2. pc'[s] = "idle"
    BY <1>a, <2>1 DEF TypeOK, Idle
  <2>3. SlotOK(s)'
    BY <2>2 DEF SlotOK
  <2> QED BY <1>b, <1>c, <2>1, <2>3, SlotStep, NoRequestType DEF Steps
<1>5. ASSUME NEW q \in Requests, Arrive(s, q) PROVE LInv'
  <2>1. /\ \E to \in {"413", "auth"} : pc' = [pc EXCEPT ![s] = to]
        /\ req' = [req EXCEPT ![s] = q] /\ UNCHANGED <<who, reply, cache>>
    BY <1>5 DEF Arrive, Go
  <2>2. pc'[s] \in {"413", "auth"}
    BY <1>a, <2>1 DEF TypeOK
  <2>3. SlotOK(s)'
    BY <2>2 DEF SlotOK
  <2> QED BY <1>b, <1>c, <2>1, <2>3, SlotStep DEF Steps, Answers
<1> QED BY <1>1, <1>2, <1>3, <1>4, <1>5

\* The limiter: one token less and one request more, or none left and a refusal.
LEMMA LimitStep ==
  ASSUME LInv, NEW s \in Slots, Limit(s)
  PROVE  LInv'
<1> DEFINE t == who[s]
<1>a. TypeOK /\ Accounted /\ TenantsIsolated /\ \A r \in Slots : SlotOK(r)
  BY SlotsOK DEF LInv
<1>b. pc[s] = "limit" /\ t \in Tenants
  BY PrincipalType DEF LInv, Limit, Go
<1>c. /\ bucket \in [Tenants -> 0 .. Burst] /\ admitted \in [Tenants -> Nat]
      /\ bucket[t] \in 0 .. Burst /\ admitted[t] \in Nat
      /\ Burst \in Nat /\ Rate \in Nat /\ now \in Nat
  <2>1. /\ bucket \in [Tenants -> 0 .. Burst] /\ admitted \in [Tenants -> Nat]
        /\ now \in 0 .. MaxTime
    BY <1>a, Zenon DEF TypeOK
  <2>2. Burst \in Nat /\ Rate \in Nat /\ MaxTime \in Nat
    BY GatewayAssumption
  <2> QED BY <1>b, <2>1, <2>2
<1>d. /\ bucket' = [bucket EXCEPT ![t] = IF bucket[t] > 0 THEN bucket[t] - 1 ELSE bucket[t]]
      /\ admitted' = [admitted EXCEPT ![t] = IF bucket[t] > 0 THEN admitted[t] + 1 ELSE admitted[t]]
      /\ UNCHANGED <<req, who, reply, cache, idp, now, rotations, faults>>
  BY Zenon DEF Limit, outside
<1>e. limited' = [limited EXCEPT ![t] = limited[t] \/ bucket[t] = 0]
  BY Zenon DEF Limit
<1>f. pc' = [pc EXCEPT ![s] = IF bucket[t] > 0 THEN "handler" ELSE "429"]
  BY Zenon DEF Limit, Go
<1> HIDE DEF t
<1>1. TypeOK'
  <2>1. pc' \in [Slots -> Steps]
    BY <1>a, <1>f DEF TypeOK, Steps, Answers
  <2>2. bucket' \in [Tenants -> 0 .. Burst] /\ admitted' \in [Tenants -> Nat]
    <3>1. /\ (IF bucket[t] > 0 THEN bucket[t] - 1 ELSE bucket[t]) \in 0 .. Burst
          /\ (IF bucket[t] > 0 THEN admitted[t] + 1 ELSE admitted[t]) \in Nat
      BY <1>c
    <3> QED BY <1>c, <1>d, <3>1, Zenon
  <2>3. limited' \in [Tenants -> BOOLEAN]
    <3>1. limited \in [Tenants -> BOOLEAN]
      BY <1>a DEF TypeOK
    <3>2. (limited[t] \/ bucket[t] = 0) \in BOOLEAN
      OBVIOUS
    <3> QED BY <1>e, <3>1, <3>2, Zenon
  <2> QED BY <1>a, <1>d, <2>1, <2>2, <2>3, Zenon DEF TypeOK, Steps
<1>2. ASSUME NEW u \in Tenants
      PROVE  \/ u # t /\ bucket'[u] = bucket[u] /\ admitted'[u] = admitted[u]
             \/ u = t /\ bucket[u] > 0 /\ bucket'[u] = bucket[u] - 1 /\ admitted'[u] = admitted[u] + 1
             \/ u = t /\ bucket[u] = 0 /\ bucket'[u] = 0 /\ admitted'[u] = admitted[u]
  BY <1>b, <1>c, <1>d
<1>3. ASSUME NEW u \in Tenants
      PROVE  bucket'[u] + admitted'[u] = bucket[u] + admitted[u] /\ admitted'[u] >= admitted[u]
  <2>1. bucket[u] \in 0 .. Burst /\ admitted[u] \in Nat
    BY <1>c, <1>3
  <2> QED BY <1>2, <1>3, <2>1
<1>4. Accounted'
  BY <1>a, <1>d, <1>3 DEF Accounted
<1>5. ASSUME NEW u \in Tenants, limited'[u] PROVE admitted'[u] >= Burst
  <2>1. limited[u] \/ (u = t /\ bucket[u] = 0)
    <3>1. limited \in [Tenants -> BOOLEAN]
      BY <1>a DEF TypeOK
    <3> QED BY <1>b, <1>e, <1>5, <3>1, Zenon
  <2>2. admitted[u] \in Nat /\ admitted'[u] \in Nat /\ bucket[u] \in Nat
    <3>1. admitted' \in [Tenants -> Nat]
      BY <1>1, Zenon DEF TypeOK
    <3> QED BY <1>c, <3>1
  <2>3. CASE limited[u]
    <3>1. admitted[u] >= Burst
      BY <1>a, <2>3, Zenon DEF TenantsIsolated
    <3> QED BY <1>c, <1>3, <2>2, <3>1
  <2>4. CASE bucket[u] = 0
    <3>1. bucket[u] + admitted[u] >= Burst
      BY <1>a DEF Accounted
    <3> QED BY <1>c, <1>3, <2>2, <2>4, <3>1
  <2> QED BY <2>1, <2>3, <2>4
<1>6. TenantsIsolated'
  BY <1>5, Zenon DEF TenantsIsolated
<1>7. SlotOK(s)'
  <2>1. pc'[s] \in {"handler", "429"}
    BY <1>a, <1>f DEF TypeOK
  <2> QED BY <2>1 DEF SlotOK
<1>8. ASSUME NEW r \in Slots PROVE SlotOK(r)'
  BY <1>a, <1>d, <1>f, <1>7, OtherSlots
<1>9. KeyIsForJWT' /\ AuthSound'
  BY <1>8 DEF KeyIsForJWT, AuthSound, BreakGlass, PrincipalIsClaimed, SlotOK
<1> QED BY <1>1, <1>4, <1>6, <1>9 DEF LInv

\* Time: the buckets fill up, at most by the rate.
LEMMA TickStep ==
  ASSUME LInv, Tick
  PROVE  LInv'
<1>a. /\ TypeOK /\ Accounted /\ TenantsIsolated /\ KeyIsForJWT /\ AuthSound
  BY DEF LInv
<1>b. /\ bucket \in [Tenants -> 0 .. Burst] /\ admitted \in [Tenants -> Nat]
      /\ now \in 0 .. MaxTime
  BY <1>a, Zenon DEF TypeOK
<1>c. Burst \in Nat /\ Rate \in Nat /\ MaxTime \in Nat
  BY GatewayAssumption
<1>d. /\ now < MaxTime /\ now' = now + 1
      /\ bucket' = [t \in Tenants |-> Min({Burst, bucket[t] + Rate})]
      /\ UNCHANGED <<pc, req, who, reply, cache, admitted, limited, idp, rotations, faults>>
  BY Zenon DEF Tick
<1>1. ASSUME NEW t \in Tenants
      PROVE  bucket'[t] \in 0 .. Burst /\ bucket'[t] >= bucket[t] /\ bucket'[t] <= bucket[t] + Rate
  <2>1. bucket[t] \in 0 .. Burst /\ bucket'[t] = Min({Burst, bucket[t] + Rate})
    BY <1>b, <1>d, <1>1
  <2> QED BY <2>1, Refill
<1>2. TypeOK'
  <2>1. bucket' \in [Tenants -> 0 .. Burst]
    BY <1>d, <1>1
  <2>2. now' \in 0 .. MaxTime
    BY <1>b, <1>c, <1>d
  <2> QED BY <1>a, <1>d, <2>1, <2>2, Zenon DEF TypeOK
<1>3. ASSUME NEW t \in Tenants
      PROVE  /\ bucket'[t] + admitted[t] >= Burst
             /\ bucket'[t] + admitted[t] <= Burst + Rate * now'
  <2>1. /\ bucket[t] \in Nat /\ bucket'[t] \in Nat /\ admitted[t] \in Nat /\ now \in Nat
    BY <1>b, <1>c, <1>1, <1>3
  <2>2. /\ bucket[t] + admitted[t] >= Burst
        /\ bucket[t] + admitted[t] <= Burst + Rate * now
    BY <1>a DEF Accounted
  <2>3. Rate * now' = Rate * now + Rate /\ Rate * now \in Nat
    BY <1>c, <1>d, <2>1
  <2> QED BY <1>c, <1>1, <2>1, <2>2, <2>3
<1>4. Accounted'
  BY <1>d, <1>3 DEF Accounted
<1>5. TenantsIsolated' /\ KeyIsForJWT' /\ AuthSound'
  BY <1>a, <1>d DEF TenantsIsolated, KeyIsForJWT, AuthSound, BreakGlass, PrincipalIsClaimed, Verified
<1> QED BY <1>2, <1>4, <1>5 DEF LInv

LEMMA RotateStep ==
  ASSUME LInv, NEW keys \in SUBSET Keys, Rotate(keys)
  PROVE  LInv'
<1>a. /\ UNCHANGED <<pc, req, who, reply, cache, bucket, admitted, limited, now, faults>>
      /\ rotations < MaxRotations /\ rotations' = rotations + 1 /\ idp' = keys
  BY DEF Rotate, limits
<1>1. rotations' \in 0 .. MaxRotations
  <2>1. rotations \in 0 .. MaxRotations /\ MaxRotations \in Nat
    BY GatewayAssumption DEF LInv, TypeOK
  <2> QED BY <1>a, <2>1
<1>2. TypeOK'
  BY <1>a, <1>1, Zenon DEF LInv, TypeOK
<1>3. Accounted' /\ TenantsIsolated'
  BY <1>a, LimiterRests DEF LInv
<1>4. KeyIsForJWT' /\ AuthSound'
  BY <1>a DEF LInv, KeyIsForJWT, AuthSound, BreakGlass, PrincipalIsClaimed, Verified
<1> QED BY <1>2, <1>3, <1>4 DEF LInv

LEMMA NextLInv == LInv /\ [Next]_vars => LInv'
<1> SUFFICES ASSUME LInv, [Next]_vars PROVE LInv'
  OBVIOUS
<1>1. CASE UNCHANGED vars
  <2>1. UNCHANGED <<pc, req, who, reply, idp, cache, bucket, admitted, limited, now, rotations, faults>>
    BY <1>1 DEF vars
  <2>2. TypeOK'
    BY <2>1, Zenon DEF LInv, TypeOK
  <2>3. Accounted' /\ TenantsIsolated'
    BY <2>1, LimiterRests DEF LInv
  <2>4. KeyIsForJWT' /\ AuthSound'
    BY <2>1 DEF LInv, KeyIsForJWT, AuthSound, BreakGlass, PrincipalIsClaimed, Verified
  <2> QED BY <2>2, <2>3, <2>4 DEF LInv
<1>2. ASSUME NEW s \in Slots, Step(s) PROVE LInv'
  BY <1>2, AuthStep, PlainStep, LimitStep DEF Step
<1>3. ASSUME NEW s \in Slots, Answer(s) \/ \E q \in Requests : Arrive(s, q) PROVE LInv'
  BY <1>3, PlainStep
<1>4. CASE Tick
  BY <1>4, TickStep
<1>5. ASSUME NEW keys \in SUBSET Keys \ {{}}, Rotate(keys) PROVE LInv'
  BY <1>5, RotateStep
<1> QED BY <1>1, <1>2, <1>3, <1>4, <1>5 DEF Next

-----------------------------------------------------------------------------

\* The limiter (security.go: tenantRateLimiter): whatever the number of requests in
\* flight, the burst and the rate, a tenant never has more requests admitted than
\* the burst and what has flowed back, and is refused only for its own requests.
THEOREM LimiterSound == Spec => []LimitsHold
<1>1. LInv => LimitsHold
  <2> SUFFICES ASSUME LInv PROVE LimitsHold
    OBVIOUS
  <2>1. ASSUME NEW t \in Tenants PROVE admitted[t] <= Burst + Rate * now
    <3>1. /\ bucket \in [Tenants -> 0 .. Burst] /\ admitted \in [Tenants -> Nat]
          /\ now \in 0 .. MaxTime
      BY Zenon DEF LInv, TypeOK
    <3>2. Burst \in Nat /\ Rate \in Nat /\ MaxTime \in Nat
      BY GatewayAssumption
    <3>3. bucket[t] \in Nat /\ admitted[t] \in Nat /\ Rate * now \in Nat
      BY <2>1, <3>1, <3>2
    <3>4. bucket[t] + admitted[t] <= Burst + Rate * now
      BY <2>1 DEF LInv, Accounted
    <3> QED BY <3>2, <3>3, <3>4
  <2> QED BY <2>1 DEF LInv, LimitsHold, RateBound
<1> QED BY <1>1, InitLInv, NextLInv, PTL DEF Spec

\* Authentication (auth.go: ChainAuth, jwt.go): however fetches of the key set
\* overlap, fail or overwrite each other, a request passes only as the tenant its
\* own verified token names, and the local token is never refused.
THEOREM AuthenticationSound == Spec => []AuthSound
<1>1. LInv => AuthSound
  BY DEF LInv
<1> QED BY <1>1, InitLInv, NextLInv, PTL DEF Spec

=============================================================================
