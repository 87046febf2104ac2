------------------------------- MODULE Gateway -------------------------------
(***************************************************************************)
(* What a request to /v1 goes through before its handler (dashboard/       *)
(* api.go: routes): the body limit, authentication by JWT and then by the  *)
(* local token (auth.go, jwt.go), the origin check and the tenant's rate   *)
(* limit (security.go).  The identity provider rotates its keys; the       *)
(* fetches that fill the key cache overlap, fail, and answer late.         *)
(***************************************************************************)
EXTENDS Naturals, FiniteSets, FiniteSetsExt

CONSTANTS
  Slots,           \* requests in flight at once
  Requests,        \* the requests clients send
  Tenants, Keys,
  LocalTenant,     \* tenant of the local-admin token
  OIDC,            \* the JWT authenticator is configured
  RateLimited,     \* a rate limit is configured
  Burst, Rate,     \* its bucket, and the tokens that flow back in a unit of time
  MaxTime, MaxRotations, MaxFaults     \* bounds

ASSUME GatewayAssumption ==
  /\ LocalTenant \in Tenants
  /\ OIDC \in BOOLEAN /\ RateLimited \in BOOLEAN
  /\ Burst \in Nat \ {0} /\ Rate \in Nat
  /\ MaxTime \in Nat /\ MaxRotations \in Nat /\ MaxFaults \in Nat

VARIABLES
  pc, req,       \* what each slot is doing, for which request
  who,           \* the tenant of its principal
  reply,         \* the key set the provider answered it with
  idp,           \* the key set the provider publishes
  cache,         \* jwksCache.keys
  bucket,        \* bucket[t]: tokens of the tenant's limiter; full until it exists
  admitted,      \* history: how many requests of a tenant the limiter let pass
  limited,       \* history: a request of the tenant was answered 429
  now, rotations, faults

vars == <<pc, req, who, reply, idp, cache, bucket, admitted, limited, now, rotations, faults>>
limits == <<bucket, admitted, limited>>
outside == <<idp, now, rotations, faults>>

\* Of a credential: what it is ("none", "local", "jwt"), whether its method is
\* allowed, its key, whether signature, issuer, audience and expiry hold, and the
\* tenant claim ("" when there is none).
Credential == [is : {"none", "local", "jwt"}, method : BOOLEAN, kid : Keys,
               good : BOOLEAN, tenant : Tenants \cup {""}]
Request    == [big : BOOLEAN, cred : Credential, unsafe : BOOLEAN, origin : {"", "allowed", "other"}]

ASSUME RequestAssumption == Requests \subseteq Request /\ Requests # {}

NoRequest == CHOOSE q \in Requests : TRUE

Idle    == "idle"
Answers == {"413", "401", "403", "429", "handler"}

\* The provider publishes one of the given key sets.
InitWith(published) ==
  /\ pc = [s \in Slots |-> Idle]
  /\ req = [s \in Slots |-> NoRequest]
  /\ who = [s \in Slots |-> ""]
  /\ reply = [s \in Slots |-> {}]
  /\ idp \in published
  /\ cache = {}
  /\ bucket = [t \in Tenants |-> Burst]
  /\ admitted = [t \in Tenants |-> 0]
  /\ limited = [t \in Tenants |-> FALSE]
  /\ now = 0 /\ rotations = 0 /\ faults = 0

Init == InitWith({{k} : k \in Keys})

Go(s, from, to) == pc[s] = from /\ pc' = [pc EXCEPT ![s] = to]

-----------------------------------------------------------------------------
(* limitBody.                                                               *)

Arrive(s, q) ==
  /\ Go(s, Idle, IF q.big THEN "413" ELSE "auth")
  /\ req' = [req EXCEPT ![s] = q]
  /\ UNCHANGED <<who, reply, cache, limits, outside>>

-----------------------------------------------------------------------------
(* ChainAuth: JWTAuth if it is configured, then StaticAuth.                 *)

\* StaticAuth has one token; whatever failed as a JWT is not it.
StaticAuth(s, from) ==
  LET local == req[s].cred.is = "local"
  IN  /\ Go(s, from, IF local THEN "csrf" ELSE "401")
      /\ who' = [who EXCEPT ![s] = IF local THEN LocalTenant ELSE @]

\* Claims are looked at once the key is found; a tenant is required.
Verified(c) == c.good /\ c.tenant # ""

\* Faulty variant: a key is enough.
Accept_byKey(s, from) ==
  /\ Go(s, from, "csrf")
  /\ who' = [who EXCEPT ![s] = req[s].cred.tenant]

Accept(s, from) ==
  /\ Verified(req[s].cred)
  /\ Go(s, from, "csrf")
  /\ who' = [who EXCEPT ![s] = req[s].cred.tenant]

\* The token does not parse, or its method is not allowed: no key is looked for.
SkipJWT(s) ==
  /\ ~OIDC \/ req[s].cred.is # "jwt" \/ ~req[s].cred.method
  /\ StaticAuth(s, "auth")
  /\ UNCHANGED <<req, reply, cache, limits, outside>>

UsesKey(s) == OIDC /\ req[s].cred.is = "jwt" /\ req[s].cred.method

\* keyfunc's first lookup.
Lookup(s) ==
  /\ UsesKey(s)
  /\ IF req[s].cred.kid \in cache
       THEN Accept(s, "auth") \/ (~Verified(req[s].cred) /\ StaticAuth(s, "auth"))
       ELSE Go(s, "auth", "fetch") /\ UNCHANGED who
  /\ UNCHANGED <<req, reply, cache, limits, outside>>

\* refresh: the provider answers with the keys it publishes at that moment.
Fetch(s) ==
  /\ Go(s, "fetch", "store")
  /\ reply' = [reply EXCEPT ![s] = idp]
  /\ UNCHANGED <<req, who, cache, limits, outside>>

\* No connection, a timeout, a status other than 200, a body that is no key set.
FetchFails(s) ==
  /\ faults < MaxFaults /\ faults' = faults + 1
  /\ StaticAuth(s, "fetch")
  /\ UNCHANGED <<req, reply, cache, limits, idp, now, rotations>>

\* Faulty variant: only the first answer is kept.
Store_once(s) ==
  /\ Go(s, "store", "relook")
  /\ cache' = IF cache = {} THEN reply[s] ELSE cache
  /\ reply' = [reply EXCEPT ![s] = {}]
  /\ UNCHANGED <<req, who, limits, outside>>

\* The answer replaces the cached set, be it older or newer.
Store(s) ==
  /\ Go(s, "store", "relook")
  /\ cache' = reply[s]
  /\ reply' = [reply EXCEPT ![s] = {}]
  /\ UNCHANGED <<req, who, limits, outside>>

\* keyfunc's second lookup, in whatever is cached by now.
Relook(s) ==
  /\ IF req[s].cred.kid \in cache
       THEN Accept(s, "relook") \/ (~Verified(req[s].cred) /\ StaticAuth(s, "relook"))
       ELSE StaticAuth(s, "relook")
  /\ UNCHANGED <<req, reply, cache, limits, outside>>

-----------------------------------------------------------------------------
(* csrfOrigin, with an allowlist, and tenantRateLimiter.                    *)

CsrfOrigin(s) ==
  /\ Go(s, "csrf", IF req[s].unsafe /\ req[s].origin = "other" THEN "403"
                   ELSE IF RateLimited THEN "limit" ELSE "handler")
  /\ UNCHANGED <<req, who, reply, cache, limits, outside>>

\* Faulty variant: a bucket for every request.
Limit_anew(s) ==
  /\ Go(s, "limit", "handler")
  /\ admitted[who[s]] <= Burst + Rate * MaxTime
  /\ admitted' = [admitted EXCEPT ![who[s]] = @ + 1]
  /\ UNCHANGED <<req, who, reply, cache, bucket, limited, outside>>

\* limiterFor makes the tenant's limiter, with a full bucket, when it has none.
Limit(s) ==
  LET t == who[s]
  IN  /\ Go(s, "limit", IF bucket[t] > 0 THEN "handler" ELSE "429")
      /\ bucket' = [bucket EXCEPT ![t] = IF @ > 0 THEN @ - 1 ELSE @]
      /\ admitted' = [admitted EXCEPT ![t] = IF bucket[t] > 0 THEN @ + 1 ELSE @]
      /\ limited' = [limited EXCEPT ![t] = @ \/ bucket[t] = 0]
      /\ UNCHANGED <<req, who, reply, cache, outside>>

Answer(s) ==
  /\ pc[s] \in Answers
  /\ pc' = [pc EXCEPT ![s] = Idle]
  /\ req' = [req EXCEPT ![s] = NoRequest]
  /\ who' = [who EXCEPT ![s] = ""]
  /\ UNCHANGED <<reply, cache, limits, outside>>

-----------------------------------------------------------------------------
(* Time, and the provider.                                                  *)

Tick ==
  /\ now < MaxTime
  /\ now' = now + 1
  /\ bucket' = [t \in Tenants |-> Min({Burst, bucket[t] + Rate})]
  /\ UNCHANGED <<pc, req, who, reply, cache, admitted, limited, idp, rotations, faults>>

Rotate(keys) ==
  /\ OIDC /\ rotations < MaxRotations
  /\ idp' = keys
  /\ rotations' = rotations + 1
  /\ UNCHANGED <<pc, req, who, reply, cache, limits, now, faults>>

Step(s) ==
  \/ SkipJWT(s) \/ Lookup(s) \/ Fetch(s) \/ FetchFails(s) \/ Store(s) \/ Relook(s)
  \/ CsrfOrigin(s) \/ Limit(s)

Next ==
  \/ \E s \in Slots : Step(s) \/ Answer(s) \/ \E q \in Requests : Arrive(s, q)
  \/ Tick
  \/ \E keys \in SUBSET Keys \ {{}} : Rotate(keys)

Spec == Init /\ [][Next]_vars

Usable(q) == q.cred.is = "jwt" /\ q.cred.method /\ Verified(q.cred) /\ ~q.big

\* Handlers run, and clients with a usable token ask again and again; nothing makes
\* the provider rotate.
Fairness ==
  /\ \A s \in Slots : WF_vars(Step(s) \/ Answer(s))
  /\ \A q \in {x \in Requests : Usable(x)} : SF_vars(\E s \in Slots : Arrive(s, q))

FairSpec == Spec /\ Fairness

-----------------------------------------------------------------------------
(* Properties.                                                              *)

TypeOK ==
  /\ pc \in [Slots -> {Idle, "auth", "fetch", "store", "relook", "csrf", "limit"} \cup Answers]
  /\ req \in [Slots -> Requests]
  /\ who \in [Slots -> Tenants \cup {""}]
  /\ reply \in [Slots -> SUBSET Keys]
  /\ idp \in SUBSET Keys /\ cache \in SUBSET Keys
  /\ bucket \in [Tenants -> 0..Burst]
  /\ admitted \in [Tenants -> Nat]
  /\ limited \in [Tenants -> BOOLEAN]
  /\ now \in 0..MaxTime /\ rotations \in 0..MaxRotations /\ faults \in 0..MaxFaults

RateBound == \A t \in Tenants : admitted[t] <= Burst + Rate * now

TenantsIsolated == \A t \in Tenants : limited[t] => admitted[t] >= Burst

\* However the requests of a tenant interleave (security.go:101), no more of them
\* pass in any time than the bucket held and what flowed back into it; and a
\* tenant is only refused when its own requests emptied the bucket: "per-tenant
\* rate limit isolates tenants" (docs/PROGRESS.md:686).
LimitsHold == TypeOK /\ RateBound /\ TenantsIsolated

BreakGlass == \A s \in Slots : pc[s] = "401" => req[s].cred.is # "local"

PrincipalIsClaimed ==
  \A s \in Slots : pc[s] \in {"csrf", "limit"} =>
    LET c == req[s].cred
    IN  IF c.is = "local" THEN who[s] = LocalTenant ELSE Verified(c) /\ who[s] = c.tenant

\* What passes authentication passes for the tenant of the verified claims of its
\* own token, whatever the other requests do to the key cache meanwhile; and the
\* local token is accepted whether or not the provider answers: it "remains as a
\* break-glass fallback" (docs/auth.md:39).
AuthSound == BreakGlass /\ PrincipalIsClaimed

Accepted(q) == \E s \in Slots : req[s] = q /\ pc[s] = "csrf"

\* Once the provider has stopped rotating, a client that keeps asking with a token
\* by a published key is let in, although an answer fetched before a rotation may
\* overwrite a newer key set (jwt.go:159).
CurrentKeyAccepted ==
  \A q \in Requests :
    Usable(q) => (<>[](q.cred.kid \in idp) => []<>Accepted(q))

=============================================================================
