-------------------------- MODULE DashboardProofs ----------------------------
(***************************************************************************)
(* The dashboard's type invariant and its safety properties, proved for    *)
(* every set of tenants, clusters, findings and concurrent calls.          *)
(***************************************************************************)
EXTENDS Dashboard, TLAPS

-----------------------------------------------------------------------------
(* What each method of the store preserves.  The proofs about the dashboard *)
(* cite these lemmas and never expand the methods themselves.               *)

\* A map with one key put is the map at every other key.
LEMMA PutFact ==
  ASSUME NEW f, NEW k, NEW v
  PROVE  /\ DOMAIN Put(f, k, v) = DOMAIN f \cup {k}
         /\ Put(f, k, v)[k] = v
         /\ \A x \in DOMAIN f \ {k} : Put(f, k, v)[x] = f[x]
BY DEF Put

LEMMA RestrictFact ==
  ASSUME NEW f, NEW S
  PROVE  /\ DOMAIN Restrict(f, S) = S
         /\ \A x \in S : Restrict(f, S)[x] = f[x]
BY DEF Restrict

-----------------------------------------------------------------------------
(* The methods keep the store well-typed.                                  *)

LEMMA NewClusterType == NewCluster \in clusterState
BY DEF NewCluster, clusterState, Report, Never

LEMMA OpenRowType ==
  ASSUME NEW s \in Nat, NEW u \in Nat
  PROVE  OpenRow(s, u) \in FindingLifecycle
BY DEF OpenRow, FindingLifecycle, FindingState, triageStates, Never

LEMMA RegisterClusterType ==
  ASSUME StoreTypeOK, NEW t \in Tenants, NEW c \in Clusters, RegisterCluster(t, c)
  PROVE  StoreTypeOK'
<1>1. CASE GetCluster(t, c)
  BY <1>1 DEF StoreTypeOK, RegisterCluster
<1>2. CASE ~GetCluster(t, c)
  <2>1. Append(order[t], c) \in Seq(Clusters)
    BY DEF StoreTypeOK
  <2>2. /\ tenants' = tenants \cup {t}
        /\ clusters' = [clusters EXCEPT ![t] = Put(clusters[t], c, NewCluster)]
        /\ order' = [order EXCEPT ![t] = Append(order[t], c)]
        /\ lifecycle' = lifecycle
    BY <1>2 DEF RegisterCluster
  <2> QED
    BY <2>1, <2>2, NewClusterType DEF StoreTypeOK, Put
<1> QED BY <1>1, <1>2

LEMMA DeleteClusterType ==
  ASSUME StoreTypeOK, NEW t \in Tenants, NEW c \in Clusters, GetCluster(t, c),
         Without(order[t], c) \in Seq(Clusters), DeleteCluster(t, c)
  PROVE  StoreTypeOK'
BY DEF StoreTypeOK, DeleteCluster, Restrict

LEMMA RecordScanType ==
  ASSUME StoreTypeOK, NEW t \in Tenants, NEW c \in Clusters, NEW id \in Calls,
         NEW rep \in Report, NEW at \in Nat, RecordScan(t, c, id, rep, at)
  PROVE  StoreTypeOK'
<1> DEFINE cs    == IF GetCluster(t, c) THEN clusters[t][c] ELSE NewCluster
           entry == [id |-> id, at |-> at, rep |-> rep]
           new   == [ hasScan |-> TRUE, latest |-> rep, lastScanAt |-> at,
                      scans   |-> <<entry>> \o cs.scans,
                      history |-> Append(cs.history, entry) ]
<1>1. cs \in clusterState
  BY NewClusterType DEF StoreTypeOK, GetCluster
<1>2. entry \in ScanEntry
  BY DEF ScanEntry
<1>3. cs.scans \in Seq(ScanEntry) /\ cs.history \in Seq(ScanEntry)
  BY <1>1 DEF clusterState
<1> HIDE DEF cs, entry
<1>4. <<entry>> \o cs.scans \in Seq(ScanEntry) /\ Append(cs.history, entry) \in Seq(ScanEntry)
  BY <1>2, <1>3
<1>5. new \in clusterState
  BY <1>4 DEF clusterState
<1> HIDE DEF new
<1>6. /\ tenants' = tenants \cup {t}
      /\ clusters' = [clusters EXCEPT ![t] = Put(clusters[t], c, new)]
      /\ order' = IF GetCluster(t, c) THEN order ELSE [order EXCEPT ![t] = Append(@, c)]
      /\ lifecycle' = lifecycle
  BY DEF RecordScan, new, cs, entry
<1>7. Append(order[t], c) \in Seq(Clusters)
  BY DEF StoreTypeOK
<1> QED
  BY <1>5, <1>6, <1>7 DEF StoreTypeOK, Put

LEMMA ProvisionTenantType ==
  ASSUME StoreTypeOK, NEW t \in Tenants, ProvisionTenant(t)
  PROVE  StoreTypeOK'
BY DEF StoreTypeOK, ProvisionTenant

LEMMA DeleteTenantType ==
  ASSUME StoreTypeOK, NEW t \in Tenants, DeleteTenant(t)
  PROVE  StoreTypeOK'
BY DEF StoreTypeOK, DeleteTenant, EmptyMap

LEMMA SeedFindingsType ==
  ASSUME StoreTypeOK, NEW t \in Tenants, NEW c \in Clusters, NEW rep \in Report,
         NEW now \in Nat, SeedFindings(t, c, rep, now)
  PROVE  StoreTypeOK'
<1>1. {c} \X rep \subseteq Keys
  BY DEF Keys, Report
<1> QED
  BY <1>1, OpenRowType DEF StoreTypeOK, SeedFindings

LEMMA UpsertLifecycleType ==
  ASSUME StoreTypeOK, NEW t \in Tenants, NEW k \in Keys, NEW lc \in FindingLifecycle,
         UpsertLifecycle(t, k, lc)
  PROVE  StoreTypeOK'
BY DEF StoreTypeOK, UpsertLifecycle, Put

-----------------------------------------------------------------------------
(* The registration order and the cluster map stay in step.                *)

LEMMA AppendKeepsOrder ==
  ASSUME NEW S, NEW s \in Seq(S), NEW c \in S, IsInjective(s), c \notin Range(s)
  PROVE  /\ IsInjective(Append(s, c))
         /\ Range(Append(s, c)) = Range(s) \cup {c}
<1> DEFINE a == Append(s, c)
<1>1. /\ DOMAIN s = 1 .. Len(s) /\ Len(s) \in Nat
      /\ DOMAIN a = 1 .. Len(s) + 1
      /\ \A i \in 1 .. Len(s) : a[i] = s[i]
      /\ a[Len(s) + 1] = c
  OBVIOUS
<1> HIDE DEF a
<1>2. IsInjective(a)
  BY <1>1 DEF IsInjective, Range
<1>3. Range(a) = Range(s) \cup {c}
  BY <1>1 DEF Range
<1> QED BY <1>2, <1>3 DEF a

\* An id that occurs once is gone from the list.
LEMMA WithoutKeepsOrder ==
  ASSUME NEW S, NEW s \in Seq(S), NEW c, IsInjective(s), c \in Range(s)
  PROVE  /\ Without(s, c) \in Seq(S)
         /\ IsInjective(Without(s, c))
         /\ Range(Without(s, c)) = Range(s) \ {c}
<1>1. DOMAIN s = 1 .. Len(s) /\ Len(s) \in Nat /\ \A j \in 1 .. Len(s) : s[j] \in S
  OBVIOUS
<1>2. PICK i \in 1 .. Len(s) : s[i] = c
  BY <1>1 DEF Range
<1>3. {j \in DOMAIN s : s[j] = c} = {i}
  BY <1>1, <1>2 DEF IsInjective
<1>4. Min({i}) = i
  BY <1>1 DEF Min
<1> DEFINE r == [j \in 1 .. (Len(s) - 1) |-> IF j < i THEN s[j] ELSE s[j + 1]]
<1>5. Without(s, c) = r
  BY <1>3, <1>4, Zenon DEF Without
<1>6. Len(s) - 1 \in Nat
  BY <1>1, <1>2
<1>7. /\ DOMAIN r = 1 .. (Len(s) - 1)
      /\ \A j \in 1 .. (Len(s) - 1) : r[j] = IF j < i THEN s[j] ELSE s[j + 1]
  OBVIOUS
<1>8. r \in Seq(S)
  <2>1. r \in [1 .. (Len(s) - 1) -> S]
    BY <1>1, <1>2
  <2> HIDE DEF r
  <2> QED BY <1>6, <2>1
<1> HIDE DEF r
<1>9. IsInjective(r)
  <2>1. SUFFICES ASSUME NEW j \in 1 .. (Len(s) - 1), NEW k \in 1 .. (Len(s) - 1), r[j] = r[k]
                 PROVE  j = k
    BY <1>7 DEF IsInjective
  <2> DEFINE at(n) == IF n < i THEN n ELSE n + 1
  <2>2. at(j) \in 1 .. Len(s) /\ at(k) \in 1 .. Len(s) /\ s[at(j)] = s[at(k)]
    BY <2>1, <1>1, <1>2, <1>7
  <2>3. at(j) = at(k)
    BY <2>2, <1>1 DEF IsInjective
  <2> QED BY <2>3, <1>2
<1>10. Range(r) = Range(s) \ {c}
  <2>1. ASSUME NEW j \in 1 .. (Len(s) - 1) PROVE r[j] \in Range(s) \ {c}
    <3>1. PICK n \in 1 .. Len(s) : n # i /\ r[j] = s[n]
      <4>1. CASE j < i BY <4>1, <1>1, <1>2, <1>7
      <4>2. CASE ~(j < i) BY <4>2, <1>1, <1>2, <1>7
      <4> QED BY <4>1, <4>2
    <3>2. s[n] # c
      BY <3>1, <1>1, <1>2 DEF IsInjective
    <3> QED BY <3>1, <3>2, <1>1 DEF Range
  <2>2. ASSUME NEW j \in 1 .. Len(s), s[j] # c PROVE s[j] \in Range(r)
    <3>1. CASE j < i
      BY <3>1, <2>2, <1>1, <1>2, <1>7 DEF Range
    <3>2. CASE j > i
      <4>1. j - 1 \in 1 .. (Len(s) - 1) /\ ~(j - 1 < i) /\ (j - 1) + 1 = j
        BY <3>2, <1>1, <1>2
      <4>2. r[j - 1] = s[j]
        BY <4>1, <1>7
      <4> QED BY <4>1, <4>2, <1>7, Zenon DEF Range
    <3> QED BY <3>1, <3>2, <2>2, <1>2
  <2> QED BY <2>1, <2>2, <1>1, <1>7 DEF Range
<1> QED BY <1>5, <1>8, <1>9, <1>10

LEMMA RegisterClusterOrder ==
  ASSUME StoreTypeOK, OrderListsClusters, NEW t \in Tenants, NEW c \in Clusters,
         RegisterCluster(t, c)
  PROVE  OrderListsClusters'
<1>1. CASE GetCluster(t, c)
  BY <1>1 DEF RegisterCluster, OrderListsClusters, StoreTypeOK, GetCluster
<1>2. CASE ~GetCluster(t, c)
  <2>1. /\ tenants' = tenants \cup {t}
        /\ clusters' = [clusters EXCEPT ![t] = Put(clusters[t], c, NewCluster)]
        /\ order' = [order EXCEPT ![t] = Append(order[t], c)]
    BY <1>2 DEF RegisterCluster
  <2>2. /\ IsInjective(Append(order[t], c))
        /\ Range(Append(order[t], c)) = DOMAIN clusters[t] \cup {c}
    BY <1>2, AppendKeepsOrder DEF StoreTypeOK, OrderListsClusters, GetCluster
  <2>3. DOMAIN Put(clusters[t], c, NewCluster) = DOMAIN clusters[t] \cup {c}
    BY PutFact, Zenon
  <2> QED
    BY <2>1, <2>2, <2>3, Zenon DEF OrderListsClusters, StoreTypeOK
<1> QED BY <1>1, <1>2

LEMMA DeleteClusterOrder ==
  ASSUME StoreTypeOK, OrderListsClusters, NEW t \in Tenants, NEW c \in Clusters,
         GetCluster(t, c), DeleteCluster(t, c)
  PROVE  StoreTypeOK' /\ OrderListsClusters'
<1>1. /\ Without(order[t], c) \in Seq(Clusters)
      /\ IsInjective(Without(order[t], c))
      /\ Range(Without(order[t], c)) = DOMAIN clusters[t] \ {c}
  BY WithoutKeepsOrder DEF StoreTypeOK, OrderListsClusters, GetCluster
<1>2. StoreTypeOK'
  BY <1>1, DeleteClusterType
<1>3. OrderListsClusters'
  BY <1>1, Zenon DEF OrderListsClusters, StoreTypeOK, DeleteCluster, Restrict
<1> QED BY <1>2, <1>3

LEMMA RecordScanOrder ==
  ASSUME StoreTypeOK, OrderListsClusters, NEW t \in Tenants, NEW c \in Clusters,
         NEW id, NEW rep, NEW at, RecordScan(t, c, id, rep, at)
  PROVE  OrderListsClusters'
<1>1. PICK new :
        /\ tenants' = tenants \cup {t}
        /\ clusters' = [clusters EXCEPT ![t] = Put(clusters[t], c, new)]
        /\ order' = IF GetCluster(t, c) THEN order
                                        ELSE [order EXCEPT ![t] = Append(@, c)]
  BY Zenon DEF RecordScan
<1>2. DOMAIN Put(clusters[t], c, new) = DOMAIN clusters[t] \cup {c}
  BY PutFact, Zenon
<1>3. CASE GetCluster(t, c)
  BY <1>1, <1>2, <1>3 DEF OrderListsClusters, StoreTypeOK, GetCluster
<1>4. CASE ~GetCluster(t, c)
  <2>1. /\ IsInjective(Append(order[t], c))
        /\ Range(Append(order[t], c)) = DOMAIN clusters[t] \cup {c}
    BY <1>4, AppendKeepsOrder DEF StoreTypeOK, OrderListsClusters, GetCluster
  <2> QED
    BY <1>1, <1>2, <1>4, <2>1, Zenon DEF OrderListsClusters, StoreTypeOK
<1> QED BY <1>3, <1>4

LEMMA DeleteTenantOrder ==
  ASSUME StoreTypeOK, OrderListsClusters, NEW t \in Tenants, DeleteTenant(t)
  PROVE  OrderListsClusters'
<1>1. IsInjective(<<>>) /\ Range(<<>>) = {}
  BY DEF IsInjective, Range
<1> QED
  BY <1>1, Zenon DEF OrderListsClusters, StoreTypeOK, DeleteTenant, EmptyMap

-----------------------------------------------------------------------------
(* The store at startup.                                                   *)

LEMMA StoreInitOK ==
  ASSUME NEW home \in Tenants, NEW configured \in SUBSET Clusters,
         Cardinality(configured) \in Nat, StoreInit(home, configured)
  PROVE  StoreTypeOK /\ OrderListsClusters
<1>1. PICK ids \in Listings(configured) :
        order = [t \in Tenants |-> IF t = home THEN ids ELSE <<>>]
  BY DEF StoreInit
<1>2. ids \in Seq(Clusters) /\ IsInjective(ids) /\ Range(ids) = configured
  BY <1>1 DEF Listings
<1>3. IsInjective(<<>>) /\ Range(<<>>) = {}
  BY DEF IsInjective, Range
<1>4. StoreTypeOK
  BY <1>1, <1>2, NewClusterType DEF StoreInit, StoreTypeOK, EmptyMap
<1>5. OrderListsClusters
  BY <1>1, <1>2, <1>3, Zenon DEF StoreInit, OrderListsClusters, EmptyMap
<1> QED BY <1>4, <1>5

-----------------------------------------------------------------------------
(* Types and control.                                                      *)

\* A step belongs to one kind of handler: what makes the fields of a request
\* that a step reads well-defined.
ControlAt(p) ==
  /\ pc[p] = "idle" <=> req[p] = NoRequest
  /\ pc[p] \in {"addSource", "register", "auditWrite"} => req[p].op = "register"
  /\ pc[p] \in {"deleteCluster", "removeSource", "auditDelete"} => req[p].op = "delete"
  /\ pc[p] \in {"provision", "auditProvision"} => req[p].op = "provision"
  /\ pc[p] \in {"auditErase", "deleteTenant", "purge"} => req[p].op = "erase"
  /\ pc[p] = "getCluster" => req[p].op = "trigger"
  /\ pc[p] \in {"scan", "stampRecord", "record", "stampSeed", "seed", "succeed", "fail"}
       => req[p].op \in ScanOps
  /\ pc[p] = "scan" => local[p].tries < attempts
  /\ pc[p] \in {"idle", "getCluster"} => local[p] = NoLocal
  /\ pc[p] = "validate" => req[p].op = "waive"
  /\ pc[p] = "search" => req[p].op \in {"triage", "waive"}
  /\ pc[p] \in {"load", "stampRow", "upsert", "auditRow"}
       => req[p].op \in {"triage", "waive", "revoke"}

ControlOK == \A p \in Calls : ControlAt(p)

TInv == StoreTypeOK /\ OrderListsClusters /\ ApiTypeOK /\ ControlOK

\* The fields a request has, by its operation.
LEMMA RequestFields ==
  ASSUME NEW r \in Request
  PROVE  /\ r # NoRequest
         /\ r.op \in AllOps
         /\ r.tenant \in Tenants
         /\ r.op \in {"provision", "erase"} => r.target \in Tenants
         /\ r.op \notin {"provision", "erase"} => r.cluster \in Clusters
         /\ r.op \in {"triage", "waive", "revoke"} => r.finding \in Findings
         /\ r.op = "triage" => r.state \in triageStates
         /\ r.op = "waive" => r.until \in Deadlines
BY DEF Request, NoRequest, AllOps

\* What TInv says of a call that has been entered.
LEMMA CallFields ==
  ASSUME TInv, NEW p \in Calls, pc[p] # "idle"
  PROVE  /\ req[p] \in Request
         /\ Tenant(p) \in Tenants
         /\ req[p].op \in {"provision", "erase"} => req[p].target \in Tenants
         /\ req[p].op \notin {"provision", "erase"} => Cluster(p) \in Clusters
         /\ req[p].op \in {"triage", "waive", "revoke"} => Key(p) \in Keys
         /\ local[p].rep \in Report /\ local[p].lc \in FindingLifecycle
         /\ local[p].at \in Nat /\ local[p].at <= MaxTime
<1>1. req[p] \in Request
  BY DEF TInv, ApiTypeOK, ControlOK, ControlAt
<1>2. local[p] \in Local
  BY DEF TInv, ApiTypeOK
<1>3. local[p].rep \in Report /\ local[p].lc \in FindingLifecycle
      /\ local[p].at \in 0 .. MaxTime
  BY <1>2 DEF Local
<1> QED
  BY <1>1, <1>3, RequestFields, ApiAssumption DEF Tenant, Cluster, Key, Keys

-----------------------------------------------------------------------------
(* TInv is inductive.                                                      *)

LEMMA UnchangedStore ==
  ASSUME TInv, UNCHANGED store
  PROVE  StoreTypeOK' /\ OrderListsClusters'
BY DEF TInv, store, StoreTypeOK, OrderListsClusters

LEMMA NoLocalType ==
  NoLocal \in Local
<1>1. OpenRow(Never, Never) \in FindingLifecycle
  BY OpenRowType DEF Never
<1> QED BY <1>1, ApiAssumption DEF NoLocal, Local, Report, Never, attempts

LEMMA TInvInit == Init => TInv
<1> SUFFICES ASSUME Init PROVE TInv
  OBVIOUS
<1>1. StoreTypeOK /\ OrderListsClusters
  BY StoreInitOK, ApiAssumption DEF Init
<1>2. ApiTypeOK
  BY NoLocalType, ApiAssumption DEF Init, ApiTypeOK, Report, Step
<1>3. ControlOK
  BY DEF Init, ControlOK, ControlAt
<1> QED BY <1>1, <1>2, <1>3 DEF TInv

LEMMA EntryAdded ==
  ASSUME TInv, NEW p \in Calls, NEW t \in Tenants, NEW action \in auditAction,
         NEW result \in {"allowed", "denied", "failed"},
         audit' = [audit EXCEPT ![t] = @ \cup {[by |-> p, action |-> action, result |-> result]}]
  PROVE  audit' \in [Tenants -> SUBSET Entry]
<1>1. [by |-> p, action |-> action, result |-> result] \in Entry
  BY DEF Entry
<1> QED BY <1>1 DEF TInv, ApiTypeOK

LEMMA WriteType ==
  ASSUME TInv, NEW p \in Calls, pc[p] # "idle", NEW action \in auditAction,
         NEW result \in {"allowed", "denied", "failed"}, Write(p, action, result)
  PROVE  audit' \in [Tenants -> SUBSET Entry]
BY EntryAdded, CallFields, Zenon DEF Write

LEMMA ReturnType ==
  ASSUME TInv, NEW p \in Calls, NEW status \in Status, Return(p, status)
  PROVE  /\ pc' \in [Calls -> Step \cup Status]
         /\ local' \in [Calls -> Local]
BY NoLocalType DEF Return, TInv, ApiTypeOK

LEMMA GotoType ==
  ASSUME TInv, NEW p \in Calls, NEW step \in Step, Goto(p, step)
  PROVE  pc' \in [Calls -> Step \cup Status]
BY DEF Goto, TInv, ApiTypeOK

LEMMA StampType ==
  ASSUME TInv, NEW p \in Calls, NEW from \in Step, NEW to \in Step, Stamp(p, from, to)
  PROVE  ApiTypeOK'
<1>1. [local[p] EXCEPT !.at = clock] \in Local
  BY ApiAssumption DEF TInv, ApiTypeOK, Local
<1> QED BY <1>1, GotoType DEF Stamp, TInv, ApiTypeOK

LEMMA RowLoaded ==
  ASSUME TInv, NEW p \in Calls, NEW lc \in FindingLifecycle,
         local' = [local EXCEPT ![p].lc = lc]
  PROVE  local' \in [Calls -> Local]
<1>1. [local[p] EXCEPT !.lc = lc] \in Local
  BY DEF TInv, ApiTypeOK, Local
<1> QED BY <1>1 DEF TInv, ApiTypeOK

\* A row read from the store is a row.
LEMMA RowType ==
  ASSUME TInv, NEW t \in Tenants, NEW k \in DOMAIN lifecycle[t]
  PROVE  lifecycle[t][k] \in FindingLifecycle
BY DEF TInv, StoreTypeOK

\* A step of one call leaves the control state of the others alone.
LEMMA OtherCalls ==
  ASSUME TInv, NEW p \in Calls, CallStep(p), NEW q \in Calls, q # p
  PROVE  pc'[q] = pc[q] /\ req'[q] = req[q] /\ local'[q] = local[q]
<1> USE DEF TInv, ApiTypeOK, Goto, Return
<1>1. CASE ApiStep(p)
  BY <1>1 DEF ApiStep, Serve, AddSource, RejectSource, Register, AuditWrite, Delete,
              RemoveSource, AuditDelete, Provision, AuditProvision, AuditErase,
              EraseTenant, PurgeTenant
<1>2. CASE ScanStep(p)
  BY <1>2 DEF ScanStep, CronFire, TriggerScan, ScannerSucceeds, ScannerFails,
              StampRecord, Record, StampSeed, Seed, Stamp, Succeed, Fail
<1>3. CASE TriageStep(p)
  BY <1>3 DEF TriageStep, ValidateWaiver, Load, Search, LoadWaiver, StampRow, Stamp,
              Upsert, AuditRow
<1> QED BY <1>1, <1>2, <1>3 DEF CallStep

\* A step that keeps every other call in place has only its own call to answer for.
LEMMA ControlKept ==
  ASSUME TInv, NEW p \in Calls, ControlAt(p)',
         \A q \in Calls \ {p} : pc'[q] = pc[q] /\ req'[q] = req[q] /\ local'[q] = local[q]
  PROVE  ControlOK'
<1> SUFFICES ASSUME NEW q \in Calls, q # p PROVE ControlAt(q)'
  BY DEF ControlOK
<1>1. ControlAt(q)
  BY DEF TInv, ControlOK
<1> QED BY <1>1 DEF ControlAt

LEMMA ApiStepTInv ==
  ASSUME TInv, NEW p \in Calls, ApiStep(p)
  PROVE  TInv'
<1> USE DEF ScanOps, attempts
<1>a. ControlAt(p)
  BY DEF TInv, ControlOK
<1>b. ControlAt(p)' => ControlOK'
  BY OtherCalls, ControlKept DEF CallStep
<1>1. CASE Serve(p)
  <2>1. StoreTypeOK' /\ OrderListsClusters'
    BY <1>1, UnchangedStore DEF Serve
  <2> PICK r \in Request, role \in Role, superAdmin \in BOOLEAN :
         /\ r.op \in Ops \ {"cron"}
         /\ req' = [req EXCEPT ![p] = r]
         /\ IF Authorized(r, role, superAdmin)
              THEN Goto(p, firstStep(r.op)) /\ UNCHANGED audit
              ELSE /\ Goto(p, "forbidden")
                   /\ audit' = [audit EXCEPT ![r.tenant] =
                        @ \cup {[by |-> p, action |-> routeAction(r.op),
                                 result |-> "denied"]}]
    BY <1>1, Zenon DEF Serve
  <2>a. /\ pc[p] = "idle" /\ local[p] = NoLocal
        /\ r.op \in AllOps \ {"cron"} /\ r.tenant \in Tenants
        /\ UNCHANGED <<sources, gauge, clock, local>>
    BY <1>a, <1>1, RequestFields, ApiAssumption DEF Serve, TInv, ControlAt
  <2>b. routeAction(r.op) \in auditAction
    BY <2>a DEF routeAction, auditAction, AllOps
  <2>c. audit' \in [Tenants -> SUBSET Entry]
    BY <2>a, <2>b, EntryAdded DEF TInv, ApiTypeOK
  <2>d. \/ pc' = [pc EXCEPT ![p] = "forbidden"]
        \/ pc' = [pc EXCEPT ![p] = firstStep(r.op)]
    BY DEF Goto
  <2>e. /\ firstStep(r.op) \in Step \ {"idle", "scan"}
        /\ r.op = "register" => firstStep(r.op) = "addSource"
        /\ r.op = "delete" => firstStep(r.op) = "deleteCluster"
        /\ r.op = "trigger" => firstStep(r.op) = "getCluster"
        /\ r.op = "provision" => firstStep(r.op) = "provision"
        /\ r.op = "erase" => firstStep(r.op) = "auditErase"
        /\ r.op = "waive" => firstStep(r.op) = "validate"
        /\ r.op \in {"triage", "revoke"} => firstStep(r.op) = "load"
    BY <2>a, Zenon DEF firstStep, AllOps, Step
  <2>2. ApiTypeOK'
    BY <2>a, <2>c, <2>d, <2>e DEF TInv, ApiTypeOK, Status
  <2>f. r # NoRequest
    BY RequestFields
  <2>3. ControlAt(p)'
    BY <1>a, <2>a, <2>d, <2>e, <2>f DEF TInv, ApiTypeOK, ControlAt, AllOps
  <2> QED BY <1>b, <2>1, <2>2, <2>3 DEF TInv
<1>2. CASE AddSource(p)
  <2>1. StoreTypeOK' /\ OrderListsClusters'
    BY <1>2, UnchangedStore DEF AddSource
  <2>a. Cluster(p) \in Clusters
    BY <1>a, <1>2, CallFields DEF AddSource, TInv, ControlAt
  <2>2. ApiTypeOK'
    BY <1>2, GotoType, <2>a DEF TInv, ApiTypeOK, AddSource, Step
  <2>3. ControlAt(p)'
    BY <1>a, <1>2 DEF TInv, ApiTypeOK, ControlAt, AddSource, Goto, Status
  <2> QED BY <1>b, <2>1, <2>2, <2>3 DEF TInv
<1>3. CASE RejectSource(p)
  <2>1. StoreTypeOK' /\ OrderListsClusters'
    BY <1>3, UnchangedStore DEF RejectSource
  <2>2. ApiTypeOK'
    BY <1>3, ReturnType DEF TInv, ApiTypeOK, RejectSource, Status
  <2>3. ControlAt(p)'
    BY <1>a, <1>3 DEF TInv, ApiTypeOK, ControlAt, RejectSource, Return, Status
  <2> QED BY <1>b, <2>1, <2>2, <2>3 DEF TInv
<1>4. CASE Register(p)
  <2>0. Tenant(p) \in Tenants /\ Cluster(p) \in Clusters
    BY <1>a, <1>4, CallFields DEF Register, TInv, ControlAt
  <2>1. StoreTypeOK' /\ OrderListsClusters'
    BY <1>4, <2>0, RegisterClusterType, RegisterClusterOrder DEF Register, TInv
  <2>2. ApiTypeOK'
    BY <1>4, GotoType DEF TInv, ApiTypeOK, Register, Step
  <2>3. ControlAt(p)'
    BY <1>a, <1>4 DEF TInv, ApiTypeOK, ControlAt, Register, Goto, Status
  <2> QED BY <1>b, <2>1, <2>2, <2>3 DEF TInv
<1>5. CASE AuditWrite(p)
  <2>1. StoreTypeOK' /\ OrderListsClusters'
    BY <1>5, UnchangedStore DEF AuditWrite
  <2>a. audit' \in [Tenants -> SUBSET Entry]
    BY <1>5, WriteType DEF AuditWrite, auditAction
  <2>b. pc' \in [Calls -> Step \cup Status] /\ local' \in [Calls -> Local]
    BY <1>5, ReturnType DEF AuditWrite, Status
  <2>2. ApiTypeOK'
    BY <1>5, <2>a, <2>b DEF TInv, ApiTypeOK, AuditWrite
  <2>3. ControlAt(p)'
    BY <1>a, <1>5 DEF TInv, ApiTypeOK, ControlAt, AuditWrite, Return, Status
  <2> QED BY <1>b, <2>1, <2>2, <2>3 DEF TInv
<1>6. CASE Delete(p)
  <2>0. Tenant(p) \in Tenants /\ Cluster(p) \in Clusters
    BY <1>a, <1>6, CallFields DEF Delete, TInv, ControlAt
  <2>1. StoreTypeOK' /\ OrderListsClusters'
    BY <1>6, <2>0, DeleteClusterOrder, UnchangedStore DEF Delete, TInv
  <2>b. /\ pc' \in [Calls -> Step \cup Status]
        /\ local' \in [Calls -> Local]
    BY <1>6, ReturnType, GotoType DEF Delete, TInv, ApiTypeOK, Step, Status
  <2>2. ApiTypeOK'
    BY <1>6, <2>b DEF TInv, ApiTypeOK, Delete
  <2>3. ControlAt(p)'
    BY <1>a, <1>6 DEF TInv, ApiTypeOK, ControlAt, Delete, Goto, Return, Status
  <2> QED BY <1>b, <2>1, <2>2, <2>3 DEF TInv
<1>7. CASE RemoveSource(p)
  <2>1. StoreTypeOK' /\ OrderListsClusters'
    BY <1>7, UnchangedStore DEF RemoveSource
  <2>2. ApiTypeOK'
    BY <1>7, GotoType DEF TInv, ApiTypeOK, RemoveSource, Step
  <2>3. ControlAt(p)'
    BY <1>a, <1>7 DEF TInv, ApiTypeOK, ControlAt, RemoveSource, Goto, Status
  <2> QED BY <1>b, <2>1, <2>2, <2>3 DEF TInv
<1>8. CASE AuditDelete(p)
  <2>1. StoreTypeOK' /\ OrderListsClusters'
    BY <1>8, UnchangedStore DEF AuditDelete
  <2>a. audit' \in [Tenants -> SUBSET Entry]
    BY <1>8, WriteType DEF AuditDelete, auditAction
  <2>b. pc' \in [Calls -> Step \cup Status] /\ local' \in [Calls -> Local]
    BY <1>8, ReturnType DEF AuditDelete, Status
  <2>2. ApiTypeOK'
    BY <1>8, <2>a, <2>b DEF TInv, ApiTypeOK, AuditDelete
  <2>3. ControlAt(p)'
    BY <1>a, <1>8 DEF TInv, ApiTypeOK, ControlAt, AuditDelete, Return, Status
  <2> QED BY <1>b, <2>1, <2>2, <2>3 DEF TInv
<1>9. CASE Provision(p)
  <2>0. req[p].target \in Tenants
    BY <1>a, <1>9, CallFields DEF Provision, TInv, ControlAt
  <2>1. StoreTypeOK' /\ OrderListsClusters'
    BY <1>9, <2>0, ProvisionTenantType DEF Provision, ProvisionTenant, TInv, OrderListsClusters
  <2>2. ApiTypeOK'
    BY <1>9, GotoType DEF TInv, ApiTypeOK, Provision, Step
  <2>3. ControlAt(p)'
    BY <1>a, <1>9 DEF TInv, ApiTypeOK, ControlAt, Provision, Goto, Status
  <2> QED BY <1>b, <2>1, <2>2, <2>3 DEF TInv
<1>10. CASE AuditProvision(p)
  <2>1. StoreTypeOK' /\ OrderListsClusters'
    BY <1>10, UnchangedStore DEF AuditProvision
  <2>a. audit' \in [Tenants -> SUBSET Entry]
    BY <1>10, WriteType DEF AuditProvision, auditAction
  <2>b. pc' \in [Calls -> Step \cup Status] /\ local' \in [Calls -> Local]
    BY <1>10, ReturnType DEF AuditProvision, Status
  <2>2. ApiTypeOK'
    BY <1>10, <2>a, <2>b DEF TInv, ApiTypeOK, AuditProvision
  <2>3. ControlAt(p)'
    BY <1>a, <1>10 DEF TInv, ApiTypeOK, ControlAt, AuditProvision, Return, Status
  <2> QED BY <1>b, <2>1, <2>2, <2>3 DEF TInv
<1>11. CASE AuditErase(p)
  <2>1. StoreTypeOK' /\ OrderListsClusters'
    BY <1>11, UnchangedStore DEF AuditErase
  <2>a. audit' \in [Tenants -> SUBSET Entry]
    BY <1>11, WriteType DEF AuditErase, auditAction
  <2>b. pc' \in [Calls -> Step \cup Status] /\ local' \in [Calls -> Local]
    BY <1>11, GotoType DEF AuditErase, TInv, ApiTypeOK, Step
  <2>2. ApiTypeOK'
    BY <1>11, <2>a, <2>b DEF TInv, ApiTypeOK, AuditErase
  <2>3. ControlAt(p)'
    BY <1>a, <1>11 DEF TInv, ApiTypeOK, ControlAt, AuditErase, Goto, Status
  <2> QED BY <1>b, <2>1, <2>2, <2>3 DEF TInv
<1>12. CASE EraseTenant(p)
  <2>0. req[p].target \in Tenants
    BY <1>a, <1>12, CallFields DEF EraseTenant, TInv, ControlAt
  <2>1. StoreTypeOK' /\ OrderListsClusters'
    BY <1>12, <2>0, DeleteTenantType, DeleteTenantOrder DEF EraseTenant, TInv
  <2>2. ApiTypeOK'
    BY <1>12, GotoType DEF TInv, ApiTypeOK, EraseTenant, Step
  <2>3. ControlAt(p)'
    BY <1>a, <1>12 DEF TInv, ApiTypeOK, ControlAt, EraseTenant, Goto, Status
  <2> QED BY <1>b, <2>1, <2>2, <2>3 DEF TInv
<1>13. CASE PurgeTenant(p)
  <2>1. StoreTypeOK' /\ OrderListsClusters'
    BY <1>13, UnchangedStore DEF PurgeTenant
  <2>2. ApiTypeOK'
    BY <1>13, ReturnType, Zenon DEF TInv, ApiTypeOK, PurgeTenant, Status
  <2>3. ControlAt(p)'
    BY <1>a, <1>13 DEF TInv, ApiTypeOK, ControlAt, PurgeTenant, Return, Status
  <2> QED BY <1>b, <2>1, <2>2, <2>3 DEF TInv
<1> QED BY <1>1, <1>2, <1>3, <1>4, <1>5, <1>6, <1>7, <1>8, <1>9, <1>10, <1>11, <1>12, <1>13 DEF ApiStep

LEMMA ScanStepTInv ==
  ASSUME TInv, NEW p \in Calls, ScanStep(p)
  PROVE  TInv'
<1> USE DEF ScanOps, attempts
<1>a. ControlAt(p)
  BY DEF TInv, ControlOK
<1>b. ControlAt(p)' => ControlOK'
  BY OtherCalls, ControlKept DEF CallStep
<1>1. CASE CronFire(p)
  <2>1. StoreTypeOK' /\ OrderListsClusters'
    BY <1>1, UnchangedStore DEF CronFire
  <2> PICK c \in Configured :
        req' = [req EXCEPT ![p] = [op |-> "cron", tenant |-> Home, cluster |-> c]]
    BY <1>1, Zenon DEF CronFire
  <2>a. /\ pc[p] = "idle" /\ local[p] = NoLocal
        /\ pc' = [pc EXCEPT ![p] = "scan"]
        /\ UNCHANGED <<sources, audit, gauge, clock, local>>
    BY <1>a, <1>1 DEF CronFire, Goto, firstStep, TInv, ControlAt
  <2>b. [op |-> "cron", tenant |-> Home, cluster |-> c] \in Request
    BY ApiAssumption DEF Request
  <2>2. ApiTypeOK'
    BY <2>a, <2>b DEF TInv, ApiTypeOK, Step
  <2>c. [op |-> "cron", tenant |-> Home, cluster |-> c] # NoRequest
    BY <2>b, RequestFields
  <2>d. /\ req[p]' = [op |-> "cron", tenant |-> Home, cluster |-> c]
        /\ pc[p]' = "scan" /\ local[p]' = NoLocal
    BY <2>a DEF TInv, ApiTypeOK
  <2>e. /\ req[p]' # NoRequest /\ req[p]'.op \in ScanOps
        /\ local[p]'.tries < attempts
    <3>1. NoLocal.tries = 0
      BY DEF NoLocal
    <3> QED BY <2>c, <2>d, <3>1
  <2>3. ControlAt(p)'
    BY <2>d, <2>e DEF ControlAt
  <2> QED BY <1>b, <2>1, <2>2, <2>3 DEF TInv
<1>2. CASE TriggerScan(p)
  <2>1. StoreTypeOK' /\ OrderListsClusters'
    BY <1>2, UnchangedStore DEF TriggerScan
  <2>b. /\ pc' \in [Calls -> Step \cup Status]
        /\ local' \in [Calls -> Local]
    BY <1>2, ReturnType, GotoType DEF TriggerScan, TInv, ApiTypeOK, Step, Status
  <2>2. ApiTypeOK'
    <3>1. UNCHANGED <<sources, audit, gauge, clock, req>>
      BY <1>2 DEF TriggerScan
    <3> QED BY <2>b, <3>1 DEF TInv, ApiTypeOK
  <2>c. /\ pc[p] = "getCluster" /\ req[p] # NoRequest
        /\ req[p].op = "trigger" /\ local[p].tries = 0
    <3>1. pc[p] = "getCluster"
      BY <1>2 DEF TriggerScan
    <3>2. NoLocal.tries = 0
      BY DEF NoLocal
    <3> QED BY <1>a, <3>1, <3>2 DEF ControlAt
  <2>d. /\ req[p]' = req[p]
        /\ \/ pc[p]' = "scan" /\ local[p]' = local[p]
           \/ pc[p]' = "notFound"
    BY <1>2 DEF TriggerScan, Goto, Return, TInv, ApiTypeOK
  <2>3. ControlAt(p)'
    BY <2>c, <2>d DEF ControlAt
  <2> QED BY <1>b, <2>1, <2>2, <2>3 DEF TInv
<1>3. CASE ScannerSucceeds(p)
  <2>1. StoreTypeOK' /\ OrderListsClusters'
    BY <1>3, UnchangedStore DEF ScannerSucceeds
  <2>a. local' \in [Calls -> Local]
    BY <1>3 DEF ScannerSucceeds, TInv, ApiTypeOK, Local
  <2>2. ApiTypeOK'
    BY <1>3, GotoType, <2>a DEF TInv, ApiTypeOK, ScannerSucceeds, Step
  <2>3. ControlAt(p)'
    BY <1>a, <1>3 DEF TInv, ApiTypeOK, ControlAt, ScannerSucceeds, Goto, Status
  <2> QED BY <1>b, <2>1, <2>2, <2>3 DEF TInv
<1>4. CASE ScannerFails(p)
  <2>1. StoreTypeOK' /\ OrderListsClusters'
    BY <1>4, UnchangedStore DEF ScannerFails
  <2>a. local' \in [Calls -> Local]
    <3>1. local[p] \in Local /\ local[p].tries < attempts
      BY <1>a, <1>4 DEF ScannerFails, TInv, ApiTypeOK, ControlAt
    <3>a. local[p].tries \in 0 .. attempts
      BY <3>1 DEF Local
    <3>2. local[p].tries + 1 \in 0 .. attempts
      BY <3>1, <3>a
    <3>3. [local[p] EXCEPT !.tries = @ + 1] \in Local
      BY <3>1, <3>2 DEF Local
    <3> QED BY <1>4, <3>3 DEF ScannerFails, TInv, ApiTypeOK
  <2>2. ApiTypeOK'
    BY <1>4, GotoType, <2>a DEF TInv, ApiTypeOK, ScannerFails, Step
  <2>3. ControlAt(p)'
    BY <1>a, <1>4 DEF TInv, ApiTypeOK, ControlAt, ScannerFails, Goto, Status
  <2> QED BY <1>b, <2>1, <2>2, <2>3 DEF TInv
<1>5. CASE StampRecord(p)
  <2>1. StoreTypeOK' /\ OrderListsClusters'
    BY <1>5, UnchangedStore DEF StampRecord, Stamp
  <2>2. ApiTypeOK'
    BY <1>5, StampType, Zenon DEF TInv, ApiTypeOK, StampRecord, Step
  <2>3. ControlAt(p)'
    BY <1>a, <1>5 DEF TInv, ApiTypeOK, ControlAt, StampRecord, Goto, Status, Stamp
  <2> QED BY <1>b, <2>1, <2>2, <2>3 DEF TInv
<1>6. CASE Record(p)
  <2>0. /\ Tenant(p) \in Tenants /\ Cluster(p) \in Clusters
        /\ local[p].rep \in Report /\ local[p].at \in Nat
    BY <1>a, <1>6, CallFields DEF Record, TInv, ControlAt
  <2>1. StoreTypeOK' /\ OrderListsClusters'
    BY <1>6, <2>0, RecordScanType, RecordScanOrder DEF Record, TInv
  <2>2. ApiTypeOK'
    BY <1>6, GotoType DEF TInv, ApiTypeOK, Record, Step
  <2>3. ControlAt(p)'
    BY <1>a, <1>6 DEF TInv, ApiTypeOK, ControlAt, Record, Goto, Status
  <2> QED BY <1>b, <2>1, <2>2, <2>3 DEF TInv
<1>7. CASE StampSeed(p)
  <2>1. StoreTypeOK' /\ OrderListsClusters'
    BY <1>7, UnchangedStore DEF StampSeed, Stamp
  <2>2. ApiTypeOK'
    BY <1>7, StampType, Zenon DEF TInv, ApiTypeOK, StampSeed, Step
  <2>3. ControlAt(p)'
    BY <1>a, <1>7 DEF TInv, ApiTypeOK, ControlAt, StampSeed, Goto, Status, Stamp
  <2> QED BY <1>b, <2>1, <2>2, <2>3 DEF TInv
<1>8. CASE Seed(p)
  <2>0. /\ Tenant(p) \in Tenants /\ Cluster(p) \in Clusters
        /\ local[p].rep \in Report /\ local[p].at \in Nat
    BY <1>a, <1>8, CallFields DEF Seed, TInv, ControlAt
  <2>1. StoreTypeOK' /\ OrderListsClusters'
    <3>1. StoreTypeOK'
      BY <1>8, <2>0, SeedFindingsType DEF Seed, TInv
    <3>2. OrderListsClusters'
      BY <1>8 DEF Seed, SeedFindings, TInv, OrderListsClusters
    <3> QED BY <3>1, <3>2
  <2>2. ApiTypeOK'
    BY <1>8, GotoType DEF TInv, ApiTypeOK, Seed, Step
  <2>3. ControlAt(p)'
    BY <1>a, <1>8 DEF TInv, ApiTypeOK, ControlAt, Seed, Goto, Status
  <2> QED BY <1>b, <2>1, <2>2, <2>3 DEF TInv
<1>9. CASE Succeed(p)
  <2>1. StoreTypeOK' /\ OrderListsClusters'
    BY <1>9, UnchangedStore DEF Succeed
  <2>a. audit' \in [Tenants -> SUBSET Entry]
    BY <1>9, WriteType DEF Succeed, auditAction
  <2>b. pc' \in [Calls -> Step \cup Status] /\ local' \in [Calls -> Local]
    BY <1>9, ReturnType DEF Succeed, Status
  <2>2. ApiTypeOK'
    BY <1>9, <2>a, <2>b, CallFields, Zenon DEF TInv, ApiTypeOK, Succeed
  <2>3. ControlAt(p)'
    BY <1>a, <1>9 DEF TInv, ApiTypeOK, ControlAt, Succeed, Return, Status
  <2> QED BY <1>b, <2>1, <2>2, <2>3 DEF TInv
<1>10. CASE Fail(p)
  <2>1. StoreTypeOK' /\ OrderListsClusters'
    BY <1>10, UnchangedStore DEF Fail
  <2>a. audit' \in [Tenants -> SUBSET Entry]
    BY <1>10, WriteType DEF Fail, auditAction
  <2>b. pc' \in [Calls -> Step \cup Status] /\ local' \in [Calls -> Local]
    BY <1>10, ReturnType DEF Fail, Status
  <2>2. ApiTypeOK'
    BY <1>10, <2>a, <2>b DEF TInv, ApiTypeOK, Fail
  <2>3. ControlAt(p)'
    BY <1>a, <1>10 DEF TInv, ApiTypeOK, ControlAt, Fail, Return, Status
  <2> QED BY <1>b, <2>1, <2>2, <2>3 DEF TInv
<1> QED BY <1>1, <1>2, <1>3, <1>4, <1>5, <1>6, <1>7, <1>8, <1>9, <1>10 DEF ScanStep

LEMMA NewRowType ==
  ASSUME TInv, NEW p \in Calls, pc[p] = "upsert"
  PROVE  NewRow(p) \in FindingLifecycle
<1>1. /\ local[p].lc \in FindingLifecycle /\ local[p].at \in Nat
      /\ req[p] \in Request /\ req[p].op \in {"triage", "waive", "revoke"}
  BY CallFields DEF TInv, ControlOK, ControlAt
<1>2. /\ req[p].op = "triage" => req[p].state \in triageStates
      /\ req[p].op = "waive" => req[p].until \in Nat
  BY <1>1, RequestFields, ApiAssumption, Zenon
<1>3. CASE req[p].op = "triage"
  BY <1>1, <1>2, <1>3, Zenon DEF NewRow, SetState, FindingLifecycle, FindingState, Never, triageStates
<1>4. CASE req[p].op = "waive"
  BY <1>1, <1>2, <1>4, Zenon DEF NewRow, AcceptRisk, FindingLifecycle, FindingState, Never
<1>5. CASE req[p].op = "revoke"
  BY <1>1, <1>5, Zenon DEF NewRow, Revoke, FindingLifecycle, FindingState, Never, triageStates
<1> QED BY <1>1, <1>3, <1>4, <1>5

LEMMA TriageStepTInv ==
  ASSUME TInv, NEW p \in Calls, TriageStep(p)
  PROVE  TInv'
<1> USE DEF ScanOps, attempts
<1>a. ControlAt(p)
  BY DEF TInv, ControlOK
<1>b. ControlAt(p)' => ControlOK'
  BY OtherCalls, ControlKept DEF CallStep
<1>1. CASE ValidateWaiver(p)
  <2>1. StoreTypeOK' /\ OrderListsClusters'
    BY <1>1, UnchangedStore DEF ValidateWaiver
  <2>b. /\ pc' \in [Calls -> Step \cup Status]
        /\ local' \in [Calls -> Local]
    BY <1>1, ReturnType, GotoType DEF ValidateWaiver, TInv, ApiTypeOK, Step, Status
  <2>2. ApiTypeOK'
    BY <1>1, <2>b DEF TInv, ApiTypeOK, ValidateWaiver
  <2>3. ControlAt(p)'
    BY <1>a, <1>1 DEF TInv, ApiTypeOK, ControlAt, ValidateWaiver, Goto, Return, Status
  <2> QED BY <1>b, <2>1, <2>2, <2>3 DEF TInv
<1>2. CASE Load(p)
  <2>1. StoreTypeOK' /\ OrderListsClusters'
    BY <1>2, UnchangedStore DEF Load
  <2>a. /\ Tenant(p) \in Tenants
        /\ Key(p) \in DOMAIN lifecycle[Tenant(p)] => lifecycle[Tenant(p)][Key(p)] \in FindingLifecycle
    BY <1>2, CallFields, RowType DEF Load
  <2>b. /\ pc' \in [Calls -> Step \cup Status]
        /\ local' \in [Calls -> Local]
    BY <1>2, <2>a, ReturnType, GotoType, RowLoaded DEF Load, TInv, ApiTypeOK, Step, Status
  <2>2. ApiTypeOK'
    BY <1>2, <2>b DEF TInv, ApiTypeOK, Load
  <2>3. ControlAt(p)'
    BY <1>a, <1>2 DEF TInv, ApiTypeOK, ControlAt, Load, Goto, Return, Status
  <2> QED BY <1>b, <2>1, <2>2, <2>3 DEF TInv
<1>3. CASE Search(p)
  <2>1. StoreTypeOK' /\ OrderListsClusters'
    BY <1>3, UnchangedStore DEF Search
  <2>a. OpenRow(clock, Never) \in FindingLifecycle
    BY OpenRowType, ApiAssumption DEF TInv, ApiTypeOK, Never
  <2>b. /\ pc' \in [Calls -> Step \cup Status]
        /\ local' \in [Calls -> Local]
    BY <1>3, <2>a, ReturnType, GotoType, RowLoaded DEF Search, TInv, ApiTypeOK, Step, Status
  <2>2. ApiTypeOK'
    BY <1>3, <2>b DEF TInv, ApiTypeOK, Search
  <2>3. ControlAt(p)'
    BY <1>a, <1>3 DEF TInv, ApiTypeOK, ControlAt, Search, Goto, Return, Status
  <2> QED BY <1>b, <2>1, <2>2, <2>3 DEF TInv
<1>4. CASE LoadWaiver(p)
  <2>1. StoreTypeOK' /\ OrderListsClusters'
    BY <1>4, UnchangedStore DEF LoadWaiver
  <2>a. /\ Tenant(p) \in Tenants
        /\ Key(p) \in DOMAIN lifecycle[Tenant(p)] => lifecycle[Tenant(p)][Key(p)] \in FindingLifecycle
    BY <1>4, CallFields, RowType DEF LoadWaiver
  <2>b. /\ pc' \in [Calls -> Step \cup Status]
        /\ local' \in [Calls -> Local]
    BY <1>4, <2>a, ReturnType, GotoType, RowLoaded DEF LoadWaiver, TInv, ApiTypeOK, Step, Status
  <2>2. ApiTypeOK'
    BY <1>4, <2>b DEF TInv, ApiTypeOK, LoadWaiver
  <2>3. ControlAt(p)'
    BY <1>a, <1>4 DEF TInv, ApiTypeOK, ControlAt, LoadWaiver, Goto, Return, Status
  <2> QED BY <1>b, <2>1, <2>2, <2>3 DEF TInv
<1>5. CASE StampRow(p)
  <2>1. StoreTypeOK' /\ OrderListsClusters'
    BY <1>5, UnchangedStore DEF StampRow, Stamp
  <2>2. ApiTypeOK'
    BY <1>5, StampType, Zenon DEF TInv, ApiTypeOK, StampRow, Step
  <2>3. ControlAt(p)'
    BY <1>a, <1>5 DEF TInv, ApiTypeOK, ControlAt, StampRow, Goto, Status, Stamp
  <2> QED BY <1>b, <2>1, <2>2, <2>3 DEF TInv
<1>6. CASE Upsert(p)
  <2>0. Tenant(p) \in Tenants /\ Key(p) \in Keys /\ NewRow(p) \in FindingLifecycle
    BY <1>a, <1>6, CallFields, NewRowType DEF Upsert, TInv, ControlAt
  <2>1. StoreTypeOK' /\ OrderListsClusters'
    BY <1>6, <2>0, UpsertLifecycleType, Zenon DEF Upsert, UpsertLifecycle, TInv, OrderListsClusters
  <2>2. ApiTypeOK'
    BY <1>6, GotoType DEF TInv, ApiTypeOK, Upsert, Step
  <2>3. ControlAt(p)'
    BY <1>a, <1>6 DEF TInv, ApiTypeOK, ControlAt, Upsert, Goto, Status
  <2> QED BY <1>b, <2>1, <2>2, <2>3 DEF TInv
<1>7. CASE AuditRow(p)
  <2>1. StoreTypeOK' /\ OrderListsClusters'
    BY <1>7, UnchangedStore DEF AuditRow
  <2>a. audit' \in [Tenants -> SUBSET Entry]
    <3>1. req[p].op \in {"triage", "waive", "revoke"}
      BY <1>a, <1>7 DEF AuditRow, TInv, ControlAt
    <3>2. rowAction(req[p].op) \in auditAction
      BY <3>1 DEF rowAction, auditAction
    <3> QED BY <1>7, <3>2, WriteType DEF AuditRow
  <2>b. pc' \in [Calls -> Step \cup Status] /\ local' \in [Calls -> Local]
    BY <1>7, ReturnType DEF AuditRow, Status
  <2>2. ApiTypeOK'
    BY <1>7, <2>a, <2>b DEF TInv, ApiTypeOK, AuditRow
  <2>3. ControlAt(p)'
    BY <1>a, <1>7 DEF TInv, ApiTypeOK, ControlAt, AuditRow, Return, Status
  <2> QED BY <1>b, <2>1, <2>2, <2>3 DEF TInv
<1> QED BY <1>1, <1>2, <1>3, <1>4, <1>5, <1>6, <1>7 DEF TriageStep

LEMMA TInvStep == TInv /\ [Next]_vars => TInv'
<1> SUFFICES ASSUME TInv, [Next]_vars PROVE TInv'
  OBVIOUS
<1>1. CASE UNCHANGED vars
  <2>1. StoreTypeOK' /\ OrderListsClusters'
    BY <1>1, UnchangedStore DEF vars
  <2>2. ApiTypeOK' /\ ControlOK'
    BY <1>1 DEF TInv, ApiTypeOK, ControlOK, ControlAt, vars, calls
  <2> QED BY <2>1, <2>2 DEF TInv
<1>2. CASE Tick
  <2>1. StoreTypeOK' /\ OrderListsClusters'
    BY <1>2, UnchangedStore DEF Tick
  <2>2. ApiTypeOK'
    BY <1>2, ApiAssumption DEF TInv, ApiTypeOK, Tick, calls
  <2>3. UNCHANGED <<pc, req, local>>
    BY <1>2 DEF Tick, calls
  <2>4. ControlOK'
    BY <2>3 DEF TInv, ControlOK, ControlAt
  <2> QED BY <2>1, <2>2, <2>4 DEF TInv
<1>3. ASSUME NEW p \in Calls, CallStep(p) PROVE TInv'
  BY <1>3, ApiStepTInv, ScanStepTInv, TriageStepTInv DEF CallStep
<1> QED BY <1>1, <1>2, <1>3 DEF Next, Quiescent

\* The dashboard's state keeps its type, and the listings that follow a
\* tenant's registration order into its cluster map (memstore.go:102,
\* memstore.go:136, memstore.go:209) never meet a missing cluster.
THEOREM TypeCorrect == Spec => []StoreWellFormed
<1>1. TInv => StoreWellFormed
  BY DEF TInv, TypeOK, StoreWellFormed
<1> QED BY TInvInit, TInvStep, <1>1, PTL DEF Spec

-----------------------------------------------------------------------------
(* The frame of a step: what a call may change.                            *)

\* The steps that call a mutating method of the store.
LEMMA StoreSteps ==
  ASSUME NEW p \in Calls, CallStep(p)
  PROVE  \/ UNCHANGED store
         \/ Register(p) \/ Delete(p) \/ Provision(p) \/ EraseTenant(p)
         \/ Record(p) \/ Seed(p) \/ Upsert(p)
BY DEF CallStep, ApiStep, Serve, AddSource, RejectSource, AuditWrite, RemoveSource,
       AuditDelete, AuditProvision, AuditErase, PurgeTenant,
       ScanStep, CronFire, TriggerScan, ScannerSucceeds, ScannerFails, StampRecord,
       StampSeed, Stamp, Succeed, Fail,
       TriageStep, ValidateWaiver, Load, Search, LoadWaiver, StampRow, AuditRow

\* The request of a call that has been entered does not change.
LEMMA RequestKept ==
  ASSUME NEW p \in Calls, pc[p] # "idle", CallStep(p)
  PROVE  req' = req
BY DEF CallStep, ApiStep, Serve, AddSource, RejectSource, Register, AuditWrite, Delete,
       RemoveSource, AuditDelete, Provision, AuditProvision, AuditErase, EraseTenant,
       PurgeTenant, ScanStep, CronFire, TriggerScan, ScannerSucceeds, ScannerFails,
       StampRecord, Record, StampSeed, Seed, Stamp, Succeed, Fail,
       TriageStep, ValidateWaiver, Load, Search, LoadWaiver, StampRow, Upsert, AuditRow

-----------------------------------------------------------------------------
(* Tracking.                                                               *)

\* A finding enters the latest report of a cluster by RecordScan only.
LEMMA NewReport ==
  ASSUME TInv, NEW p \in Calls, CallStep(p), NEW t \in Tenants, NEW c \in DOMAIN clusters'[t],
         NEW f \in LatestReport(t, c)'
  PROVE  \/ c \in DOMAIN clusters[t] /\ f \in LatestReport(t, c)
         \/ Record(p) /\ Tenant(p) = t /\ Cluster(p) = c /\ f \in local[p].rep
<1> USE DEF LatestReport, GetCluster
<1>0. DOMAIN clusters = Tenants
  BY DEF TInv, StoreTypeOK
<1>1. CASE UNCHANGED store \/ Provision(p) \/ Seed(p) \/ Upsert(p)
  BY <1>1 DEF store, Provision, ProvisionTenant, Seed, SeedFindings, Upsert, UpsertLifecycle
<1>2. CASE Register(p)
  BY <1>0, <1>2 DEF Register, RegisterCluster, Put, NewCluster
<1>3. CASE Delete(p)
  BY <1>0, <1>3 DEF Delete, DeleteCluster, Restrict, store
<1>4. CASE EraseTenant(p)
  BY <1>0, <1>4, Zenon DEF EraseTenant, DeleteTenant, EmptyMap
<1>5. CASE Record(p)
  BY <1>0, <1>5, Zenon DEF Record, RecordScan, Put
<1> QED BY <1>1, <1>2, <1>3, <1>4, <1>5, StoreSteps, Zenon

\* A row goes only with the cluster it is about.
LEMMA RowGone ==
  ASSUME TInv, NEW p \in Calls, CallStep(p), NEW t \in Tenants,
         NEW k \in DOMAIN lifecycle[t], k \notin DOMAIN lifecycle'[t]
  PROVE  k[1] \notin DOMAIN clusters'[t]
<1>0. DOMAIN clusters = Tenants /\ DOMAIN lifecycle = Tenants
  BY DEF TInv, StoreTypeOK
<1>1. CASE UNCHANGED store \/ Register(p) \/ Provision(p) \/ Record(p)
  BY <1>1, Zenon DEF store, Register, RegisterCluster, Provision, ProvisionTenant, Record, RecordScan
<1>2. CASE Delete(p)
  BY <1>0, <1>2 DEF Delete, DeleteCluster, Restrict, store
<1>3. CASE EraseTenant(p)
  BY <1>0, <1>3 DEF EraseTenant, DeleteTenant, EmptyMap
<1>4. CASE Seed(p)
  BY <1>0, <1>4 DEF Seed, SeedFindings
<1>5. CASE Upsert(p)
  BY <1>0, <1>5 DEF Upsert, UpsertLifecycle, Put
<1> QED BY <1>1, <1>2, <1>3, <1>4, <1>5, StoreSteps, Zenon

\* A scan between RecordScan and SeedFindings stays there until it has
\* created the rows it is to create.
LEMMA PendingScan ==
  ASSUME TInv, NEW p \in Calls, CallStep(p), NEW q \in Calls,
         pc[q] \in {"stampSeed", "seed"}
  PROVE  /\ req'[q] = req[q]
         /\ \/ pc'[q] \in {"stampSeed", "seed"} /\ local'[q].rep = local[q].rep
            \/ \A f \in local[q].rep : <<Cluster(q), f>> \in DOMAIN lifecycle'[Tenant(q)]
<1>1. CASE q # p
  BY <1>1, OtherCalls
<1>2. CASE q = p
  <2>1. req' = req
    BY <1>2, RequestKept
  <2>2. StampSeed(p) \/ Seed(p)
    BY <1>2, Zenon DEF CallStep, ApiStep, Serve, AddSource, RejectSource, Register, AuditWrite,
         Delete, RemoveSource, AuditDelete, Provision, AuditProvision, AuditErase,
         EraseTenant, PurgeTenant, ScanStep, CronFire, TriggerScan, ScannerSucceeds,
         ScannerFails, StampRecord, Record, Stamp, Succeed, Fail, TriageStep,
         ValidateWaiver, Load, Search, LoadWaiver, StampRow, Upsert, AuditRow
  <2>3. CASE StampSeed(p)
    BY <1>2, <2>1, <2>3 DEF StampSeed, Stamp, Goto, TInv, ApiTypeOK, Local
  <2>4. CASE Seed(p)
    <3>1. Tenant(p) \in DOMAIN lifecycle
      BY <1>2, CallFields DEF TInv, StoreTypeOK
    <3> QED BY <1>2, <2>1, <2>4, <3>1 DEF Seed, SeedFindings
  <2> QED BY <2>2, <2>3, <2>4
<1> QED BY <1>1, <1>2

LEMMA TrackedStep == TInv /\ TrackedOrPending /\ [Next]_vars => TrackedOrPending'
<1> SUFFICES ASSUME TInv, TrackedOrPending, [Next]_vars PROVE TrackedOrPending'
  OBVIOUS
<1>1. CASE UNCHANGED vars \/ Tick
  BY <1>1, Zenon DEF vars, calls, store, Tick, TrackedOrPending, LatestReport, GetCluster,
              IsScan, Tenant, Cluster
<1>2. ASSUME NEW p \in Calls, CallStep(p) PROVE TrackedOrPending'
  <2> SUFFICES ASSUME NEW t \in Tenants, NEW c \in DOMAIN clusters'[t],
                      NEW f \in LatestReport(t, c)',
                      <<c, f>> \notin DOMAIN lifecycle'[t]
               PROVE  \E q \in Calls : /\ IsScan(q, t, c)'
                                       /\ pc'[q] \in {"stampSeed", "seed"}
                                       /\ f \in local'[q].rep
    BY Zenon DEF TrackedOrPending
  <2>1. CASE Record(p) /\ Tenant(p) = t /\ Cluster(p) = c /\ f \in local[p].rep
    <3>1. req[p].op \in ScanOps /\ p \in DOMAIN pc
      BY <2>1, Zenon DEF Record, TInv, ApiTypeOK, ControlOK, ControlAt
    <3>2. req' = req /\ local' = local /\ pc'[p] = "stampSeed"
      BY <2>1, <3>1 DEF Record, Goto
    <3> QED BY <2>1, <3>1, <3>2, Zenon DEF IsScan, Tenant, Cluster
  <2>2. CASE c \in DOMAIN clusters[t] /\ f \in LatestReport(t, c)
    <3>1. <<c, f>> \notin DOMAIN lifecycle[t]
      BY <1>2, RowGone, Zenon
    <3>2. PICK q \in Calls : /\ IsScan(q, t, c)
                             /\ pc[q] \in {"stampSeed", "seed"}
                             /\ f \in local[q].rep
      BY <2>2, <3>1 DEF TrackedOrPending
    <3> QED BY <1>2, <3>2, PendingScan, Zenon DEF IsScan, Tenant, Cluster
  <2> QED BY <1>2, <2>1, <2>2, NewReport
<1> QED BY <1>1, <1>2 DEF Next, Quiescent

\* However scans, deletions and erasures interleave, every finding of a latest
\* report has a lifecycle row or a scan about to create it (api.go:357-360).
THEOREM FindingsTracked == Spec => []TrackedOrPending
<1>1. Init => TrackedOrPending
  <2> SUFFICES ASSUME Init, NEW t \in Tenants, NEW c \in DOMAIN clusters[t] PROVE LatestReport(t, c) = {}
    BY Zenon DEF TrackedOrPending
  <2>1. clusters[t][c] = NewCluster  BY DEF Init, StoreInit, EmptyMap
  <2> QED BY <2>1 DEF LatestReport, NewCluster
<1> QED BY <1>1, TInvInit, TInvStep, TrackedStep, PTL DEF Spec

-----------------------------------------------------------------------------
(* Isolation: what a step may not touch.                                   *)

\* The tenant a call acts on.
Subject(p) == IF req[p].op \in {"provision", "erase"} THEN req[p].target ELSE Tenant(p)

LEMMA PartitionKept ==
  ASSUME TInv, NEW p \in Calls, CallStep(p), NEW t \in Tenants, t # Subject(p)
  PROVE  /\ clusters'[t] = clusters[t] /\ order'[t] = order[t]
         /\ lifecycle'[t] = lifecycle[t] /\ (t \in tenants' <=> t \in tenants)
<1>0. DOMAIN clusters = Tenants /\ DOMAIN order = Tenants /\ DOMAIN lifecycle = Tenants
  BY DEF TInv, StoreTypeOK
<1>1. CASE UNCHANGED store
  BY <1>1 DEF store
<1>2. CASE Provision(p) \/ EraseTenant(p)
  <2>1. Subject(p) = req[p].target
    BY <1>2 DEF Provision, EraseTenant, Subject, TInv, ControlOK, ControlAt
  <2> QED BY <1>0, <1>2, <2>1 DEF Provision, ProvisionTenant, EraseTenant, DeleteTenant
<1>3. CASE Register(p) \/ Delete(p) \/ Record(p) \/ Seed(p) \/ Upsert(p)
  <2>1. Subject(p) = Tenant(p)
    BY <1>3, Zenon DEF Register, Delete, Record, Seed, Upsert, Subject, TInv, ControlOK, ControlAt, ScanOps
  <2>2. CASE Register(p)
    BY <1>0, <2>1, <2>2, Zenon DEF Register, RegisterCluster
  <2>3. CASE Delete(p)
    BY <1>0, <2>1, <2>3 DEF Delete, DeleteCluster, store
  <2>4. CASE Record(p)
    BY <1>0, <2>1, <2>4, Zenon DEF Record, RecordScan
  <2>5. CASE Seed(p)
    BY <1>0, <2>1, <2>5 DEF Seed, SeedFindings
  <2>6. CASE Upsert(p)
    BY <1>0, <2>1, <2>6 DEF Upsert, UpsertLifecycle
  <2> QED BY <1>3, <2>2, <2>3, <2>4, <2>5, <2>6
<1> QED BY <1>1, <1>2, <1>3, StoreSteps, Zenon

\* A step that changes the store moves the call that makes it.
LEMMA StoreStepMoves ==
  ASSUME TInv, NEW p \in Calls, CallStep(p)
  PROVE  UNCHANGED store \/ pc'[p] # pc[p]
BY StoreSteps DEF Register, Delete, Provision, EraseTenant, Record, Seed, Upsert, Goto,
     Return, TInv, ApiTypeOK

LEMMA IsolationStep ==
  TInv /\ [Next]_vars =>
    [ \A t \in Tenants :
        <<t \in tenants, clusters[t], order[t], lifecycle[t]>>'
            # <<t \in tenants, clusters[t], order[t], lifecycle[t]>> =>
          \E p \in Calls :
            /\ pc'[p] # pc[p]
            /\ IF req[p].op \in {"provision", "erase"}
                 THEN req[p].target = t
                 ELSE Tenant(p) = t ]_vars
<1> SUFFICES ASSUME TInv, Next, NEW t \in Tenants,
                    <<t \in tenants, clusters[t], order[t], lifecycle[t]>>'
                      # <<t \in tenants, clusters[t], order[t], lifecycle[t]>>
             PROVE  \E p \in Calls :
                      /\ pc'[p] # pc[p]
                      /\ IF req[p].op \in {"provision", "erase"}
                           THEN req[p].target = t
                           ELSE Tenant(p) = t
  OBVIOUS
<1>1. ~UNCHANGED store
  BY DEF store
<1>2. PICK p \in Calls : CallStep(p)
  BY <1>1 DEF Next, Tick, Quiescent, vars
<1>3. t = Subject(p)
  BY <1>2, PartitionKept
<1> QED BY <1>1, <1>2, <1>3, StoreStepMoves, Zenon DEF Subject

\* A step changes a tenant's partition only on behalf of a call of that
\* tenant, or of one that provisions or erases it (store.go:84).
THEOREM Isolation == Spec => TenantIsolation
<1> QED BY TInvInit, TInvStep, IsolationStep, PTL DEF Spec, TenantIsolation

-----------------------------------------------------------------------------
(* Triage.  The handlers work on copies of rows, so the invariant has to   *)
(* speak of the copies too, and of the times the handlers have read.       *)

\* The fields of a row or of a copy agree.
Coherent(lc) ==
  /\ lc.state = "risk-accepted" <=> lc.expiresAt # Never
  /\ lc.state = "resolved" <=> lc.resolvedAt # Never
  /\ Never < lc.firstSeen

RowsInv ==
  /\ RowsCoherent
  /\ \A t \in Tenants : \A k \in DOMAIN lifecycle[t] : lifecycle[t][k].lastUpdated <= clock

\* What the handler of call p knows: a validated deadline, a coherent copy (one
\* that carries a waiver, if the waiver is to be revoked), a time not before
\* the copy's first sight.
CopyOK(p) ==
  /\ pc[p] \in {"load", "search", "stampRow"} /\ req[p].op = "waive" =>
       Never < req[p].until /\ req[p].until <= clock + MaxWaiver
  /\ pc[p] = "stampRow" => Coherent(local[p].lc) /\ local[p].lc.firstSeen <= clock
  /\ pc[p] = "upsert" =>
       /\ Coherent(local[p].lc)
       /\ local[p].lc.firstSeen <= local[p].at /\ local[p].at <= clock
       /\ req[p].op = "waive" =>
            Never < req[p].until /\ req[p].until <= local[p].at + MaxWaiver
  /\ pc[p] \in {"stampRow", "upsert"} /\ req[p].op = "revoke" =>
       local[p].lc.state = "risk-accepted"
  /\ pc[p] = "seed" => Never < local[p].at /\ local[p].at <= clock

CopiesOK == \A p \in Calls : CopyOK(p)

\* A step of a handler takes no time.
LEMMA ClockKept ==
  ASSUME NEW p \in Calls, CallStep(p)
  PROVE  clock' = clock
BY DEF CallStep, ApiStep, Serve, AddSource, RejectSource, Register, AuditWrite, Delete,
       RemoveSource, AuditDelete, Provision, AuditProvision, AuditErase, EraseTenant,
       PurgeTenant, ScanStep, CronFire, TriggerScan, ScannerSucceeds, ScannerFails,
       StampRecord, Record, StampSeed, Seed, Stamp, Succeed, Fail,
       TriageStep, ValidateWaiver, Load, Search, LoadWaiver, StampRow, Upsert, AuditRow

\* The row a triage handler writes is coherent if its copy is.
LEMMA NewRowCoherent ==
  ASSUME TInv, NEW p \in Calls, pc[p] = "upsert", CopyOK(p)
  PROVE  LET lc == NewRow(p)
         IN  /\ Coherent(lc) /\ lc.firstSeen <= lc.lastUpdated
             /\ lc.resolvedAt \in {Never, lc.lastUpdated}
             /\ lc.expiresAt <= lc.lastUpdated + MaxWaiver
             /\ lc.lastUpdated <= clock
<1>1. /\ local[p].lc \in FindingLifecycle /\ local[p].at \in Nat
      /\ req[p] \in Request /\ req[p].op \in {"triage", "waive", "revoke"}
      /\ MaxWaiver \in Nat /\ clock \in Nat
  BY CallFields, ApiAssumption DEF TInv, ControlOK, ControlAt, ApiTypeOK
<1>2. /\ req[p].op = "triage" => req[p].state \in triageStates
      /\ req[p].op = "waive" => req[p].until \in Nat
  BY <1>1, RequestFields, ApiAssumption, Zenon
<1>3. /\ Coherent(local[p].lc)
      /\ local[p].lc.firstSeen <= local[p].at /\ local[p].at <= clock
      /\ req[p].op = "waive" =>
           Never < req[p].until /\ req[p].until <= local[p].at + MaxWaiver
      /\ req[p].op = "revoke" => local[p].lc.state = "risk-accepted"
  BY Zenon DEF CopyOK
<1> USE DEF Never, Coherent, FindingLifecycle
<1>4. CASE req[p].op = "triage"
  <2>1. NewRow(p) = SetState(local[p].lc, req[p].state, local[p].at)
    BY <1>4 DEF NewRow
  <2> QED BY <1>1, <1>2, <1>3, <1>4, <2>1 DEF SetState, triageStates
<1>5. CASE req[p].op = "waive"
  <2>1. NewRow(p) = AcceptRisk(local[p].lc, req[p].until, local[p].at)
    BY <1>5 DEF NewRow
  <2> QED BY <1>1, <1>2, <1>3, <1>5, <2>1 DEF AcceptRisk
<1>6. CASE req[p].op = "revoke"
  <2>1. NewRow(p) = Revoke(local[p].lc, local[p].at)
    BY <1>6 DEF NewRow
  <2> QED BY <1>1, <1>3, <1>6, <2>1 DEF Revoke
<1> QED BY <1>1, <1>4, <1>5, <1>6

\* A row of the store after a step was there before it, or the step wrote it.
LEMMA NewRows ==
  ASSUME TInv, NEW p \in Calls, CallStep(p), NEW t \in Tenants, NEW k \in DOMAIN lifecycle'[t]
  PROVE  \/ k \in DOMAIN lifecycle[t] /\ lifecycle'[t][k] = lifecycle[t][k]
         \/ /\ Seed(p) /\ k \notin DOMAIN lifecycle[t]
            /\ lifecycle'[t][k] = OpenRow(local[p].at, local[p].at)
         \/ Upsert(p) /\ lifecycle'[t][k] = NewRow(p)
<1>0. DOMAIN lifecycle = Tenants
  BY DEF TInv, StoreTypeOK
<1>1. CASE UNCHANGED store \/ Register(p) \/ Provision(p) \/ Record(p)
  BY <1>1, Zenon DEF store, Register, RegisterCluster, Provision, ProvisionTenant, Record, RecordScan
<1>2. CASE Delete(p)
  BY <1>0, <1>2 DEF Delete, DeleteCluster, Restrict, store
<1>3. CASE EraseTenant(p)
  BY <1>0, <1>3 DEF EraseTenant, DeleteTenant, EmptyMap
<1>4. CASE Seed(p)
  BY <1>0, <1>4 DEF Seed, SeedFindings
<1>5. CASE Upsert(p)
  BY <1>0, <1>5 DEF Upsert, UpsertLifecycle, Put
<1> QED BY <1>1, <1>2, <1>3, <1>4, <1>5, StoreSteps, Zenon

LEMMA RowsStep ==
  ASSUME TInv, RowsInv, CopiesOK, NEW p \in Calls, CallStep(p)
  PROVE  RowsInv'
<1>1. clock' = clock
  BY ClockKept
<1>2. ASSUME NEW t \in Tenants, NEW k \in DOMAIN lifecycle'[t]
      PROVE  LET lc == lifecycle'[t][k]
             IN  /\ Coherent(lc) /\ lc.firstSeen <= lc.lastUpdated
                 /\ lc.resolvedAt \in {Never, lc.lastUpdated}
                 /\ lc.expiresAt <= lc.lastUpdated + MaxWaiver
                 /\ lc.lastUpdated <= clock
  <2>1. CASE k \in DOMAIN lifecycle[t] /\ lifecycle'[t][k] = lifecycle[t][k]
    BY <2>1 DEF RowsInv, RowsCoherent, Coherent
  <2>2. CASE Seed(p) /\ lifecycle'[t][k] = OpenRow(local[p].at, local[p].at)
    <3>1. Never < local[p].at /\ local[p].at <= clock /\ local[p].at \in Nat
      BY <2>2, CallFields, Zenon DEF Seed, CopiesOK, CopyOK
    <3>2. /\ lifecycle'[t][k].state = "open" /\ lifecycle'[t][k].expiresAt = 0
          /\ lifecycle'[t][k].resolvedAt = 0
          /\ lifecycle'[t][k].firstSeen = local[p].at
          /\ lifecycle'[t][k].lastUpdated = local[p].at
      BY <2>2 DEF OpenRow, Never
    <3>3. MaxWaiver \in Nat
      BY ApiAssumption
    <3> QED BY <3>1, <3>2, <3>3 DEF Coherent, Never
  <2>3. CASE Upsert(p) /\ lifecycle'[t][k] = NewRow(p)
    BY <2>3, NewRowCoherent, Zenon DEF Upsert, CopiesOK
  <2> QED BY <1>2, <2>1, <2>2, <2>3, NewRows, Zenon
<1> QED BY <1>1, <1>2 DEF RowsInv, RowsCoherent, Coherent

LEMMA CopiesStep ==
  ASSUME TInv, RowsInv, CopiesOK, NEW p \in Calls, CallStep(p)
  PROVE  CopiesOK'
<1>0. clock' = clock /\ clock \in Nat /\ Never < clock
  BY ClockKept DEF TInv, ApiTypeOK, Never
<1>1. ASSUME NEW q \in Calls, q # p PROVE CopyOK(q)'
  <2>1. pc'[q] = pc[q] /\ req'[q] = req[q] /\ local'[q] = local[q]
    BY <1>1, OtherCalls
  <2>2. CopyOK(q)
    BY DEF CopiesOK
  <2> QED BY <1>0, <2>1, <2>2 DEF CopyOK, Coherent
<1>2. CopyOK(p)'
  <2>0. pc \in [Calls -> Step \cup Status] /\ local \in [Calls -> Local]
    BY DEF TInv, ApiTypeOK
  <2>1. CASE ValidateWaiver(p)
    <3>1. /\ req[p].op = "waive" /\ req[p].until \in Nat /\ req' = req
      BY <2>1, CallFields, RequestFields, ApiAssumption, Zenon
         DEF ValidateWaiver, TInv, ControlOK, ControlAt
    <3>2. CASE /\ clock < req[p].until /\ req[p].until <= clock + MaxWaiver
               /\ Goto(p, "load")
      <4>1. pc'[p] = "load"
        BY <2>0, <3>2 DEF Goto
      <4>2. Never < req[p].until /\ req[p].until <= clock + MaxWaiver
        BY <1>0, <3>1, <3>2 DEF Never
      <4> QED BY <1>0, <3>1, <4>1, <4>2, Zenon DEF CopyOK
    <3>3. CASE Return(p, "badRequest")
      BY <2>0, <3>3, Zenon DEF Return, CopyOK
    <3> QED BY <2>1, <3>2, <3>3 DEF ValidateWaiver
  <2>2. CASE Load(p) \/ LoadWaiver(p)
    <3>1. /\ Tenant(p) \in Tenants /\ req' = req
          /\ pc[p] = "load"
      BY <2>2, CallFields DEF Load, LoadWaiver
    <3>2. CASE /\ Key(p) \in DOMAIN lifecycle[Tenant(p)]
               /\ req[p].op = "revoke" => lifecycle[Tenant(p)][Key(p)].expiresAt # Never
               /\ local' = [local EXCEPT ![p].lc = lifecycle[Tenant(p)][Key(p)]]
               /\ Goto(p, "stampRow")
      <4>1. lifecycle[Tenant(p)][Key(p)] \in FindingLifecycle
        BY <3>1, <3>2, RowType
      <4>2. /\ Coherent(lifecycle[Tenant(p)][Key(p)])
            /\ lifecycle[Tenant(p)][Key(p)].firstSeen <= clock
            /\ req[p].op = "revoke" => lifecycle[Tenant(p)][Key(p)].state = "risk-accepted"
        BY <1>0, <3>1, <3>2, <4>1 DEF RowsInv, RowsCoherent, Coherent, FindingLifecycle
      <4>3. local'[p].lc = lifecycle[Tenant(p)][Key(p)] /\ pc'[p] = "stampRow"
        BY <2>0, <3>2 DEF Goto, Local
      <4> QED BY <1>0, <3>1, <4>2, <4>3, Zenon DEF CopiesOK, CopyOK
    <3>3. CASE Goto(p, "search")
      BY <1>0, <2>0, <3>1, <3>3, Zenon DEF Goto, CopiesOK, CopyOK
    <3>4. CASE Return(p, "notFound")
      BY <2>0, <3>4 DEF Return, CopyOK
    <3> QED BY <2>2, <3>2, <3>3, <3>4 DEF Load, LoadWaiver
  <2>3. CASE Search(p)
    <3>1. CASE /\ local' = [local EXCEPT ![p].lc = OpenRow(clock, Never)]
               /\ Goto(p, "stampRow")
      <4>1. local'[p].lc = OpenRow(clock, Never) /\ pc'[p] = "stampRow"
        BY <2>0, <3>1 DEF Goto, Local
      <4>2. Coherent(OpenRow(clock, Never)) /\ OpenRow(clock, Never).firstSeen <= clock
        BY <1>0 DEF OpenRow, Coherent, Never
      <4>3. req[p].op # "revoke" /\ pc[p] = "search" /\ req' = req
        BY <2>3 DEF Search, TInv, ControlOK, ControlAt
      <4> QED BY <1>0, <4>1, <4>2, <4>3, Zenon DEF CopiesOK, CopyOK
    <3>2. CASE Return(p, "notFound")
      BY <2>0, <3>2 DEF Return, CopyOK
    <3> QED BY <2>3, <3>1, <3>2 DEF Search
  <2>4. CASE StampRow(p)
    <3>1. /\ local'[p].lc = local[p].lc /\ local'[p].at = clock
          /\ pc[p] = "stampRow" /\ pc'[p] = "upsert" /\ req' = req
      BY <2>0, <2>4 DEF StampRow, Stamp, Goto, Local
    <3>2. /\ Coherent(local[p].lc) /\ local[p].lc.firstSeen <= clock
          /\ req[p].op = "waive" => Never < req[p].until /\ req[p].until <= clock + MaxWaiver
          /\ req[p].op = "revoke" => local[p].lc.state = "risk-accepted"
      BY <3>1 DEF CopiesOK, CopyOK
    <3>3. Coherent(local[p].lc)'
      BY <3>1, <3>2 DEF Coherent
    <3>4. clock <= clock
      BY <1>0
    <3> QED BY <1>0, <3>1, <3>2, <3>3, <3>4, Zenon DEF CopyOK
  <2>5. CASE StampSeed(p)
    BY <1>0, <2>0, <2>5 DEF StampSeed, Stamp, Goto, CopyOK, Local
  <2>6. CASE Serve(p)
    <3>1. PICK r \in Request : /\ r.op \in Ops \ {"cron"} /\ req' = [req EXCEPT ![p] = r]
                               /\ Goto(p, firstStep(r.op)) \/ Goto(p, "forbidden")
      BY <2>6, Zenon DEF Serve
    <3>2. r.op \in AllOps
      BY RequestFields
    <3>3. /\ firstStep(r.op) \notin {"search", "stampRow", "upsert", "seed"}
          /\ firstStep(r.op) = "load" => r.op # "waive"
      BY <3>1, <3>2, Zenon DEF firstStep, AllOps
    <3>4. req'[p] = r
      BY <3>1 DEF TInv, ApiTypeOK
    <3> QED BY <2>0, <3>1, <3>3, <3>4, Zenon DEF Goto, CopyOK
  <2>7. CASE pc'[p] \notin {"load", "search", "stampRow", "upsert", "seed"}
    BY <2>7 DEF CopyOK
  <2>8. \/ ValidateWaiver(p) \/ Load(p) \/ LoadWaiver(p) \/ Search(p) \/ StampRow(p)
        \/ StampSeed(p) \/ Serve(p)
        \/ pc'[p] \notin {"load", "search", "stampRow", "upsert", "seed"}
    BY <2>0 DEF CallStep, ApiStep, AddSource, RejectSource, Register, AuditWrite, Delete,
         RemoveSource, AuditDelete, Provision, AuditProvision, AuditErase, EraseTenant,
         PurgeTenant, ScanStep, CronFire, firstStep, TriggerScan, ScannerSucceeds,
         ScannerFails, StampRecord, Record, Seed, Stamp, Succeed, Fail,
         TriageStep, Upsert, AuditRow, Goto, Return
  <2> QED BY <2>1, <2>2, <2>3, <2>4, <2>5, <2>6, <2>7, <2>8
<1> QED BY <1>1, <1>2 DEF CopiesOK

LEMMA TriageInductive ==
  TInv /\ RowsInv /\ CopiesOK /\ [Next]_vars => RowsInv' /\ CopiesOK'
<1> SUFFICES ASSUME TInv, RowsInv, CopiesOK, [Next]_vars PROVE RowsInv' /\ CopiesOK'
  OBVIOUS
<1>1. CASE UNCHANGED vars
  BY <1>1, Zenon DEF vars, calls, store, RowsInv, RowsCoherent, CopiesOK, CopyOK, Coherent
<1>2. CASE Tick
  <2>1. /\ clock \in Nat /\ clock' = clock + 1 /\ UNCHANGED <<store, calls>>
        /\ MaxWaiver \in Nat
    BY <1>2, ApiAssumption DEF Tick, TInv, ApiTypeOK
  <2>2. RowsInv'
    <3>1. \A t \in Tenants : \A k \in DOMAIN lifecycle[t] : lifecycle[t][k].lastUpdated \in Nat
      BY RowType DEF FindingLifecycle
    <3>2. UNCHANGED lifecycle
      BY <2>1 DEF store
    <3>3. RowsCoherent'
      BY <3>2 DEF RowsInv, RowsCoherent
    <3>4. ASSUME NEW t \in Tenants, NEW k \in DOMAIN lifecycle[t]
          PROVE  lifecycle[t][k].lastUpdated <= clock + 1
      <4>1. lifecycle[t][k].lastUpdated <= clock
        BY DEF RowsInv
      <4> QED BY <2>1, <3>1, <4>1
    <3> QED BY <2>1, <3>2, <3>3, <3>4 DEF RowsInv
  <2>3. ASSUME NEW p \in Calls PROVE CopyOK(p)'
    <3>1. /\ local[p].at \in Nat /\ local[p].lc.firstSeen \in Nat
          /\ pc[p] \in {"load", "search", "stampRow"} /\ req[p].op = "waive"
               => req[p].until \in Nat
      <4>1. local[p] \in Local
        BY DEF TInv, ApiTypeOK
      <4>2. local[p].at \in Nat /\ local[p].lc.firstSeen \in Nat
        BY <4>1, ApiAssumption DEF Local, FindingLifecycle
      <4>3. pc[p] \in {"load", "search", "stampRow"} /\ req[p].op = "waive"
              => req[p].until \in Nat
        BY CallFields, RequestFields, ApiAssumption, Zenon
      <4> QED BY <4>2, <4>3
    <3>2. UNCHANGED <<pc, req, local>>
      BY <2>1 DEF calls
    <3>3. CopyOK(p)
      BY DEF CopiesOK
    <3>a. \A x \in Nat : x <= clock => x <= clock + 1
      BY <2>1
    <3>b. \A x \in Nat : x <= clock + MaxWaiver => x <= (clock + 1) + MaxWaiver
      BY <2>1
    <3>4. /\ local[p].lc.firstSeen <= clock => local[p].lc.firstSeen <= clock + 1
          /\ local[p].at <= clock => local[p].at <= clock + 1
      BY <3>1, <3>a, Zenon
    <3>5. pc[p] \in {"load", "search", "stampRow"} /\ req[p].op = "waive" =>
            (req[p].until <= clock + MaxWaiver => req[p].until <= (clock + 1) + MaxWaiver)
      BY <3>1, <3>b, Zenon
    <3> QED BY <2>1, <3>2, <3>3, <3>4, <3>5, Zenon DEF CopyOK, Coherent
  <2> QED BY <2>2, <2>3 DEF CopiesOK
<1>3. ASSUME NEW p \in Calls, CallStep(p) PROVE RowsInv' /\ CopiesOK'
  BY <1>3, RowsStep, CopiesStep
<1> QED BY <1>1, <1>2, <1>3 DEF Next, Quiescent

LEMMA RowsInit == Init => RowsInv /\ CopiesOK
<1> SUFFICES ASSUME Init PROVE RowsInv /\ CopiesOK
  OBVIOUS
<1>1. \A t \in Tenants : DOMAIN lifecycle[t] = {}
  BY DEF Init, StoreInit, EmptyMap
<1>2. RowsInv
  BY <1>1 DEF RowsInv, RowsCoherent
<1>3. \A p \in Calls : pc[p] = "idle"
  BY DEF Init
<1>4. CopiesOK
  BY <1>3 DEF CopiesOK, CopyOK
<1> QED BY <1>2, <1>4

\* Whichever triage handlers and scans race to write a row, its fields agree
\* (lifecycle_api.go:154-174, lifecycle_api.go:213-227).
THEOREM RowsStayCoherent == Spec => []RowsCoherent
<1>1. RowsInv => RowsCoherent
  BY DEF RowsInv
<1> QED BY <1>1, RowsInit, TInvInit, TInvStep, TriageInductive, PTL DEF Spec

\* The mean time-to-resolve is taken over every resolved row: none is skipped
\* for a missing or inverted timestamp (lifecycle.go:139).
THEOREM MTTRIsComplete == Spec => []MTTRCoversResolved
<1>1. TInv /\ RowsInv => MTTRCoversResolved
  <2> SUFFICES ASSUME TInv, RowsInv, NEW t \in Tenants
               PROVE  ComputeMTTR(lifecycle[t], clock).measured
                        = ComputeMTTR(lifecycle[t], clock).count["resolved"]
    BY DEF MTTRCoversResolved
  <2> DEFINE rows == lifecycle[t]
             Measured == { k \in DOMAIN rows : /\ rows[k].state = "resolved"
                                               /\ rows[k].firstSeen # Never
                                               /\ rows[k].resolvedAt # Never
                                               /\ rows[k].resolvedAt >= rows[k].firstSeen }
             Resolved == { k \in DOMAIN rows : EffectiveState(rows[k], clock) = "resolved" }
  <2>1. ASSUME NEW k \in DOMAIN rows PROVE k \in Measured <=> k \in Resolved
    <3>1. rows[k] \in FindingLifecycle
      BY RowType
    <3>2. /\ rows[k].state = "resolved" <=> rows[k].resolvedAt # Never
          /\ Never < rows[k].firstSeen /\ rows[k].firstSeen <= rows[k].lastUpdated
          /\ rows[k].resolvedAt \in {Never, rows[k].lastUpdated}
      BY DEF RowsInv, RowsCoherent
    <3>3. rows[k].state = "resolved" => k \in Measured
      BY <3>1, <3>2 DEF FindingLifecycle, Never
    <3>4. EffectiveState(rows[k], clock) = "resolved" <=> rows[k].state = "resolved"
      BY DEF EffectiveState
    <3> QED BY <3>3, <3>4
  <2>2. Measured = Resolved
    BY <2>1
  <2>3. /\ ComputeMTTR(rows, clock).measured = Cardinality(Measured)
        /\ ComputeMTTR(rows, clock).count["resolved"] = Cardinality(Resolved)
    BY Zenon DEF ComputeMTTR, FindingState, triageStates
  <2> QED BY <2>2, <2>3
<1> QED BY <1>1, RowsInit, TInvInit, TInvStep, TriageInductive, PTL DEF Spec

LEMMA SurvivalStep ==
  TInv /\ [Next]_vars =>
    [ \A t \in Tenants : \A k \in DOMAIN lifecycle[t] :
        k \in DOMAIN lifecycle'[t] /\ lifecycle'[t][k] # lifecycle[t][k] =>
          \E p \in Calls : pc[p] = "upsert" /\ pc'[p] = "auditRow" ]_vars
<1> SUFFICES ASSUME TInv, Next, NEW t \in Tenants, NEW k \in DOMAIN lifecycle[t],
                    k \in DOMAIN lifecycle'[t], lifecycle'[t][k] # lifecycle[t][k]
             PROVE  \E p \in Calls : pc[p] = "upsert" /\ pc'[p] = "auditRow"
  OBVIOUS
<1>1. PICK p \in Calls : CallStep(p)
  BY DEF Next, Tick, Quiescent, vars, store
<1>2. Upsert(p)
  BY <1>1, NewRows
<1> QED BY <1>2 DEF Upsert, Goto, TInv, ApiTypeOK

\* A scan leaves existing triage state untouched (api.go:359).
THEOREM TriageSurvives == Spec => TriageSurvivesScans
<1> QED BY TInvInit, TInvStep, SurvivalStep, PTL DEF Spec, TriageSurvivesScans

=============================================================================
