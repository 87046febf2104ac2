--------------------------- MODULE DashboardCauses ---------------------------
(***************************************************************************)
(* Why the dashboard's state is as it is: every audit entry that is owed,  *)
(* every waiver, every stored scan and every cluster without a source is   *)
(* traced to the call that caused it, for any number of concurrent calls.  *)
(* And what one request among them shows: the triage lane shows nothing    *)
(* that never was, misses nothing that was there all along, and counts     *)
(* what it shows.                                                          *)
(***************************************************************************)
EXTENDS DashboardProofs, TriageLane

-----------------------------------------------------------------------------
(* The inductive invariants.                                               *)

Gone(t) == \E q \in Calls : Erased(q, t)

\* The call has its entry, or the log it was in is gone.
Logged(p) == (\E e \in audit[Tenant(p)] : e.by = p) \/ Gone(Tenant(p))

\* An erasure is logged before it is carried out, the other calls as they end.
LogInv ==
  \A p \in Calls :
    pc[p] \in {"ok", "forbidden", "failed", "deleteTenant", "purge"} => Logged(p)

Grant(p) == [by |-> p, action |-> "finding.waiver", result |-> "allowed"]

\* Call p granted the waiver that row k of tenant t carries.
Granted(p, t, k) ==
  /\ req[p].op = "waive" /\ Tenant(p) = t /\ Key(p) = k
  /\ req[p].until = lifecycle[t][k].expiresAt
  /\ \/ pc[p] = "auditRow"
     \/ pc[p] = "ok" /\ (Grant(p) \in audit[t] \/ Gone(t))

\* Of every row, expired or not, and of every key, reported or not.
GrantInv ==
  \A t \in Tenants : \A k \in DOMAIN lifecycle[t] :
    lifecycle[t][k].state = "risk-accepted" => \E p \in Calls : Granted(p, t, k)

\* A deletion of cluster id c has taken its source away.
Withdrawn(c) ==
  \E p \in Calls : /\ req[p].op = "delete" /\ Cluster(p) = c
                   /\ pc[p] \in {"auditDelete", "ok"}

\* So too of the clusters that a call is about to register or record.
SourceInv ==
  /\ NoDanglingCluster
  /\ \A p \in Calls :
       pc[p] \in {"register", "stampRecord", "record"} =>
         Cluster(p) \in sources \/ Withdrawn(Cluster(p))

-----------------------------------------------------------------------------
(* The frame of a step, once more: the audit log, the registry, the end.   *)

\* A call that has returned does nothing any more.
LEMMA ReturnedStays ==
  ASSUME NEW p \in Calls, CallStep(p)
  PROVE  pc[p] \notin Status
BY DEF Status, CallStep, ApiStep, Serve, AddSource, RejectSource, Register, AuditWrite, Delete,
       RemoveSource, AuditDelete, Provision, AuditProvision, AuditErase, EraseTenant,
       PurgeTenant, ScanStep, CronFire, TriggerScan, ScannerSucceeds, ScannerFails,
       StampRecord, Record, StampSeed, Seed, Stamp, Succeed, Fail,
       TriageStep, ValidateWaiver, Load, Search, LoadWaiver, StampRow, Upsert, AuditRow

\* A first step is none of a handler's last ones.
LEMMA FirstStep ==
  ASSUME NEW r \in Request
  PROVE  /\ firstStep(r.op) \in {"addSource", "deleteCluster", "getCluster", "provision",
                                 "auditErase", "load", "validate", "scan"}
         /\ r.tenant \in Tenants
BY RequestFields DEF firstStep, AllOps

LEMMA WriteEntry ==
  ASSUME NEW p \in Calls, NEW action, NEW result, Write(p, action, result), req' = req
  PROVE  \E e : e.by = p /\ audit' = [audit EXCEPT ![Tenant(p)'] = @ \cup {e}]
<1>1. [by |-> p, action |-> action, result |-> result].by = p
  OBVIOUS
<1> QED BY <1>1, Zenon DEF Write, Tenant

\* What a step does to the audit log, and where it leaves its call.
Unlogged(p) ==
  /\ audit' = audit
  /\ pc'[p] \notin {"ok", "forbidden", "failed", "deleteTenant"}
  /\ pc'[p] = "purge" => pc[p] = "deleteTenant"

LoggedNow(p) ==
  /\ Tenant(p)' \in Tenants
  /\ \E e : e.by = p /\ audit' = [audit EXCEPT ![Tenant(p)'] = @ \cup {e}]

LEMMA AuditSteps ==
  ASSUME TInv, NEW p \in Calls, CallStep(p)
  PROVE  Unlogged(p) \/ LoggedNow(p) \/ PurgeTenant(p)
<1>0. /\ pc \in [Calls -> Step \cup Status]
      /\ req \in [Calls -> Request \cup {NoRequest}]
  BY DEF TInv, ApiTypeOK
<1>1. CASE Serve(p)
  <2>1. PICK r \in Request, role \in Role, superAdmin \in BOOLEAN :
          /\ req' = [req EXCEPT ![p] = r]
          /\ \/ Goto(p, firstStep(r.op)) /\ UNCHANGED audit
             \/ audit' = [audit EXCEPT ![r.tenant] =
                   @ \cup {[by |-> p, action |-> routeAction(r.op), result |-> "denied"]}]
    BY <1>1, Zenon DEF Serve
  <2>2. Tenant(p)' = r.tenant /\ r.tenant \in Tenants
    BY <1>0, <2>1, FirstStep DEF Tenant
  <2>3. CASE Goto(p, firstStep(r.op)) /\ UNCHANGED audit
    BY <1>0, <2>3, FirstStep DEF Goto, Unlogged
  <2>4. ASSUME audit' = [audit EXCEPT ![r.tenant] =
                 @ \cup {[by |-> p, action |-> routeAction(r.op), result |-> "denied"]}]
        PROVE  LoggedNow(p)
    <3> DEFINE e == [by |-> p, action |-> routeAction(r.op), result |-> "denied"]
    <3>1. e.by = p
      OBVIOUS
    <3> QED BY <2>2, <2>4, <3>1, Zenon DEF LoggedNow
  <2> QED BY <2>1, <2>3, <2>4
<1>2. CASE AuditWrite(p) \/ AuditDelete(p) \/ AuditProvision(p) \/ AuditErase(p)
           \/ Succeed(p) \/ Fail(p) \/ AuditRow(p)
  <2>1. /\ req' = req /\ pc[p] # "idle"
        /\ \E action, result : Write(p, action, result)
    BY <1>2 DEF AuditWrite, AuditDelete, AuditProvision, AuditErase, Succeed, Fail, AuditRow
  <2>2. Tenant(p)' \in Tenants
    BY <2>1, CallFields DEF Tenant
  <2> QED BY <2>1, <2>2, WriteEntry DEF LoggedNow
<1>3. CASE AddSource(p) \/ RejectSource(p) \/ Register(p) \/ Delete(p) \/ RemoveSource(p)
           \/ Provision(p) \/ EraseTenant(p)
  BY <1>0, <1>3 DEF AddSource, RejectSource, Register, Delete, RemoveSource, Provision,
       EraseTenant, Goto, Return, Unlogged
<1>4. CASE CronFire(p) \/ TriggerScan(p) \/ ScannerSucceeds(p) \/ ScannerFails(p)
           \/ StampRecord(p) \/ Record(p) \/ StampSeed(p) \/ Seed(p)
  BY <1>0, <1>4 DEF CronFire, firstStep, TriggerScan, ScannerSucceeds, ScannerFails,
       StampRecord, Record, StampSeed, Seed, Stamp, Goto, Return, Unlogged
<1>5. CASE ValidateWaiver(p) \/ Load(p) \/ Search(p) \/ LoadWaiver(p) \/ StampRow(p) \/ Upsert(p)
  BY <1>0, <1>5 DEF ValidateWaiver, Load, Search, LoadWaiver, StampRow, Upsert, Stamp,
       Goto, Return, Unlogged
<1> QED BY <1>1, <1>2, <1>3, <1>4, <1>5 DEF CallStep, ApiStep, ScanStep, TriageStep

-----------------------------------------------------------------------------
(* The audit log.                                                          *)

LEMMA GoneStays ==
  ASSUME TInv, NEW p \in Calls, CallStep(p), NEW t \in Tenants, Gone(t)
  PROVE  Gone(t)'
<1>1. PICK q \in Calls : Erased(q, t)
  BY DEF Gone
<1>2. q # p
  BY <1>1, ReturnedStays DEF Erased, Status
<1>3. pc'[q] = pc[q] /\ req'[q] = req[q]
  BY <1>2, OtherCalls
<1>4. Erased(q, t)'
  BY <1>1, <1>3 DEF Erased
<1> QED BY <1>4 DEF Gone

\* An entry stays in a log until an erasure of the log's tenant ends.
LEMMA EntryKept ==
  ASSUME TInv, NEW p \in Calls, CallStep(p), NEW t \in Tenants, NEW e,
         e \in audit[t] \/ Gone(t)
  PROVE  e \in audit'[t] \/ Gone(t)'
<1>0. audit \in [Tenants -> SUBSET Entry] /\ pc \in [Calls -> Step \cup Status]
  BY DEF TInv, ApiTypeOK
<1>1. CASE Gone(t)
  BY <1>1, GoneStays
<1>2. CASE e \in audit[t] /\ Unlogged(p)
  BY <1>2 DEF Unlogged
<1>3. CASE e \in audit[t] /\ LoggedNow(p)
  BY <1>0, <1>3 DEF LoggedNow
<1>4. CASE e \in audit[t] /\ PurgeTenant(p)
  <2>1. /\ pc[p] = "purge" /\ req' = req /\ pc' = [pc EXCEPT ![p] = "ok"]
        /\ audit' = [audit EXCEPT ![req[p].target] = {}]
    BY <1>4 DEF PurgeTenant, Return
  <2>2. req[p].op = "erase"
    BY <2>1 DEF TInv, ControlOK, ControlAt
  <2>3. CASE req[p].target = t
    <3>1. Erased(p, t)'
      BY <1>0, <2>1, <2>2, <2>3 DEF Erased
    <3> QED BY <3>1 DEF Gone
  <2>4. CASE req[p].target # t
    BY <1>0, <1>4, <2>1, <2>4
  <2> QED BY <2>3, <2>4
<1> QED BY <1>1, <1>2, <1>3, <1>4, AuditSteps

LEMMA LoggedKept ==
  ASSUME TInv, NEW p \in Calls, CallStep(p), NEW q \in Calls, pc[q] # "idle", Logged(q)
  PROVE  Logged(q)'
<1>1. Tenant(q) \in Tenants
  BY CallFields
<1>2. Tenant(q)' = Tenant(q)
  <2>1. CASE q = p
    BY <2>1, RequestKept DEF Tenant
  <2>2. CASE q # p
    BY <2>2, OtherCalls DEF Tenant
  <2> QED BY <2>1, <2>2
<1>3. PICK t \in Tenants : t = Tenant(q) /\ t = Tenant(q)'
  BY <1>1, <1>2
<1>4. CASE Gone(t)
  <2>1. Gone(t)'
    BY <1>4, GoneStays
  <2> QED BY <1>3, <2>1 DEF Logged, Gone, Erased
<1>5. CASE \E e \in audit[t] : e.by = q
  <2>1. PICK e \in audit[t] : e.by = q
    BY <1>5
  <2>2. e \in audit'[t] \/ Gone(t)'
    BY <2>1, EntryKept
  <2> QED BY <1>3, <2>1, <2>2 DEF Logged, Gone, Erased
<1> QED BY <1>3, <1>4, <1>5 DEF Logged, Gone

LEMMA LogStep == TInv /\ LogInv /\ [Next]_vars => LogInv'
<1> SUFFICES ASSUME TInv, LogInv, [Next]_vars PROVE LogInv'
  OBVIOUS
<1> DEFINE Owed == {"ok", "forbidden", "failed", "deleteTenant", "purge"}
<1>1. CASE UNCHANGED vars \/ Tick
  <2>1. UNCHANGED <<audit, pc, req>>
    BY <1>1 DEF vars, calls, Tick
  <2> QED BY <2>1 DEF LogInv, Logged, Gone, Erased, Tenant
<1>2. ASSUME NEW p \in Calls, CallStep(p), NEW q \in Calls, pc'[q] \in Owed
      PROVE  Logged(q)'
  <2>1. CASE q # p
    <3>1. pc[q] \in Owed
      BY <1>2, <2>1, OtherCalls
    <3>2. Logged(q)
      BY <3>1 DEF LogInv
    <3> QED BY <1>2, <3>1, <3>2, LoggedKept
  <2>2. CASE q = p
    <3>1. CASE pc[p] \in {"deleteTenant", "purge"}
      <4>1. Logged(p)
        BY <3>1 DEF LogInv
      <4> QED BY <1>2, <2>2, <3>1, <4>1, LoggedKept
    <3>2. CASE Unlogged(p)
      BY <1>2, <2>2, <3>1, <3>2 DEF Unlogged
    <3>3. CASE LoggedNow(p)
      <4>1. PICK e : e.by = p /\ audit' = [audit EXCEPT ![Tenant(p)'] = @ \cup {e}]
        BY <3>3, Zenon DEF LoggedNow
      <4>2. e \in audit'[Tenant(p)']
        BY <3>3, <4>1 DEF LoggedNow, TInv, ApiTypeOK
      <4> QED BY <2>2, <4>1, <4>2 DEF Logged
    <3>4. CASE PurgeTenant(p)
      BY <3>1, <3>4 DEF PurgeTenant
    <3> QED BY <1>2, <3>2, <3>3, <3>4, AuditSteps
  <2> QED BY <2>1, <2>2
<1>3. ASSUME NEW p \in Calls, CallStep(p) PROVE LogInv'
  BY <1>2, <1>3 DEF LogInv
<1> QED BY <1>1, <1>3 DEF Next, Quiescent

LEMMA LogInit == Init => LogInv
BY DEF Init, LogInv

\* A call that succeeded, was refused or failed in the scanner has its entry in its
\* caller's log unless the caller's tenant was erased, whatever calls run beside it
\* (audit.go, tenants_api.go:60).
THEOREM AuditLogSurvives == Spec => []AuditSurvives
<1>1. LogInv => AuditSurvives
  BY DEF LogInv, AuditSurvives, Logged, Gone
<1> QED BY <1>1, LogInit, LogStep, TInvInit, TInvStep, PTL DEF Spec

-----------------------------------------------------------------------------
(* Waivers.                                                                *)

\* The only row written with a waiver is the one a waive request asked for: the
\* triage and revoke handlers drop whatever waiver their copy carries.
LEMMA RowOfGrant ==
  ASSUME TInv, NEW p \in Calls, pc[p] = "upsert", NewRow(p).state = "risk-accepted"
  PROVE  req[p].op = "waive" /\ NewRow(p).expiresAt = req[p].until
<1>1. /\ local[p].lc \in FindingLifecycle /\ req[p] \in Request
      /\ req[p].op \in {"triage", "waive", "revoke"}
  BY CallFields DEF TInv, ControlOK, ControlAt
<1>2. CASE req[p].op = "triage"
  <2>1. NewRow(p) = SetState(local[p].lc, req[p].state, local[p].at)
    BY <1>2 DEF NewRow
  <2>2. req[p].state \in triageStates
    BY <1>1, <1>2, RequestFields
  <2> QED BY <1>1, <2>1, <2>2 DEF SetState, FindingLifecycle, triageStates
<1>3. CASE req[p].op = "waive"
  <2>1. NewRow(p) = AcceptRisk(local[p].lc, req[p].until, local[p].at)
    BY <1>3 DEF NewRow
  <2> QED BY <1>1, <1>3, <2>1 DEF AcceptRisk, FindingLifecycle
<1>4. CASE req[p].op = "revoke"
  <2>1. NewRow(p) = Revoke(local[p].lc, local[p].at)
    BY <1>4 DEF NewRow
  <2> QED BY <1>1, <2>1 DEF Revoke, FindingLifecycle
<1> QED BY <1>1, <1>2, <1>3, <1>4

\* The row an upsert writes is the one of its own key in its own tenant.
LEMMA UpsertWrites ==
  ASSUME TInv, NEW p \in Calls, Upsert(p), NEW t \in Tenants, NEW k \in DOMAIN lifecycle'[t]
  PROVE  \/ k \in DOMAIN lifecycle[t] /\ lifecycle'[t][k] = lifecycle[t][k]
         \/ t = Tenant(p) /\ k = Key(p) /\ lifecycle'[t][k] = NewRow(p)
<1>1. DOMAIN lifecycle = Tenants
  BY DEF TInv, StoreTypeOK
<1>2. lifecycle' = [lifecycle EXCEPT ![Tenant(p)] = Put(@, Key(p), NewRow(p))]
  BY DEF Upsert, UpsertLifecycle
<1>3. CASE t # Tenant(p)
  BY <1>1, <1>2, <1>3
<1>4. CASE t = Tenant(p)
  <2>1. lifecycle'[t] = Put(lifecycle[t], Key(p), NewRow(p))
    BY <1>1, <1>2, <1>4
  <2> QED BY <1>4, <2>1 DEF Put
<1> QED BY <1>3, <1>4

\* A grant stays one while the row it made stays.
LEMMA GrantKept ==
  ASSUME TInv, NEW p \in Calls, CallStep(p), NEW q \in Calls,
         NEW t \in Tenants, NEW k, Granted(q, t, k),
         lifecycle'[t][k] = lifecycle[t][k]
  PROVE  Granted(q, t, k)'
<1>0. pc[q] # "idle" /\ pc \in [Calls -> Step \cup Status] /\ audit \in [Tenants -> SUBSET Entry]
  BY DEF Granted, TInv, ApiTypeOK
<1>1. req'[q] = req[q]
  BY <1>0, OtherCalls, RequestKept
<1>2. /\ (req[q].op = "waive" /\ Tenant(q) = t /\ Key(q) = k)'
      /\ (req[q].until = lifecycle[t][k].expiresAt)'
  BY <1>1 DEF Granted, Tenant, Key, Cluster
<1>3. CASE pc'[q] = pc[q]
  <2>1. CASE pc[q] = "auditRow"
    BY <1>2, <1>3, <2>1 DEF Granted
  <2>2. CASE pc[q] = "ok" /\ (Grant(q) \in audit[t] \/ Gone(t))
    <3>1. Grant(q) \in audit'[t] \/ Gone(t)'
      BY <2>2, EntryKept
    <3> QED BY <1>2, <1>3, <2>2, <3>1 DEF Granted, Grant
  <2> QED BY <2>1, <2>2 DEF Granted
<1>4. CASE pc'[q] # pc[q]
  <2>1. q = p
    BY <1>4, OtherCalls
  <2>2. pc[p] = "auditRow"
    BY <2>1, ReturnedStays DEF Granted, Status
  <2>3. AuditRow(p)
    BY <2>2, Zenon DEF CallStep, ApiStep, Serve, AddSource, RejectSource, Register, AuditWrite,
         Delete, RemoveSource, AuditDelete, Provision, AuditProvision, AuditErase,
         EraseTenant, PurgeTenant, ScanStep, CronFire, TriggerScan, ScannerSucceeds,
         ScannerFails, StampRecord, Record, StampSeed, Seed, Stamp, Succeed, Fail, TriageStep,
         ValidateWaiver, Load, Search, LoadWaiver, StampRow, Upsert
  <2>4. rowAction(req[p].op) = "finding.waiver"
    BY <2>1 DEF Granted, rowAction
  <2>5. /\ audit' = [audit EXCEPT ![t] = @ \cup {Grant(p)}]
        /\ pc' = [pc EXCEPT ![p] = "ok"]
    BY <2>1, <2>3, <2>4 DEF AuditRow, Write, Return, Grant, Granted
  <2>6. pc'[q] = "ok" /\ Grant(q) \in audit'[t]
    BY <1>0, <2>1, <2>5
  <2> QED BY <1>2, <2>6 DEF Granted, Grant
<1> QED BY <1>3, <1>4

LEMMA GrantStep == TInv /\ GrantInv /\ [Next]_vars => GrantInv'
<1> SUFFICES ASSUME TInv, GrantInv, [Next]_vars PROVE GrantInv'
  OBVIOUS
<1>1. CASE UNCHANGED vars \/ Tick
  <2>1. UNCHANGED <<lifecycle, audit, pc, req>>
    BY <1>1 DEF vars, calls, store, Tick
  <2> QED BY <2>1 DEF GrantInv, Granted, Grant, Gone, Erased, Tenant, Key, Cluster
<1>2. ASSUME NEW p \in Calls, CallStep(p), NEW t \in Tenants, NEW k \in DOMAIN lifecycle'[t],
             lifecycle'[t][k].state = "risk-accepted"
      PROVE  \E q \in Calls : Granted(q, t, k)'
  <2>1. CASE k \in DOMAIN lifecycle[t] /\ lifecycle'[t][k] = lifecycle[t][k]
    <3>1. PICK q \in Calls : Granted(q, t, k)
      BY <1>2, <2>1 DEF GrantInv
    <3> QED BY <1>2, <2>1, <3>1, GrantKept
  <2>2. CASE Seed(p) /\ lifecycle'[t][k] = OpenRow(local[p].at, local[p].at)
    BY <1>2, <2>2 DEF OpenRow
  <2>3. CASE Upsert(p)
    <3>1. CASE t = Tenant(p) /\ k = Key(p) /\ lifecycle'[t][k] = NewRow(p)
      <4>1. /\ pc[p] = "upsert" /\ req' = req /\ pc' = [pc EXCEPT ![p] = "auditRow"]
        BY <2>3 DEF Upsert, Goto
      <4>2. req[p].op = "waive" /\ lifecycle'[t][k].expiresAt = req[p].until
        BY <1>2, <3>1, <4>1, RowOfGrant
      <4>3. pc'[p] = "auditRow"
        BY <4>1 DEF TInv, ApiTypeOK
      <4> QED BY <3>1, <4>1, <4>2, <4>3 DEF Granted, Tenant, Key, Cluster
    <3> QED BY <1>2, <2>1, <2>3, <3>1, UpsertWrites
  <2> QED BY <1>2, <2>1, <2>2, <2>3, NewRows
<1>3. ASSUME NEW p \in Calls, CallStep(p) PROVE GrantInv'
  BY <1>2, <1>3 DEF GrantInv
<1> QED BY <1>1, <1>3 DEF Next, Quiescent

LEMMA GrantInit == Init => GrantInv
BY DEF Init, StoreInit, EmptyMap, GrantInv

\* What enforcement suppresses, an approver granted, and the grant is in the log or about to be
\* (lifecycle_api.go:213-232, enforcement by BlockingFindings).
THEOREM SuppressionApproved == Spec => []SuppressionIsApproved
<1>1. GrantInv => SuppressionIsApproved
  <2> SUFFICES ASSUME GrantInv, NEW t \in Tenants, NEW c \in DOMAIN clusters[t],
                      NEW f \in LatestReport(t, c)
                        \ BlockingFindings(c, LatestReport(t, c), WaivedKeys(t, c, clock))
               PROVE  \E p \in Calls :
                        /\ req[p].op = "waive" /\ Tenant(p) = t /\ Key(p) = <<c, f>>
                        /\ clock < req[p].until
                        /\ req[p].until = lifecycle[t][<<c, f>>].expiresAt
                        /\ \/ pc[p] = "auditRow"
                           \/ pc[p] = "ok" /\ (Grant(p) \in audit[t] \/ Gone(t))
    BY Zenon DEF SuppressionIsApproved, Grant, Gone
  <2> DEFINE k == <<c, f>>
  <2>1. k \in WaivedKeys(t, c, clock)
    BY DEF BlockingFindings
  <2>2. /\ k \in DOMAIN lifecycle[t] /\ lifecycle[t][k].state = "risk-accepted"
        /\ clock < lifecycle[t][k].expiresAt
    BY <2>1 DEF WaivedKeys, IsActivelyWaived, Active
  <2>3. PICK p \in Calls : Granted(p, t, k)
    BY <2>2 DEF GrantInv
  <2> QED BY <2>2, <2>3 DEF Granted
<1> QED BY <1>1, GrantInit, GrantStep, TInvInit, TInvStep, PTL DEF Spec

-----------------------------------------------------------------------------
(* Sources.                                                                *)

LEMMA WithdrawnStays ==
  ASSUME TInv, NEW p \in Calls, CallStep(p), NEW c, Withdrawn(c)
  PROVE  Withdrawn(c)'
<1>0. pc \in [Calls -> Step \cup Status]
  BY DEF TInv, ApiTypeOK
<1>1. PICK q \in Calls : /\ req[q].op = "delete" /\ Cluster(q) = c
                         /\ pc[q] \in {"auditDelete", "ok"}
  BY DEF Withdrawn
<1>2. req'[q] = req[q]
  BY <1>1, OtherCalls, RequestKept
<1>3. pc'[q] \in {"auditDelete", "ok"}
  <2>1. CASE q # p
    BY <1>1, <2>1, OtherCalls
  <2>2. CASE q = p
    <3>1. pc[p] = "auditDelete"
      BY <1>1, <2>2, ReturnedStays DEF Status
    <3>2. AuditDelete(p)
      BY <3>1 DEF CallStep, ApiStep, Serve, AddSource, RejectSource, Register, AuditWrite,
           Delete, RemoveSource, Provision, AuditProvision, AuditErase,
           EraseTenant, PurgeTenant, ScanStep, CronFire, TriggerScan, ScannerSucceeds,
           ScannerFails, StampRecord, Record, StampSeed, Seed, Stamp, Succeed, Fail, TriageStep,
           ValidateWaiver, Load, Search, LoadWaiver, StampRow, Upsert, AuditRow
    <3> QED BY <1>0, <2>2, <3>2 DEF AuditDelete, Return
  <2> QED BY <2>1, <2>2
<1> QED BY <1>1, <1>2, <1>3 DEF Withdrawn, Cluster

\* A cluster id that had a source has it after a step, or a deletion took it.
LEMMA SourceKept ==
  ASSUME TInv, NEW p \in Calls, CallStep(p), NEW c, c \in sources \/ Withdrawn(c)
  PROVE  c \in sources' \/ Withdrawn(c)'
<1>0. pc \in [Calls -> Step \cup Status]
  BY DEF TInv, ApiTypeOK
<1>1. CASE Withdrawn(c)
  BY <1>1, WithdrawnStays
<1>2. CASE RemoveSource(p)
  <2>1. /\ pc[p] = "removeSource" /\ req' = req /\ sources' = sources \ {Cluster(p)}
        /\ pc'[p] = "auditDelete"
    BY <1>0, <1>2 DEF RemoveSource, Goto
  <2>2. req[p].op = "delete"
    BY <2>1 DEF TInv, ControlOK, ControlAt
  <2>3. CASE c = Cluster(p)
    BY <2>1, <2>2, <2>3 DEF Withdrawn, Cluster
  <2> QED BY <1>1, <2>1, <2>3
<1>3. CASE ~RemoveSource(p)
  <2>1. sources \subseteq sources'
    BY <1>3, Zenon DEF CallStep, ApiStep, Serve, AddSource, RejectSource, Register, AuditWrite, Delete,
       AuditDelete, Provision, AuditProvision, AuditErase, EraseTenant,
       PurgeTenant, ScanStep, CronFire, TriggerScan, ScannerSucceeds, ScannerFails,
       StampRecord, Record, StampSeed, Seed, Stamp, Succeed, Fail,
       TriageStep, ValidateWaiver, Load, Search, LoadWaiver, StampRow, Upsert, AuditRow
  <2> QED BY <1>1, <2>1
<1> QED BY <1>2, <1>3

\* A cluster enters a partition by RegisterCluster or by RecordScan.
LEMMA NewClusters ==
  ASSUME TInv, NEW p \in Calls, CallStep(p), NEW t \in Tenants, NEW c \in DOMAIN clusters'[t]
  PROVE  \/ c \in DOMAIN clusters[t]
         \/ (Register(p) \/ Record(p)) /\ c = Cluster(p)
<1>0. DOMAIN clusters = Tenants
  BY DEF TInv, StoreTypeOK
<1>1. CASE UNCHANGED store \/ Provision(p) \/ Seed(p) \/ Upsert(p)
  BY <1>1 DEF store, Provision, ProvisionTenant, Seed, SeedFindings, Upsert, UpsertLifecycle
<1>2. CASE Register(p)
  BY <1>0, <1>2 DEF Register, RegisterCluster, Put
<1>3. CASE Delete(p)
  BY <1>0, <1>3 DEF Delete, DeleteCluster, Restrict, store
<1>4. CASE EraseTenant(p)
  BY <1>0, <1>4 DEF EraseTenant, DeleteTenant, EmptyMap
<1>5. CASE Record(p)
  BY <1>0, <1>5 DEF Record, RecordScan, Put
<1> QED BY <1>1, <1>2, <1>3, <1>4, <1>5, StoreSteps

\* Who is about to put a cluster into the store has just seen its source.
LEMMA SourceSeen ==
  ASSUME TInv, NEW p \in Calls, CallStep(p), pc'[p] \in {"register", "stampRecord", "record"}
  PROVE  AddSource(p) \/ ScannerSucceeds(p) \/ StampRecord(p)
<1>0. pc \in [Calls -> Step \cup Status]
  BY DEF TInv, ApiTypeOK
<1>1. ~Serve(p)
  <2> SUFFICES ASSUME Serve(p) PROVE FALSE
    OBVIOUS
  <2>1. PICK r \in Request : Goto(p, firstStep(r.op)) \/ Goto(p, "forbidden")
    BY DEF Serve
  <2> QED BY <1>0, <2>1, FirstStep DEF Goto
<1>2. CASE ApiStep(p)
  BY <1>0, <1>1, <1>2 DEF ApiStep, RejectSource, Register, AuditWrite, Delete,
       RemoveSource, AuditDelete, Provision, AuditProvision, AuditErase, EraseTenant,
       PurgeTenant, Goto, Return
<1>3. CASE ScanStep(p)
  BY <1>0, <1>3 DEF ScanStep, CronFire, firstStep, TriggerScan, ScannerFails,
       Record, StampSeed, Seed, Stamp, Succeed, Fail, Goto, Return
<1>4. CASE TriageStep(p)
  BY <1>0, <1>4 DEF TriageStep, ValidateWaiver, Load, Search, LoadWaiver, StampRow, Stamp,
       Upsert, AuditRow, Goto, Return
<1> QED BY <1>2, <1>3, <1>4 DEF CallStep

LEMMA SourceStep == TInv /\ SourceInv /\ [Next]_vars => SourceInv'
<1> SUFFICES ASSUME TInv, SourceInv, [Next]_vars PROVE SourceInv'
  OBVIOUS
<1>0. \A t \in Tenants : \A c \in DOMAIN clusters[t] : c \in sources \/ Withdrawn(c)
  BY DEF SourceInv, NoDanglingCluster, Withdrawn
<1>1. CASE UNCHANGED vars \/ Tick
  <2>1. UNCHANGED <<clusters, sources, pc, req>>
    BY <1>1 DEF vars, calls, store, Tick
  <2> QED BY <2>1 DEF SourceInv, NoDanglingCluster, Withdrawn, Cluster
<1>2. ASSUME NEW p \in Calls, CallStep(p) PROVE SourceInv'
  <2>1. ASSUME NEW t \in Tenants, NEW c \in DOMAIN clusters'[t]
        PROVE  c \in sources' \/ Withdrawn(c)'
    <3>1. c \in sources \/ Withdrawn(c)
      <4>1. CASE c \in DOMAIN clusters[t]
        BY <1>0, <4>1
      <4>2. CASE (Register(p) \/ Record(p)) /\ c = Cluster(p)
        BY <4>2 DEF Register, Record, SourceInv
      <4> QED BY <1>2, <2>1, <4>1, <4>2, NewClusters
    <3> QED BY <1>2, <3>1, SourceKept
  <2>2. ASSUME NEW q \in Calls, pc'[q] \in {"register", "stampRecord", "record"}
        PROVE  (Cluster(q) \in sources \/ Withdrawn(Cluster(q)))'
    <3>1. CASE pc[q] \in {"register", "stampRecord", "record"}
      <4>1. req'[q] = req[q]
        BY <1>2, <3>1, OtherCalls, RequestKept
      <4>2. PICK c : c = Cluster(q) /\ c = Cluster(q)'
        BY <4>1 DEF Cluster
      <4>a. c \in sources \/ Withdrawn(c)
        <5>1. Cluster(q) \in sources \/ Withdrawn(Cluster(q))
          BY <3>1 DEF SourceInv
        <5> QED BY <4>2, <5>1 DEF Withdrawn
      <4>3. c \in sources' \/ Withdrawn(c)'
        BY <1>2, <4>a, SourceKept
      <4> QED BY <4>2, <4>3 DEF Withdrawn
    <3>2. CASE pc[q] \notin {"register", "stampRecord", "record"}
      <4>1. q = p
        BY <1>2, <2>2, <3>2, OtherCalls
      <4>2. AddSource(p) \/ ScannerSucceeds(p)
        BY <1>2, <2>2, <3>2, <4>1, SourceSeen DEF StampRecord, Stamp
      <4> QED BY <4>1, <4>2 DEF AddSource, ScannerSucceeds, Cluster
    <3> QED BY <3>1, <3>2
  <2> QED BY <2>1, <2>2 DEF SourceInv, NoDanglingCluster, Withdrawn
<1> QED BY <1>1, <1>2 DEF Next, Quiescent

LEMMA SourceInit == Init => SourceInv
<1> SUFFICES ASSUME Init PROVE SourceInv
  OBVIOUS
<1>1. \A t \in Tenants : DOMAIN clusters[t] \subseteq sources
  BY DEF Init, StoreInit, EmptyMap
<1>2. \A p \in Calls : pc[p] = "idle"
  BY DEF Init
<1> QED BY <1>1, <1>2 DEF SourceInv, NoDanglingCluster

-----------------------------------------------------------------------------
(* Stored scans.                                                           *)

\* A scan that has been recorded goes on to its end.
LEMMA RecordedStays ==
  ASSUME TInv, NEW p \in Calls, CallStep(p), NEW q \in Calls, pc[q] \in Recorded
  PROVE  pc'[q] \in Recorded /\ req'[q] = req[q]
<1>0. pc \in [Calls -> Step \cup Status]
  BY DEF TInv, ApiTypeOK
<1>1. req'[q] = req[q]
  BY OtherCalls, RequestKept DEF Recorded
<1>2. CASE q # p
  BY <1>1, <1>2, OtherCalls
<1>3. CASE q = p
  <2>1. pc[p] \in {"stampSeed", "seed", "succeed"}
    BY <1>3, ReturnedStays DEF Recorded, Status
  <2>2. StampSeed(p) \/ Seed(p) \/ Succeed(p)
    <3>1. ~ApiStep(p)
      BY <2>1, Zenon DEF ApiStep, Serve, AddSource, RejectSource, Register, AuditWrite,
         Delete, RemoveSource, AuditDelete, Provision, AuditProvision, AuditErase,
         EraseTenant, PurgeTenant
    <3>2. ~TriageStep(p)
      BY <2>1 DEF TriageStep, ValidateWaiver, Load, Search, LoadWaiver, StampRow, Stamp,
         Upsert, AuditRow
    <3>3. ScanStep(p)
      BY <3>1, <3>2 DEF CallStep
    <3> QED BY <2>1, <3>3 DEF ScanStep, CronFire, TriggerScan, ScannerSucceeds,
         ScannerFails, StampRecord, Record, Stamp, Fail
  <2>3. pc'[p] \in Recorded
    BY <1>0, <2>2 DEF StampSeed, Seed, Succeed, Stamp, Goto, Return, Recorded
  <2> QED BY <1>1, <1>3, <2>3
<1> QED BY <1>2, <1>3

\* What ScansBelong says of the scans of one cluster.
Belong(s, t, c) ==
  \A i \in DOMAIN s :
    /\ IsScan(s[i].id, t, c)
    /\ pc[s[i].id] \in Recorded
    /\ \A j \in DOMAIN s : s[j].id = s[i].id => j = i

LEMMA BelongKept ==
  ASSUME TInv, NEW p \in Calls, CallStep(p), NEW s \in Seq(ScanEntry), NEW t, NEW c,
         Belong(s, t, c)
  PROVE  Belong(s, t, c)'
<1> SUFFICES ASSUME NEW i \in DOMAIN s
             PROVE  /\ IsScan(s[i].id, t, c)'
                    /\ pc'[s[i].id] \in Recorded
                    /\ \A j \in DOMAIN s : s[j].id = s[i].id => j = i
  BY DEF Belong
<1>1. s[i].id \in Calls
  <2>1. s[i] \in ScanEntry
    OBVIOUS
  <2> QED BY <2>1 DEF ScanEntry
<1>2. /\ IsScan(s[i].id, t, c) /\ pc[s[i].id] \in Recorded
      /\ \A j \in DOMAIN s : s[j].id = s[i].id => j = i
  BY DEF Belong
<1>3. pc'[s[i].id] \in Recorded /\ req'[s[i].id] = req[s[i].id]
  BY <1>1, <1>2, RecordedStays
<1> QED BY <1>2, <1>3 DEF IsScan, Tenant, Cluster

\* A list with one more entry in front.
Cons(e, s) == <<e>> \o s

LEMMA ConsFact ==
  ASSUME NEW S, NEW s \in Seq(S), NEW e \in S
  PROVE  /\ DOMAIN Cons(e, s) = 1 .. Len(s) + 1
         /\ Cons(e, s)[1] = e
         /\ \A i \in 2 .. Len(s) + 1 : Cons(e, s)[i] = s[i - 1] /\ i - 1 \in DOMAIN s
<1>1. /\ Len(s) \in Nat /\ DOMAIN s = 1 .. Len(s)
      /\ <<e>> \in Seq(S) /\ Len(<<e>>) = 1 /\ <<e>>[1] = e
  OBVIOUS
<1>2. Cons(e, s) = <<e>> \o s
  BY DEF Cons
<1> QED BY <1>1, <1>2

\* Recording a scan that is not in the list yet.
LEMMA BelongCons ==
  ASSUME NEW s \in Seq(ScanEntry), NEW e \in ScanEntry, NEW t, NEW c, Belong(s, t, c)',
         IsScan(e.id, t, c)', pc'[e.id] \in Recorded,
         \A i \in DOMAIN s : s[i].id # e.id
  PROVE  Belong(Cons(e, s), t, c)'
<1> DEFINE u == Cons(e, s)
<1>1. /\ DOMAIN u = 1 .. Len(s) + 1 /\ u[1] = e
      /\ \A i \in 2 .. Len(s) + 1 : u[i] = s[i - 1] /\ i - 1 \in DOMAIN s
  BY ConsFact
<1>2. Len(s) \in Nat
  OBVIOUS
<1> HIDE DEF u
<1> SUFFICES ASSUME NEW i \in DOMAIN u
             PROVE  /\ IsScan(u[i].id, t, c)' /\ pc'[u[i].id] \in Recorded
                    /\ \A j \in DOMAIN u : u[j].id = u[i].id => j = i
  BY DEF Belong, u
<1>3. \A j \in DOMAIN u : j = 1 \/ j \in 2 .. Len(s) + 1
  BY <1>1, <1>2
<1>4. CASE i = 1
  BY <1>1, <1>3, <1>4
<1>5. CASE i \in 2 .. Len(s) + 1
  <2>1. IsScan(u[i].id, t, c)' /\ pc'[u[i].id] \in Recorded
    BY <1>1, <1>5 DEF Belong
  <2>2. ASSUME NEW j \in DOMAIN u, u[j].id = u[i].id PROVE j = i
    <3>1. j # 1
      BY <1>1, <1>5, <2>2
    <3>2. j \in 2 .. Len(s) + 1
      BY <1>3, <3>1
    <3>3. j - 1 = i - 1
      BY <1>1, <1>5, <2>2, <3>2 DEF Belong
    <3> QED BY <1>2, <1>5, <3>2, <3>3
  <2> QED BY <2>1, <2>2
<1> QED BY <1>3, <1>4, <1>5

\* The scans of a cluster after a step: as before, none, or one more.
LEMMA NewScans ==
  ASSUME TInv, NEW p \in Calls, CallStep(p), NEW t \in Tenants, NEW c \in DOMAIN clusters'[t]
  PROVE  \/ c \in DOMAIN clusters[t] /\ clusters'[t][c].scans = clusters[t][c].scans
         \/ clusters'[t][c].scans = <<>>
         \/ /\ Record(p) /\ Tenant(p) = t /\ Cluster(p) = c
            /\ \E s : /\ \/ s = <<>>
                         \/ c \in DOMAIN clusters[t] /\ s = clusters[t][c].scans
                      /\ clusters'[t][c].scans =
                           Cons([id |-> p, at |-> local[p].at, rep |-> local[p].rep], s)
<1>0. DOMAIN clusters = Tenants
  BY DEF TInv, StoreTypeOK
<1>1. CASE UNCHANGED store \/ Provision(p) \/ Seed(p) \/ Upsert(p)
  BY <1>1 DEF store, Provision, ProvisionTenant, Seed, SeedFindings, Upsert, UpsertLifecycle
<1>2. CASE Register(p)
  BY <1>0, <1>2 DEF Register, RegisterCluster, Put, NewCluster
<1>3. CASE Delete(p)
  BY <1>0, <1>3 DEF Delete, DeleteCluster, Restrict, store
<1>4. CASE EraseTenant(p)
  BY <1>0, <1>4 DEF EraseTenant, DeleteTenant, EmptyMap
<1>5. CASE Record(p)
  <2> DEFINE cs  == IF GetCluster(Tenant(p), Cluster(p))
                      THEN clusters[Tenant(p)][Cluster(p)] ELSE NewCluster
             e   == [id |-> p, at |-> local[p].at, rep |-> local[p].rep]
             new == [ hasScan |-> TRUE, latest |-> local[p].rep, lastScanAt |-> local[p].at,
                      scans |-> Cons(e, cs.scans), history |-> Append(cs.history, e) ]
  <2>1. clusters' = [clusters EXCEPT ![Tenant(p)] = Put(@, Cluster(p), new)]
    BY <1>5, Zenon DEF Record, RecordScan, Cons
  <2>2. new.scans = Cons(e, cs.scans)
    OBVIOUS
  <2>3. \/ cs.scans = <<>>
        \/ Cluster(p) \in DOMAIN clusters[Tenant(p)] /\ cs.scans = clusters[Tenant(p)][Cluster(p)].scans
    BY DEF GetCluster, NewCluster
  <2> HIDE DEF new, cs
  <2>4. CASE t = Tenant(p) /\ c = Cluster(p)
    <3>1. clusters'[t][c] = new
      BY <1>0, <2>1, <2>4 DEF Put
    <3> QED BY <1>5, <2>2, <2>3, <2>4, <3>1
  <2>5. CASE t # Tenant(p) \/ c # Cluster(p)
    BY <1>0, <2>1, <2>5 DEF Put
  <2> QED BY <2>4, <2>5, Zenon
<1> QED BY <1>1, <1>2, <1>3, <1>4, <1>5, StoreSteps, Zenon

LEMMA ScansStep == TInv /\ ScansBelong /\ [Next]_vars => ScansBelong'
<1> SUFFICES ASSUME TInv, ScansBelong, [Next]_vars PROVE ScansBelong'
  OBVIOUS
<1>0. ASSUME NEW t \in Tenants, NEW c \in DOMAIN clusters[t]
      PROVE  clusters[t][c].scans \in Seq(ScanEntry) /\ Belong(clusters[t][c].scans, t, c)
  <2>1. clusters[t][c] \in clusterState
    BY DEF TInv, StoreTypeOK
  <2> QED BY <2>1, Zenon DEF clusterState, ScansBelong, Belong
<1>1. CASE UNCHANGED vars \/ Tick
  <2>1. UNCHANGED <<clusters, pc, req>>
    BY <1>1 DEF vars, calls, store, Tick
  <2>2. \A q, t, c : IsScan(q, t, c)' = IsScan(q, t, c)
    BY <2>1 DEF IsScan, Tenant, Cluster
  <2> QED BY <2>1, <2>2 DEF ScansBelong
<1>2. ASSUME NEW p \in Calls, CallStep(p), NEW t \in Tenants, NEW c \in DOMAIN clusters'[t]
      PROVE  Belong(clusters[t][c].scans, t, c)'
  <2>0. ASSUME NEW s, \/ s = <<>>
                      \/ c \in DOMAIN clusters[t] /\ s = clusters[t][c].scans
        PROVE  s \in Seq(ScanEntry) /\ Belong(s, t, c) /\ Belong(s, t, c)'
    <3>1. s \in Seq(ScanEntry) /\ Belong(s, t, c)
      <4>1. CASE s = <<>>
        BY <4>1 DEF Belong
      <4>2. CASE c \in DOMAIN clusters[t] /\ s = clusters[t][c].scans
        BY <1>0, <4>2 DEF Belong
      <4> QED BY <2>0, <4>1, <4>2
    <3> QED BY <1>2, <3>1, BelongKept
  <2>1. PICK u : u = clusters'[t][c].scans
    OBVIOUS
  <2>2. CASE u = <<>> \/ (c \in DOMAIN clusters[t] /\ u = clusters[t][c].scans)
    <3>1. Belong(u, t, c)'
      BY <2>0, <2>2
    <3> QED BY <2>1, <3>1 DEF Belong
  <2>3. ASSUME Record(p), Tenant(p) = t, Cluster(p) = c,
               NEW s, s = <<>> \/ (c \in DOMAIN clusters[t] /\ s = clusters[t][c].scans),
               NEW e, e = [id |-> p, at |-> local[p].at, rep |-> local[p].rep],
               u = Cons(e, s)
        PROVE  Belong(u, t, c)'
    <3>1. /\ pc[p] = "record" /\ req' = req /\ pc'[p] = "stampSeed"
      BY <2>3 DEF Record, Goto, TInv, ApiTypeOK
    <3>2. e \in ScanEntry /\ e.id = p
      BY <2>3, <3>1, CallFields DEF ScanEntry
    <3>3. IsScan(e.id, t, c)' /\ pc'[e.id] \in Recorded
      <4>1. req[p].op \in ScanOps
        BY <3>1 DEF TInv, ControlOK, ControlAt
      <4> QED BY <2>3, <3>1, <3>2, <4>1 DEF IsScan, Recorded, Tenant, Cluster
    <3>4. s \in Seq(ScanEntry) /\ Belong(s, t, c) /\ Belong(s, t, c)'
      BY <2>0, <2>3
    <3>5. \A i \in DOMAIN s : s[i].id # e.id
      BY <3>1, <3>2, <3>4 DEF Belong, Recorded
    <3>6. Belong(Cons(e, s), t, c)'
      BY <3>2, <3>3, <3>4, <3>5, BelongCons
    <3> QED BY <2>3, <3>6
  <2>4. CASE /\ Record(p) /\ Tenant(p) = t /\ Cluster(p) = c
             /\ \E s : /\ s = <<>> \/ (c \in DOMAIN clusters[t] /\ s = clusters[t][c].scans)
                       /\ u = Cons([id |-> p, at |-> local[p].at, rep |-> local[p].rep], s)
    <3>1. PICK e : e = [id |-> p, at |-> local[p].at, rep |-> local[p].rep]
      BY Zenon
    <3>2. Belong(u, t, c)'
      BY <2>3, <2>4, <3>1
    <3> QED BY <2>1, <3>2 DEF Belong
  <2> QED BY <1>2, <2>1, <2>2, <2>4, NewScans
<1>3. ASSUME NEW p \in Calls, CallStep(p) PROVE ScansBelong'
  BY <1>2, <1>3, Zenon DEF ScansBelong, Belong
<1> QED BY <1>1, <1>3 DEF Next, Quiescent

LEMMA ScansInit == Init => ScansBelong
BY DEF Init, StoreInit, EmptyMap, NewCluster, ScansBelong

\* What the store holds has a cause: a stored scan is one its own call made for that
\* tenant and cluster and stored once (api.go:357), and a cluster without a source
\* lost it to a deletion of that id (api.go:239), whatever handlers ran beside them.
THEOREM EverythingHasACause == Spec => []StoredWithCause
<1>1. SourceInv /\ ScansBelong => StoredWithCause
  BY DEF SourceInv, StoredWithCause
<1> QED BY <1>1, SourceInit, SourceStep, ScansInit, ScansStep, TInvInit, TInvStep, PTL DEF Spec

-----------------------------------------------------------------------------
(* The triage lane: its inductive invariant.                                *)

DashInv == TInv /\ RowsInv /\ CopiesOK

Shape ==
  /\ lane = [ pc |-> lane.pc, tenant |-> lane.tenant, scope |-> lane.scope, now |-> lane.now,
              stored |-> lane.stored, todo |-> lane.todo, items |-> lane.items ]
  /\ lane.pc \in {"idle", "rows", "clusters", "reports", "done"}
  /\ lane.tenant \in Tenants /\ lane.scope \in Scopes /\ lane.todo \in Seq(Clusters)
  /\ lane.pc \in {"idle", "rows"} => lane.stored = EmptyMap
  /\ lane.pc \in {"idle", "rows", "clusters"} => lane.items = EmptyMap

\* While the request runs, its history takes in the present.
UpToDate ==
  lane.pc \in {"rows", "clusters", "reports"} =>
    /\ RowsNow(lane.tenant) \subseteq held.rows
    /\ BareNow(lane.tenant) \subseteq held.bare
    /\ ReportedNow(lane.tenant) \cap held.bare \subseteq held.fresh
    /\ steady.rows \subseteq DOMAIN lifecycle[lane.tenant]
    /\ steady.reported \subseteq ReportedNow(lane.tenant)

\* A row whose resolution, if it has one, can be measured.
Measurable(lc) ==
  /\ lc \in FindingLifecycle
  /\ lc.state = "resolved" =>
       lc.firstSeen # Never /\ lc.resolvedAt # Never /\ lc.resolvedAt >= lc.firstSeen

RowsMeasurable == \A t \in Tenants : \A k \in DOMAIN lifecycle[t] : Measurable(lifecycle[t][k])
HeldMeasurable == \A h \in held.rows : Measurable(h[2])

\* The copy of the rows: each was held, those of the scope that are not in it were
\* absent at some moment, and those that stay are in it.
Copied ==
  /\ \A k \in DOMAIN lane.stored : <<k, lane.stored[k]>> \in held.rows
  /\ lane.pc \in {"clusters", "reports"} =>
       /\ \A k \in Keys : InScope(k) /\ k \notin DOMAIN lane.stored => k \in held.bare
       /\ \A k \in steady.rows : InScope(k) => k \in DOMAIN lane.stored

\* The clusters still to be read are of the scope; a finding that stays reported is
\* listed or its cluster is among them.
Ahead ==
  lane.pc = "reports" =>
    /\ \A i \in 1..Len(lane.todo) : lane.scope = <<>> \/ lane.todo[i] = lane.scope[1]
    /\ \A k \in steady.reported : InScope(k) =>
         k \in DOMAIN lane.items \/ \E i \in 1..Len(lane.todo) : lane.todo[i] = k[1]

Shown(k, lc) ==
  \/ \E h \in held.rows : h[1] = k /\ lc = Effective(h[2])
  \/ lc = Default /\ k \in held.fresh
ItemsShown == \A k \in DOMAIN lane.items : Shown(k, lane.items[k])

Answer ==
  lane.pc = "done" =>
    /\ \A k \in steady.rows \cup steady.reported : InScope(k) => k \in DOMAIN lane.items
    /\ mttr = ComputeMTTR(lane.items, lane.now)

LaneInv ==
  /\ DashInv /\ Shape /\ UpToDate /\ HeldMeasurable
  /\ Copied /\ Ahead /\ ItemsShown /\ Answer

-----------------------------------------------------------------------------
(* Lemmas about rows.                                                       *)

\* The rows the store holds are measurable, for they are coherent.
LEMMA StoredRows == TInv /\ RowsInv => RowsMeasurable
<1> SUFFICES ASSUME TInv, RowsInv, NEW t \in Tenants, NEW k \in DOMAIN lifecycle[t]
             PROVE  Measurable(lifecycle[t][k])
  BY Zenon DEF RowsMeasurable
<1>1. lifecycle[t][k] \in FindingLifecycle  BY RowType, Zenon
<1>2. PICK lc : lc = lifecycle[t][k]  BY Zenon
<1>3. /\ lc.state = "resolved" <=> lc.resolvedAt # Never
      /\ Never < lc.firstSeen /\ lc.firstSeen <= lc.lastUpdated
      /\ lc.resolvedAt \in {Never, lc.lastUpdated}
  BY <1>2, Zenon DEF RowsInv, RowsCoherent
<1>4. Measurable(lc)  BY <1>1, <1>2, <1>3 DEF Measurable, FindingLifecycle, Never
<1> QED BY <1>2, <1>4, Zenon

\* Judging the expiry keeps a row a row, and judging it again changes nothing.
LEMMA EffectiveRow ==
  ASSUME NEW lc, Measurable(lc)
  PROVE  /\ Measurable(Effective(lc))
         /\ EffectiveState(Effective(lc), lane.now) = Effective(lc).state
<1>1. lc \in FindingLifecycle  BY DEF Measurable
<1>2. EffectiveState(lc, lane.now) \in {"open", lc.state}  BY DEF EffectiveState
<1>3. PICK s : s = EffectiveState(lc, lane.now)  BY Zenon
<1>4. Effective(lc) = [lc EXCEPT !.state = s]  BY <1>3, Zenon DEF Effective
<1>5. s \in FindingState /\ "open" \in FindingState
  BY <1>1, <1>2, <1>3 DEF FindingLifecycle, FindingState, triageStates
<1>6. PICK e : e = Effective(lc)  BY Zenon
<1>7. /\ e \in FindingLifecycle /\ e.state = s /\ e.expiresAt = lc.expiresAt
      /\ e.firstSeen = lc.firstSeen /\ e.resolvedAt = lc.resolvedAt
  BY <1>1, <1>4, <1>5, <1>6 DEF FindingLifecycle
<1>8. Measurable(e)  BY <1>2, <1>3, <1>7 DEF Measurable
<1>9. EffectiveState(e, lane.now) = e.state
  BY <1>3, <1>7 DEF EffectiveState, Active
<1> QED BY <1>6, <1>8, <1>9, Zenon

\* The default row is open whenever it is read.
LEMMA DefaultRow == Effective(Default) = Default /\ Measurable(Default)
<1>1. Default \in FindingLifecycle /\ Default.state = "open"
  BY DEF Default, OpenRow, FindingLifecycle, FindingState, triageStates, Never
<1>2. EffectiveState(Default, lane.now) = "open"  BY <1>1 DEF EffectiveState
<1>3. [Default EXCEPT !.state = "open"] = Default  BY DEF Default, OpenRow
<1> QED BY <1>1, <1>2, <1>3 DEF Effective, Measurable

-----------------------------------------------------------------------------
(* The steps of the request.                                                *)


\* The present of the lane's tenant, when neither the store nor the tenant changes.
LEMMA PresentKept ==
  ASSUME NEW t, lane'.tenant = t, UNCHANGED <<lifecycle, clusters>>
  PROVE  /\ RowsNow(lane.tenant)' = RowsNow(t) /\ BareNow(lane.tenant)' = BareNow(t)
         /\ ReportedNow(lane.tenant)' = ReportedNow(t)
         /\ DOMAIN lifecycle'[lane'.tenant] = DOMAIN lifecycle[t]
<1>1. lifecycle'[lane'.tenant] = lifecycle[t] /\ clusters'[lane'.tenant] = clusters[t]  BY Zenon
<1>2. RowsNow(lane.tenant)' = RowsNow(t) /\ BareNow(lane.tenant)' = BareNow(t)
  BY <1>1 DEF RowsNow, BareNow
<1>3. ASSUME NEW c PROVE LatestReport(lane.tenant, c)' = LatestReport(t, c)
  BY <1>1, Zenon DEF LatestReport, GetCluster
<1>4. ReportedNow(lane.tenant)' = ReportedNow(t)  BY <1>1, <1>3 DEF ReportedNow
<1> QED BY <1>1, <1>2, <1>4, Zenon

LEMMA HistoryKept ==
  ASSUME UpToDate, HeldMeasurable, lane.pc \in {"rows", "clusters", "reports"},
         UNCHANGED <<lifecycle, clusters, held, steady>>, lane'.tenant = lane.tenant
  PROVE  UpToDate' /\ HeldMeasurable'
<1>1. PICK t : t = lane.tenant  BY Zenon
<1>2. /\ RowsNow(lane.tenant)' = RowsNow(t) /\ BareNow(lane.tenant)' = BareNow(t)
      /\ ReportedNow(lane.tenant)' = ReportedNow(t)
      /\ DOMAIN lifecycle'[lane'.tenant] = DOMAIN lifecycle[t]
  BY <1>1, PresentKept, Zenon
<1>3. /\ RowsNow(t) \subseteq held'.rows /\ BareNow(t) \subseteq held'.bare
      /\ ReportedNow(t) \cap held'.bare \subseteq held'.fresh
      /\ steady'.rows \subseteq DOMAIN lifecycle[t] /\ steady'.reported \subseteq ReportedNow(t)
  BY <1>1, Zenon DEF UpToDate
<1>4. UpToDate'  BY <1>2, <1>3, Zenon DEF UpToDate
<1> QED BY <1>4, Zenon DEF HeldMeasurable

LEMMA OpenLaneKeeps ==
  ASSUME LaneInv, OpenLane, DashInv'
  PROVE  LaneInv'
<1>1. PICK t : t = lane.tenant  BY Zenon
<1>2. /\ lane.pc = "idle" /\ lane' = [lane EXCEPT !.pc = "rows", !.now = clock]
      /\ held' = Seen(NothingSeen, RowsNow(t), BareNow(t), ReportedNow(t))
      /\ steady' = [rows |-> DOMAIN lifecycle[t], reported |-> ReportedNow(t)]
      /\ UNCHANGED <<tenants, clusters, order, lifecycle>>
  BY <1>1, Zenon DEF OpenLane, vars, store
<1>3. Shape /\ RowsMeasurable /\ t \in Tenants
  BY <1>1, StoredRows, Zenon DEF LaneInv, DashInv, Shape
<1>4. /\ lane'.pc = "rows" /\ lane'.tenant = t /\ lane'.scope = lane.scope /\ lane'.todo = lane.todo
      /\ lane'.stored = EmptyMap /\ lane'.items = EmptyMap
      /\ lane' = [ pc |-> lane'.pc, tenant |-> lane'.tenant, scope |-> lane'.scope, now |-> lane'.now,
                   stored |-> lane'.stored, todo |-> lane'.todo, items |-> lane'.items ]
  <2>1. lane.stored = EmptyMap /\ lane.items = EmptyMap  BY <1>2, <1>3, Zenon DEF Shape
  <2>2. lane = [ pc |-> lane.pc, tenant |-> lane.tenant, scope |-> lane.scope, now |-> lane.now,
              stored |-> lane.stored, todo |-> lane.todo, items |-> lane.items ]
    BY <1>3, Zenon DEF Shape
  <2> QED BY <1>1, <1>2, <2>1, <2>2, Zenon
<1>5. Shape'  BY <1>3, <1>4, Zenon DEF Shape
<1>6. /\ held'.rows = RowsNow(t) /\ held'.bare = BareNow(t)
      /\ held'.fresh = ReportedNow(t) \cap BareNow(t)
  BY <1>2 DEF Seen, NothingSeen
<1>7. /\ RowsNow(lane.tenant)' = RowsNow(t) /\ BareNow(lane.tenant)' = BareNow(t)
      /\ ReportedNow(lane.tenant)' = ReportedNow(t)
      /\ DOMAIN lifecycle'[lane'.tenant] = DOMAIN lifecycle[t]
  BY <1>2, <1>4, PresentKept, Zenon
<1>8. steady'.rows = DOMAIN lifecycle[t] /\ steady'.reported = ReportedNow(t)  BY <1>2
<1>9. UpToDate'  BY <1>6, <1>7, <1>8, Zenon DEF UpToDate
<1>10. HeldMeasurable'
  <2> SUFFICES ASSUME NEW h \in RowsNow(t) PROVE Measurable(h[2])
    BY <1>6, Zenon DEF HeldMeasurable
  <2>1. PICK k \in DOMAIN lifecycle[t] : h = <<k, lifecycle[t][k]>>  BY Zenon DEF RowsNow
  <2>2. h[2] = lifecycle[t][k]  BY <2>1
  <2> QED BY <1>3, <2>1, <2>2, Zenon DEF RowsMeasurable
<1>11. \A k \in DOMAIN EmptyMap : FALSE  BY Zenon DEF EmptyMap
<1>12. Copied'  BY <1>4, <1>11, Zenon DEF Copied
<1>13. Ahead' /\ Answer'  BY <1>4, Zenon DEF Ahead, Answer
<1>14. ItemsShown'  BY <1>4, <1>11, Zenon DEF ItemsShown
<1> QED BY <1>5, <1>9, <1>10, <1>12, <1>13, <1>14, Zenon DEF LaneInv

LEMMA ListLifecycleKeeps ==
  ASSUME LaneInv, ListLifecycle, DashInv'
  PROVE  LaneInv'
<1>1. PICK t : t = lane.tenant  BY Zenon
<1>2. PICK S : S = {k \in DOMAIN lifecycle[t] : InScope(k)}  BY Zenon
<1>3. /\ lane.pc = "rows" /\ lane' = [lane EXCEPT !.pc = "clusters", !.stored = Restrict(lifecycle[t], S)]
      /\ UNCHANGED <<lifecycle, clusters, held, steady>>
  BY <1>1, <1>2, Zenon DEF ListLifecycle, vars, store
<1>4. Shape /\ UpToDate /\ HeldMeasurable /\ TInv /\ t \in Tenants
  BY <1>1, Zenon DEF LaneInv, DashInv, Shape
<1>5. /\ lane'.pc = "clusters" /\ lane'.tenant = t /\ lane'.scope = lane.scope /\ lane'.todo = lane.todo
      /\ lane'.stored = Restrict(lifecycle[t], S) /\ lane'.items = EmptyMap
      /\ lane' = [ pc |-> lane'.pc, tenant |-> lane'.tenant, scope |-> lane'.scope, now |-> lane'.now,
                   stored |-> lane'.stored, todo |-> lane'.todo, items |-> lane'.items ]
  <2>1. lane.items = EmptyMap  BY <1>3, <1>4, Zenon DEF Shape
  <2>2. lane = [ pc |-> lane.pc, tenant |-> lane.tenant, scope |-> lane.scope, now |-> lane.now,
              stored |-> lane.stored, todo |-> lane.todo, items |-> lane.items ]
    BY <1>4, Zenon DEF Shape
  <2> QED BY <1>1, <1>3, <2>1, <2>2, Zenon
<1>6. Shape'  BY <1>4, <1>5, Zenon DEF Shape
<1>7. UpToDate' /\ HeldMeasurable'  BY <1>1, <1>3, <1>4, <1>5, HistoryKept, Zenon
<1>8. DOMAIN lane'.stored = S /\ \A k \in S : lane'.stored[k] = lifecycle[t][k]
  BY <1>5, Zenon DEF Restrict
<1>9. /\ RowsNow(t) \subseteq held.rows /\ BareNow(t) \subseteq held.bare
      /\ steady.rows \subseteq DOMAIN lifecycle[t]
  BY <1>1, <1>3, <1>4, Zenon DEF UpToDate
<1>10. Copied'
  <2>1. ASSUME NEW k \in S PROVE <<k, lane'.stored[k]>> \in held.rows
    <3>1. k \in DOMAIN lifecycle[t]  BY <1>2, Zenon
    <3>2. <<k, lifecycle[t][k]>> \in RowsNow(t)  BY <3>1, Zenon DEF RowsNow
    <3> QED BY <1>8, <1>9, <3>2, Zenon
  <2>2. ASSUME NEW k, InScope(k)' PROVE InScope(k)
    BY <1>5, <2>2, Zenon DEF InScope
  <2>3. ASSUME NEW k \in Keys, InScope(k)', k \notin S PROVE k \in held.bare
    <3>1. k \notin DOMAIN lifecycle[t]  BY <1>2, <2>2, <2>3, Zenon
    <3> QED BY <1>9, <3>1, Zenon DEF BareNow
  <2>4. ASSUME NEW k \in steady.rows, InScope(k)' PROVE k \in S
    BY <1>2, <1>9, <2>2, <2>4, Zenon
  <2> QED BY <1>3, <1>8, <2>1, <2>3, <2>4, Zenon DEF Copied
<1>11. \A k \in DOMAIN EmptyMap : FALSE  BY Zenon DEF EmptyMap
<1>12. Ahead' /\ Answer'  BY <1>5, Zenon DEF Ahead, Answer
<1>13. ItemsShown'  BY <1>5, <1>11, Zenon DEF ItemsShown
<1> QED BY <1>6, <1>7, <1>10, <1>12, <1>13, Zenon DEF LaneInv

LEMMA ListClustersKeeps ==
  ASSUME LaneInv, ListClusters, DashInv'
  PROVE  LaneInv'
<1>1. PICK t : t = lane.tenant  BY Zenon
<1>2. PICK ids : ids = IF lane.scope = <<>> THEN order[t] ELSE lane.scope  BY Zenon
<1>3. /\ lane.pc = "clusters" /\ lane' = [lane EXCEPT !.pc = "reports", !.todo = ids]
      /\ UNCHANGED <<lifecycle, clusters, held, steady>>
  BY <1>1, <1>2, Zenon DEF ListClusters, vars, store
<1>4. Shape /\ UpToDate /\ HeldMeasurable /\ Copied /\ TInv /\ t \in Tenants
  BY <1>1, Zenon DEF LaneInv, DashInv, Shape
<1>5. /\ lane'.pc = "reports" /\ lane'.tenant = t /\ lane'.scope = lane.scope /\ lane'.todo = ids
      /\ lane'.stored = lane.stored /\ lane'.items = EmptyMap
      /\ lane' = [ pc |-> lane'.pc, tenant |-> lane'.tenant, scope |-> lane'.scope, now |-> lane'.now,
                   stored |-> lane'.stored, todo |-> lane'.todo, items |-> lane'.items ]
  <2>1. lane.items = EmptyMap  BY <1>3, <1>4, Zenon DEF Shape
  <2>2. lane = [ pc |-> lane.pc, tenant |-> lane.tenant, scope |-> lane.scope, now |-> lane.now,
              stored |-> lane.stored, todo |-> lane.todo, items |-> lane.items ]
    BY <1>4, Zenon DEF Shape
  <2> QED BY <1>1, <1>3, <2>1, <2>2, Zenon
<1>6. /\ ids \in Seq(Clusters)
      /\ \A i \in 1..Len(ids) : lane.scope = <<>> \/ ids[i] = lane.scope[1]
  <2>1. CASE lane.scope = <<>>
    <3>1. order[t] \in Seq(Clusters)  BY <1>4, Zenon DEF TInv, StoreTypeOK
    <3> QED BY <1>2, <2>1, <3>1, Zenon
  <2>2. CASE lane.scope # <<>>
    <3>1. PICK c \in Clusters : lane.scope = <<c>>  BY <1>4, <2>2, LaneAssumption, Zenon DEF Shape
    <3>2. ids = <<c>>  BY <1>2, <2>2, <3>1, Zenon
    <3> QED BY <3>1, <3>2
  <2> QED BY <2>1, <2>2, Zenon
<1>7. Shape'  BY <1>4, <1>5, <1>6, Zenon DEF Shape
<1>8. UpToDate' /\ HeldMeasurable'  BY <1>1, <1>3, <1>4, <1>5, HistoryKept, Zenon
<1>9. Copied'  BY <1>3, <1>4, <1>5, Zenon DEF Copied, InScope
<1>10. ASSUME NEW k \in steady.reported, InScope(k) PROVE \E i \in 1..Len(ids) : ids[i] = k[1]
  <2>1. CASE lane.scope = <<>>
    <3>1. k \in ReportedNow(t)  BY <1>1, <1>3, <1>4, <1>10, Zenon DEF UpToDate
    <3>2. PICK c \in DOMAIN clusters[t] : k \in {c} \X LatestReport(t, c)  BY <3>1 DEF ReportedNow
    <3>3. k[1] = c  BY <3>2
    <3>4. Range(order[t]) = DOMAIN clusters[t]  BY <1>4, Zenon DEF TInv, OrderListsClusters
    <3>5. PICK i \in DOMAIN order[t] : order[t][i] = c  BY <3>2, <3>4 DEF Range
    <3>6. order[t] \in Seq(Clusters)  BY <1>4, Zenon DEF TInv, StoreTypeOK
    <3>7. i \in 1..Len(order[t])  BY <3>5, <3>6
    <3> QED BY <1>2, <2>1, <3>3, <3>5, <3>7, Zenon
  <2>2. CASE lane.scope # <<>>
    <3>1. PICK c \in Clusters : lane.scope = <<c>>  BY <1>4, <2>2, LaneAssumption, Zenon DEF Shape
    <3>2. ids = <<c>> /\ lane.scope[1] = k[1]  BY <1>2, <1>10, <2>2, <3>1, Zenon DEF InScope
    <3>3. 1 \in 1..Len(<<c>>) /\ <<c>>[1] = c  OBVIOUS
    <3> QED BY <3>1, <3>2, <3>3, Zenon
  <2> QED BY <2>1, <2>2, Zenon
<1>11. Ahead'  BY <1>3, <1>5, <1>6, <1>10, Zenon DEF Ahead, InScope
<1>12. \A k \in DOMAIN EmptyMap : FALSE  BY Zenon DEF EmptyMap
<1>13. Answer'  BY <1>5, Zenon DEF Answer
<1>14. ItemsShown'  BY <1>5, <1>12, Zenon DEF ItemsShown
<1> QED BY <1>7, <1>8, <1>9, <1>11, <1>13, <1>14, Zenon DEF LaneInv

LEMMA ReadReportKeeps ==
  ASSUME LaneInv, ReadReport, DashInv'
  PROVE  LaneInv'
<1>1. PICK t : t = lane.tenant  BY Zenon
<1>2. PICK c : c = Head(lane.todo)  BY Zenon
<1>3. /\ lane.pc = "reports" /\ lane.todo # <<>>
      /\ lane' = [lane EXCEPT !.items = Overlay(c), !.todo = Tail(lane.todo)]
      /\ UNCHANGED <<lifecycle, clusters, held, steady>>
  BY <1>2, Zenon DEF ReadReport, vars, store
<1>4. Shape /\ UpToDate /\ HeldMeasurable /\ Copied /\ Ahead /\ ItemsShown /\ TInv /\ t \in Tenants
  BY <1>1, Zenon DEF LaneInv, DashInv, Shape
<1>5. /\ lane'.pc = "reports" /\ lane'.tenant = t /\ lane'.scope = lane.scope /\ lane'.todo = Tail(lane.todo)
      /\ lane'.stored = lane.stored /\ lane'.items = Overlay(c) /\ lane'.now = lane.now
      /\ lane' = [ pc |-> lane'.pc, tenant |-> lane'.tenant, scope |-> lane'.scope, now |-> lane'.now,
                   stored |-> lane'.stored, todo |-> lane'.todo, items |-> lane'.items ]
  <2>1. lane = [ pc |-> lane.pc, tenant |-> lane.tenant, scope |-> lane.scope, now |-> lane.now,
              stored |-> lane.stored, todo |-> lane.todo, items |-> lane.items ]
    BY <1>4, Zenon DEF Shape
  <2> QED BY <1>1, <1>3, <2>1, Zenon
<1>6. /\ lane.todo \in Seq(Clusters) /\ Tail(lane.todo) \in Seq(Clusters)
      /\ Len(lane.todo) \in Nat \ {0} /\ Len(Tail(lane.todo)) = Len(lane.todo) - 1
      /\ \A i \in 1..Len(Tail(lane.todo)) : Tail(lane.todo)[i] = lane.todo[i + 1]
      /\ c = lane.todo[1]
  <2>1. lane.todo \in Seq(Clusters)  BY <1>4, Zenon DEF Shape
  <2> QED BY <1>2, <1>3, <2>1
<1>7. Shape'  BY <1>4, <1>5, <1>6, Zenon DEF Shape
<1>8. UpToDate' /\ HeldMeasurable'  BY <1>1, <1>3, <1>4, <1>5, HistoryKept, Zenon
<1>9. Copied'  BY <1>3, <1>4, <1>5, Zenon DEF Copied, InScope
<1>10. PICK keys : keys = {c} \X LatestReport(t, c)  BY Zenon
<1>11. /\ DOMAIN Overlay(c) = DOMAIN lane.items \cup keys
       /\ \A k \in DOMAIN lane.items : Overlay(c)[k] = lane.items[k]
       /\ \A k \in keys \ DOMAIN lane.items :
            Overlay(c)[k] = Effective(IF k \in DOMAIN lane.stored THEN lane.stored[k] ELSE Default)
  BY <1>1, <1>10, Zenon DEF Overlay
<1>12. \A k \in keys : k[1] = c /\ k \in ReportedNow(t) /\ k \in Keys
  <2> SUFFICES ASSUME NEW k \in keys PROVE k[1] = c /\ k \in ReportedNow(t) /\ k \in Keys
    BY Zenon
  <2>1. PICK f \in LatestReport(t, c) : k = <<c, f>>  BY <1>10
  <2>2. c \in DOMAIN clusters[t] /\ LatestReport(t, c) = clusters[t][c].latest
    BY <2>1, Zenon DEF LatestReport, GetCluster
  <2>3. clusters[t][c] \in clusterState /\ c \in Clusters  BY <1>4, <2>2, Zenon DEF TInv, StoreTypeOK
  <2>4. f \in Findings  BY <2>1, <2>2, <2>3 DEF clusterState, Report
  <2>5. k \in ReportedNow(t)  BY <2>1, <2>2 DEF ReportedNow
  <2>6. k \in Keys  BY <2>1, <2>3, <2>4 DEF Keys
  <2> QED BY <2>1, <2>5, <2>6
<1>13. ASSUME NEW k \in DOMAIN Overlay(c) PROVE Shown(k, Overlay(c)[k])
  <2>1. CASE k \in DOMAIN lane.items  BY <1>4, <1>11, <2>1, Zenon DEF ItemsShown
  <2>2. CASE k \in keys /\ k \notin DOMAIN lane.items /\ k \in DOMAIN lane.stored
    <3>1. Overlay(c)[k] = Effective(lane.stored[k])  BY <1>11, <2>2, Zenon
    <3>2. PICK h : h = <<k, lane.stored[k]>>  BY Zenon
    <3>3. h \in held.rows  BY <1>4, <2>2, <3>2, Zenon DEF Copied
    <3>4. h[1] = k /\ h[2] = lane.stored[k]  BY <3>2
    <3> QED BY <3>1, <3>3, <3>4, Zenon DEF Shown
  <2>3. CASE k \in keys /\ k \notin DOMAIN lane.items /\ k \notin DOMAIN lane.stored
    <3>1. Overlay(c)[k] = Default  BY <1>11, <2>3, DefaultRow, Zenon
    <3>2. 1 \in 1..Len(lane.todo)  BY <1>6
    <3>3. InScope(k)  BY <1>3, <1>4, <1>6, <1>12, <2>3, <3>2, Zenon DEF Ahead, InScope
    <3>4. k \in held.bare  BY <1>3, <1>4, <1>12, <2>3, <3>3, Zenon DEF Copied
    <3>5. k \in held.fresh  BY <1>1, <1>3, <1>4, <1>12, <2>3, <3>4, Zenon DEF UpToDate
    <3> QED BY <3>1, <3>5, Zenon DEF Shown
  <2> QED BY <1>11, <2>1, <2>2, <2>3, Zenon
<1>14. ItemsShown'
  <2>1. \A lc : Effective(lc)' = Effective(lc)  BY <1>5, Zenon DEF Effective
  <2>2. \A k, lc : Shown(k, lc) => Shown(k, lc)'  BY <1>3, <2>1, Zenon DEF Shown
  <2> QED BY <1>5, <1>13, <2>2, Zenon DEF ItemsShown
<1>15. Ahead'
  <2>1. ASSUME NEW i \in 1..Len(Tail(lane.todo))
        PROVE  lane.scope = <<>> \/ Tail(lane.todo)[i] = lane.scope[1]
    <3>1. i + 1 \in 1..Len(lane.todo)  BY <1>6
    <3> QED BY <1>3, <1>4, <1>6, <3>1, Zenon DEF Ahead
  <2>2. ASSUME NEW k \in steady.reported, InScope(k), k \notin DOMAIN Overlay(c)
        PROVE  \E i \in 1..Len(Tail(lane.todo)) : Tail(lane.todo)[i] = k[1]
    <3>1. PICK i \in 1..Len(lane.todo) : lane.todo[i] = k[1]
      BY <1>3, <1>4, <1>11, <2>2, Zenon DEF Ahead
    <3>2. CASE i = 1
      <4>1. k \in ReportedNow(t)  BY <1>1, <1>3, <1>4, <2>2, Zenon DEF UpToDate
      <4>2. PICK d \in DOMAIN clusters[t] : k \in {d} \X LatestReport(t, d)  BY <4>1 DEF ReportedNow
      <4>3. k[1] = d  BY <4>2
      <4>4. k \in keys  BY <1>6, <1>10, <3>1, <3>2, <4>2, <4>3, Zenon
      <4> QED BY <1>11, <2>2, <4>4, Zenon
    <3>3. CASE i # 1
      <4>1. PICK j \in 1..Len(Tail(lane.todo)) : i = j + 1
        <5>1. i - 1 \in 1..Len(Tail(lane.todo)) /\ i = (i - 1) + 1  BY <1>6, <3>3
        <5> QED BY <5>1
      <4> QED BY <1>6, <3>1, <4>1, Zenon
    <3> QED BY <3>2, <3>3, Zenon
  <2>3. \A k : InScope(k)' => InScope(k)  BY <1>5, Zenon DEF InScope
  <2>4. \A k \in steady.reported : InScope(k)' =>
          k \in DOMAIN Overlay(c) \/ \E i \in 1..Len(Tail(lane.todo)) : Tail(lane.todo)[i] = k[1]
    BY <2>2, <2>3, Zenon
  <2>5. /\ steady' = steady /\ lane'.scope = lane.scope /\ lane'.todo = Tail(lane.todo)
        /\ lane'.items = Overlay(c)
    BY <1>3, <1>5, Zenon
  <2>6. \A i \in 1..Len(lane'.todo) : lane'.scope = <<>> \/ lane'.todo[i] = lane'.scope[1]
    BY <2>1, <2>5, Zenon
  <2>7. \A k \in steady'.reported : InScope(k)' =>
          k \in DOMAIN lane'.items \/ \E i \in 1..Len(lane'.todo) : lane'.todo[i] = k[1]
    BY <2>4, <2>5, Zenon
  <2> QED BY <2>6, <2>7, Zenon DEF Ahead
<1>16. Answer'  BY <1>5, Zenon DEF Answer
<1> QED BY <1>7, <1>8, <1>9, <1>14, <1>15, <1>16, Zenon DEF LaneInv

LEMMA AnswerLaneKeeps ==
  ASSUME LaneInv, AnswerLane, DashInv'
  PROVE  LaneInv'
<1>1. /\ lane.pc = "reports" /\ lane.todo = <<>> /\ lane' = [lane EXCEPT !.pc = "done", !.items = Rest]
      /\ mttr' = ComputeMTTR(Rest, lane.now)
      /\ UNCHANGED <<held, steady>>
  BY Zenon DEF AnswerLane
<1>2. Shape /\ HeldMeasurable /\ Copied /\ Ahead /\ ItemsShown  BY Zenon DEF LaneInv
<1>3. /\ lane'.pc = "done" /\ lane'.tenant = lane.tenant /\ lane'.scope = lane.scope
      /\ lane'.todo = lane.todo /\ lane'.stored = lane.stored /\ lane'.items = Rest /\ lane'.now = lane.now
      /\ lane' = [ pc |-> lane'.pc, tenant |-> lane'.tenant, scope |-> lane'.scope, now |-> lane'.now,
                   stored |-> lane'.stored, todo |-> lane'.todo, items |-> lane'.items ]
  <2>1. lane = [ pc |-> lane.pc, tenant |-> lane.tenant, scope |-> lane.scope, now |-> lane.now,
              stored |-> lane.stored, todo |-> lane.todo, items |-> lane.items ]
    BY <1>2, Zenon DEF Shape
  <2> QED BY <1>1, <2>1, Zenon
<1>4. Shape' /\ UpToDate' /\ Ahead' /\ HeldMeasurable'
  BY <1>1, <1>2, <1>3, Zenon DEF Shape, UpToDate, Ahead, HeldMeasurable
<1>5. Copied'  BY <1>1, <1>2, <1>3, Zenon DEF Copied
<1>6. /\ DOMAIN Rest = DOMAIN lane.items \cup DOMAIN lane.stored
      /\ \A k \in DOMAIN lane.items : Rest[k] = lane.items[k]
      /\ \A k \in DOMAIN lane.stored \ DOMAIN lane.items : Rest[k] = Effective(lane.stored[k])
  BY Zenon DEF Rest
<1>7. ASSUME NEW k \in DOMAIN Rest PROVE Shown(k, Rest[k])
  <2>1. CASE k \in DOMAIN lane.items  BY <1>2, <1>6, <2>1, Zenon DEF ItemsShown
  <2>2. CASE k \in DOMAIN lane.stored /\ k \notin DOMAIN lane.items
    <3>1. PICK h : h = <<k, lane.stored[k]>>  BY Zenon
    <3>2. h \in held.rows  BY <1>2, <2>2, <3>1, Zenon DEF Copied
    <3>3. h[1] = k /\ h[2] = lane.stored[k]  BY <3>1
    <3> QED BY <1>6, <2>2, <3>2, <3>3, Zenon DEF Shown
  <2> QED BY <1>6, <2>1, <2>2, Zenon
<1>8. ItemsShown'
  <2>1. \A lc : Effective(lc)' = Effective(lc)  BY <1>3, Zenon DEF Effective
  <2>2. \A k, lc : Shown(k, lc) => Shown(k, lc)'  BY <1>1, <2>1, Zenon DEF Shown
  <2> QED BY <1>3, <1>7, <2>2, Zenon DEF ItemsShown
<1>9. Answer'
  <2>1. Len(lane.todo) = 0 /\ \A i \in 1..0 : FALSE  BY <1>1
  <2>2. ASSUME NEW k \in steady.rows \cup steady.reported, InScope(k)' PROVE k \in DOMAIN Rest
    <3>1. InScope(k)  BY <1>3, <2>2, Zenon DEF InScope
    <3>2. k \in steady.rows => k \in DOMAIN lane.stored  BY <1>1, <1>2, <3>1, Zenon DEF Copied
    <3>3. k \in steady.reported => k \in DOMAIN lane.items  BY <1>1, <1>2, <2>1, <3>1, Zenon DEF Ahead
    <3> QED BY <1>6, <2>2, <3>2, <3>3, Zenon
  <2> QED BY <1>1, <1>3, <2>2, Zenon DEF Answer
<1> QED BY <1>4, <1>5, <1>8, <1>9, Zenon DEF LaneInv

\* A step of another call adds to what was held, and takes from what is steady.
LEMMA ElsewhereKeeps ==
  ASSUME LaneInv, Elsewhere, DashInv', RowsMeasurable'
  PROVE  LaneInv'
<1>1. lane.pc # "done" /\ lane' = lane /\ mttr' = mttr  BY Zenon DEF Elsewhere
<1>2. Shape /\ UpToDate /\ HeldMeasurable /\ Copied /\ Ahead /\ ItemsShown /\ Answer
  BY Zenon DEF LaneInv
<1>3. Shape' /\ Answer'  BY <1>1, <1>2, Zenon DEF Shape, Answer
<1>4. CASE lane.pc = "idle"
  <2>1. held' = held /\ steady' = steady  BY <1>4, Zenon DEF Elsewhere
  <2>2. UpToDate' /\ HeldMeasurable' /\ Copied' /\ Ahead'
    BY <1>1, <1>2, <1>4, <2>1, Zenon DEF UpToDate, HeldMeasurable, Copied, Ahead
  <2>3. \A k \in DOMAIN EmptyMap : FALSE  BY Zenon DEF EmptyMap
  <2>4. ItemsShown'  BY <1>1, <1>2, <1>4, <2>3, Zenon DEF ItemsShown, Shape
  <2> QED BY <1>3, <2>2, <2>4, Zenon DEF LaneInv
<1>5. CASE lane.pc # "idle"
  <2>1. PICK t : t = lane.tenant /\ t = lane'.tenant  BY <1>1, Zenon
  <2>2. PICK rows, bare, reported : /\ rows = RowsNow(lane.tenant)' /\ bare = BareNow(lane.tenant)'
                                    /\ reported = ReportedNow(lane.tenant)'
    BY Zenon
  <2>3. /\ held' = Seen(held, rows, bare, reported)
        /\ steady' = [ rows     |-> steady.rows \cap DOMAIN lifecycle'[lane'.tenant],
                       reported |-> steady.reported \cap reported ]
    BY <1>1, <1>5, <2>2, Zenon DEF Elsewhere
  <2>4. /\ held'.rows = held.rows \cup rows /\ held'.bare = held.bare \cup bare
        /\ held'.fresh = held.fresh \cup (reported \cap (held.bare \cup bare))
        /\ steady'.rows = steady.rows \cap DOMAIN lifecycle'[lane'.tenant]
        /\ steady'.reported = steady.reported \cap reported
    BY <2>3 DEF Seen
  <2>5. UpToDate'  BY <2>2, <2>4, Zenon DEF UpToDate
  <2>6. HeldMeasurable'
    <3> SUFFICES ASSUME NEW h \in rows PROVE Measurable(h[2])
      BY <1>2, <2>4, Zenon DEF HeldMeasurable
    <3>1. PICK k \in DOMAIN lifecycle'[lane'.tenant] : h = <<k, lifecycle'[lane'.tenant][k]>>
      BY <2>2 DEF RowsNow
    <3>2. h[2] = lifecycle'[lane'.tenant][k]  BY <3>1
    <3>3. lane'.tenant \in Tenants  BY <1>3, Zenon DEF Shape
    <3> QED BY <3>1, <3>2, <3>3, Zenon DEF RowsMeasurable
  <2>7. Copied'  BY <1>1, <1>2, <2>4, Zenon DEF Copied, InScope
  <2>8. Ahead'  BY <1>1, <1>2, <2>4, Zenon DEF Ahead, InScope
  <2>9. ItemsShown'  BY <1>1, <1>2, <2>4, Zenon DEF ItemsShown, Shown, Effective
  <2> QED BY <1>3, <2>5, <2>6, <2>7, <2>8, <2>9, Zenon DEF LaneInv
<1> QED BY <1>4, <1>5, Zenon

-----------------------------------------------------------------------------
(* The theorems.                                                            *)

LEMMA LaneInitOK == LaneInit => LaneInv
<1> SUFFICES ASSUME LaneInit PROVE LaneInv
  OBVIOUS
<1>1. DashInv  BY TInvInit, RowsInit, Zenon DEF LaneInit, DashInv
<1>2. /\ lane \in [pc : {"idle"}, tenant : Tenants, scope : Scopes, now : {Never},
                   stored : {EmptyMap}, todo : {<<>>}, items : {EmptyMap}]
      /\ held = NothingSeen
  BY Zenon DEF LaneInit, NoLane
<1>3. /\ lane.pc = "idle" /\ lane.tenant \in Tenants /\ lane.scope \in Scopes /\ lane.todo = <<>>
      /\ lane.stored = EmptyMap /\ lane.items = EmptyMap
      /\ lane = [ pc |-> lane.pc, tenant |-> lane.tenant, scope |-> lane.scope, now |-> lane.now,
                  stored |-> lane.stored, todo |-> lane.todo, items |-> lane.items ]
  BY <1>2
<1>4. <<>> \in Seq(Clusters) /\ \A k \in DOMAIN EmptyMap : FALSE  BY DEF EmptyMap
<1>5. Shape  BY <1>3, <1>4, Zenon DEF Shape
<1>6. held.rows = {}  BY <1>2 DEF NothingSeen
<1>7. UpToDate /\ HeldMeasurable /\ Ahead /\ Answer
  BY <1>3, <1>6, Zenon DEF UpToDate, HeldMeasurable, Ahead, Answer
<1>8. Copied /\ ItemsShown  BY <1>3, <1>4, Zenon DEF Copied, ItemsShown
<1> QED BY <1>1, <1>5, <1>7, <1>8, Zenon DEF LaneInv

LEMMA DashStep == DashInv /\ [Next]_vars => DashInv'
BY TInvStep, TriageInductive, Zenon DEF DashInv

\* Every step of the request leaves the dashboard alone or is a step of it.
LEMMA LaneIsBeside == [LaneNext]_allVars => [Next]_vars
BY Zenon DEF LaneNext, LaneStep, OpenLane, ListLifecycle, ListClusters, ReadReport, AnswerLane,
   Elsewhere, Answered, allVars

LEMMA LaneStutters ==
  ASSUME LaneInv, DashInv', UNCHANGED allVars
  PROVE  LaneInv'
<1>1. /\ lane' = lane /\ mttr' = mttr /\ held' = held /\ steady' = steady
      /\ lifecycle' = lifecycle /\ clusters' = clusters
  BY Zenon DEF allVars, laneVars, vars, store
<1>2. Shape /\ UpToDate /\ HeldMeasurable /\ Copied /\ Ahead /\ ItemsShown /\ Answer
  BY Zenon DEF LaneInv
<1>3. Shape' /\ HeldMeasurable' /\ Copied' /\ Ahead' /\ Answer'
  BY <1>1, <1>2, Zenon DEF Shape, HeldMeasurable, Copied, Ahead, Answer, InScope
<1>4. ItemsShown'  BY <1>1, <1>2, Zenon DEF ItemsShown, Shown, Effective
<1>5. UpToDate'
  <2>1. CASE lane.pc \in {"rows", "clusters", "reports"}  BY <1>1, <1>2, <2>1, HistoryKept, Zenon
  <2>2. CASE lane.pc \notin {"rows", "clusters", "reports"}  BY <1>1, <2>2, Zenon DEF UpToDate
  <2> QED BY <2>1, <2>2, Zenon
<1> QED BY <1>3, <1>4, <1>5, Zenon DEF LaneInv

LEMMA LaneStepOK ==
  LaneInv /\ DashInv' /\ RowsMeasurable' /\ [LaneNext]_allVars => LaneInv'
BY OpenLaneKeeps, ListLifecycleKeeps, ListClustersKeeps, ReadReportKeeps, AnswerLaneKeeps,
   ElsewhereKeeps, LaneStutters, Zenon DEF LaneNext, LaneStep, Answered

\* The invariant holds whatever the other calls do.
LEMMA LaneInvariant == LaneSpec => []LaneInv
<1>1. LaneInv => DashInv  BY Zenon DEF LaneInv
<1>2. DashInv => RowsMeasurable  BY StoredRows, Zenon DEF DashInv
<1> QED BY <1>1, <1>2, LaneInitOK, DashStep, LaneIsBeside, LaneStepOK, PTL DEF LaneSpec

\* The lane shows nothing that never was: each item is a row its finding had during the
\* request, or the default of a finding that had none and was reported then or later
\* (lifecycle_api.go: handleListLifecycle), whatever other calls do between its reads.
THEOREM LaneTruthful == LaneSpec => []LaneShowsWhatWas
<1>1. LaneInv => LaneShowsWhatWas  BY Zenon DEF LaneInv, ItemsShown, Shown, LaneShowsWhatWas
<1> QED BY <1>1, LaneInvariant, PTL

\* What an item of the lane says of its finding is what the summary counts.
LEMMA ItemsCounted ==
  ASSUME LaneInv, NEW k \in DOMAIN lane.items
  PROVE  Measurable(lane.items[k]) /\ EffectiveState(lane.items[k], lane.now) = lane.items[k].state
<1>1. CASE \E h \in held.rows : h[1] = k /\ lane.items[k] = Effective(h[2])
  <2>1. PICK h \in held.rows : lane.items[k] = Effective(h[2])  BY <1>1, Zenon
  <2>2. Measurable(h[2])  BY Zenon DEF LaneInv, HeldMeasurable
  <2> QED BY <2>1, <2>2, EffectiveRow, Zenon
<1>2. CASE lane.items[k] = Default
  <2>1. EffectiveState(Effective(Default), lane.now) = Effective(Default).state
    BY DefaultRow, EffectiveRow, Zenon
  <2> QED BY <1>2, <2>1, DefaultRow, Zenon
<1> QED BY <1>1, <1>2, Zenon DEF LaneInv, ItemsShown, Shown

\* The lane is complete: what had a row, or was reported, at every moment of the request is
\* listed, and the summary (lifecycle.go: ComputeMTTR) counts each item in the state it is
\* shown in, every resolved one in the mean.
THEOREM LaneComplete == LaneSpec => []LaneIsComplete
<1>1. LaneInv => NothingMissing
  BY Zenon DEF LaneInv, Answer, NothingMissing, Done
<1>2. LaneInv => SummaryAgrees
  <2> SUFFICES ASSUME LaneInv, lane.pc = "done" PROVE SummaryAgrees
    BY Zenon DEF SummaryAgrees, Done
  <2>1. PICK items, now : items = lane.items /\ now = lane.now  BY Zenon
  <2>2. mttr = ComputeMTTR(items, now)  BY <2>1, Zenon DEF LaneInv, Answer
  <2>3. \A k \in DOMAIN items : Measurable(items[k]) /\ EffectiveState(items[k], now) = items[k].state
    BY <2>1, ItemsCounted, Zenon
  <2> DEFINE Measured == { k \in DOMAIN items : /\ items[k].state = "resolved"
                                                /\ items[k].firstSeen # Never
                                                /\ items[k].resolvedAt # Never
                                                /\ items[k].resolvedAt >= items[k].firstSeen }
             In(s) == {k \in DOMAIN items : items[k].state = s}
             Counted(s) == {k \in DOMAIN items : EffectiveState(items[k], now) = s}
  <2>4. mttr.measured = Cardinality(Measured) /\ \A s \in FindingState : mttr.count[s] = Cardinality(Counted(s))
    BY <2>2, Zenon DEF ComputeMTTR
  <2>5. \A s : Counted(s) = In(s)  BY <2>3, Zenon
  <2>6. Measured = In("resolved")  BY <2>3, Zenon DEF Measurable
  <2>7. "resolved" \in FindingState  BY DEF FindingState, triageStates
  <2> HIDE DEF Measured, Counted
  <2>8. mttr.measured = Cardinality(In("resolved")) /\ \A s \in FindingState : mttr.count[s] = Cardinality(In(s))
    BY <2>4, <2>5, <2>6, Zenon
  <2> QED BY <2>1, <2>7, <2>8, Zenon DEF SummaryAgrees
<1> QED BY <1>1, <1>2, LaneInvariant, PTL DEF LaneIsComplete

=============================================================================
