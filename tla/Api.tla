--------------------------------- MODULE Api ---------------------------------
(***************************************************************************)
(* The dashboard's API (dashboard/api.go, auth.go, tenants_api.go,         *)
(* audit.go) over the in-memory store: how a request is admitted, and the  *)
(* handlers that register and delete clusters and provision and erase      *)
(* tenants.  A handler runs in its own goroutine and holds no lock between *)
(* the calls it makes, so it is a sequence of steps: each step makes one   *)
(* call on the store, the source registry or the audit log.  pc[p] is the  *)
(* next step of call p, or the status it ended with.                       *)
(***************************************************************************)
EXTENDS MemStore

CONSTANTS
  Home,        \* the tenant the process was started for (--tenant)
  Configured,  \* the clusters it was started with (--cluster)
  Ops,         \* the operations callers may invoke
  Deadlines,   \* the expiry times a waiver request may ask for
  MaxWaiver,   \* MaxWaiverDuration
  MaxTime      \* bound on the clock

VARIABLES
  sources,     \* the cluster ids the source registry can resolve
  audit,       \* audit[t]: the entries of tenant t (write order left out)
  gauge,       \* gauge[c]: the report the findings gauge of c was set from
  clock,       \* the wall clock; it does not go back
  pc, req,     \* of each call: its next step, its request
  local        \* of each call: the local variables of its handler

calls == <<pc, req, local>>
vars  == <<store, sources, audit, gauge, clock, calls>>

AllOps == {"register", "delete", "trigger", "cron", "provision", "erase",
           "triage", "waive", "revoke"}

ASSUME ApiAssumption ==
  /\ Home \in Tenants
  /\ Configured \subseteq Clusters /\ Configured # {}
  /\ Cardinality(Configured) \in Nat
  /\ Ops \subseteq AllOps
  /\ Deadlines \subseteq Nat
  /\ MaxWaiver \in Nat \ {0}
  /\ MaxTime \in Nat \ {0}

-----------------------------------------------------------------------------
(* Requests.  tenant is the caller's; a principal never names another one,  *)
(* but for the target of a tenant operation.                                *)

Request ==
       [op : {"register", "delete", "trigger", "cron"},
        tenant : Tenants, cluster : Clusters]
  \cup [op : {"provision", "erase"}, tenant : Tenants, target : Tenants]
  \cup [op : {"triage"}, tenant : Tenants, cluster : Clusters,
        finding : Findings, state : triageStates]
  \cup [op : {"waive"}, tenant : Tenants, cluster : Clusters,
        finding : Findings, until : Deadlines]
  \cup [op : {"revoke"}, tenant : Tenants, cluster : Clusters, finding : Findings]

NoRequest == [op |-> "none"]

Step == {"idle", "addSource", "register", "auditWrite", "deleteCluster",
         "removeSource", "auditDelete", "provision", "auditProvision",
         "auditErase", "deleteTenant", "purge", "getCluster", "scan",
         "stampRecord", "record", "stampSeed", "seed", "succeed", "fail",
         "validate", "load", "search", "stampRow", "upsert", "auditRow"}

\* How a call ends: 2xx, 400, 403, 404, or a scan with status failed.
Status == {"ok", "badRequest", "forbidden", "notFound", "failed"}

NoLocal == [rep |-> {}, lc |-> OpenRow(Never, Never), at |-> Never, tries |-> 0]

auditAction == {"cluster.write", "cluster.delete", "scan.trigger", "tenant.provision",
                "tenant.delete", "finding.triage", "finding.waiver",
                "finding.waiver.revoke"}

Entry == [by : Calls, action : auditAction, result : {"allowed", "denied", "failed"}]

-----------------------------------------------------------------------------
(* Control.                                                                *)

Goto(p, step) == pc' = [pc EXCEPT ![p] = step]

\* The handler returns: its locals go out of scope.
Return(p, status) ==
  /\ pc' = [pc EXCEPT ![p] = status]
  /\ local' = [local EXCEPT ![p] = NoLocal]

Tenant(p)  == req[p].tenant
Cluster(p) == req[p].cluster

\* A.audit.Write under the caller's tenant.
Write(p, action, result) ==
  audit' = [audit EXCEPT ![Tenant(p)] =
              @ \cup {[by |-> p, action |-> action, result |-> result]}]

\* a.now(), read into a local before the store call that is passed it.
Stamp(p, from, to) ==
  /\ pc[p] = from
  /\ local' = [local EXCEPT ![p].at = clock]
  /\ Goto(p, to)
  /\ UNCHANGED <<store, sources, audit, gauge, clock, req>>

-----------------------------------------------------------------------------
(* Admission: requireRole and requireSuperAdmin, and the own-tenant test   *)
(* with which handleDeleteTenant begins.                                   *)

roleRank(role) == CASE role = "admin"   -> 3
                    [] role = "analyst" -> 2
                    [] role = "viewer"  -> 1

Role == {"viewer", "analyst", "admin"}

minRole(op) == IF op \in {"trigger", "triage"} THEN "analyst" ELSE "admin"

Authorized(r, role, superAdmin) ==
  CASE r.op = "provision" -> superAdmin
    [] r.op = "erase"     -> /\ roleRank(role) >= roleRank("admin")
                             /\ r.target = r.tenant \/ superAdmin
    [] OTHER              -> roleRank(role) >= roleRank(minRole(r.op))

\* The action name the route audits a refused attempt under.
routeAction(op) ==
  CASE op \in {"register", "delete"} -> "cluster.write"
    [] op = "trigger"                -> "scan.trigger"
    [] op = "provision"              -> "tenant.provision"
    [] op = "erase"                  -> "tenant.delete"
    [] op = "triage"                 -> "finding.triage"
    [] op \in {"waive", "revoke"}    -> "finding.waiver"

firstStep(op) ==
  CASE op = "register"  -> "addSource"
    [] op = "delete"    -> "deleteCluster"
    [] op = "trigger"   -> "getCluster"
    [] op = "provision" -> "provision"
    [] op = "erase"     -> "auditErase"
    [] op = "triage"    -> "load"
    [] op = "waive"     -> "validate"
    [] op = "revoke"    -> "load"
    [] op = "cron"      -> "scan"

Serve(p) ==
  /\ pc[p] = "idle"
  /\ \E r \in Request, role \in Role, superAdmin \in BOOLEAN :
       /\ r.op \in Ops \ {"cron"}
       /\ req' = [req EXCEPT ![p] = r]
       /\ IF Authorized(r, role, superAdmin)
            THEN Goto(p, firstStep(r.op)) /\ UNCHANGED audit
            ELSE /\ Goto(p, "forbidden")
                 /\ audit' = [audit EXCEPT ![r.tenant] =
                      @ \cup {[by |-> p, action |-> routeAction(r.op),
                               result |-> "denied"]}]
  /\ UNCHANGED <<store, sources, gauge, clock, local>>

-----------------------------------------------------------------------------
(* handleRegisterCluster: the source first, then the store row.            *)

AddSource(p) ==
  /\ pc[p] = "addSource"
  /\ sources' = sources \cup {Cluster(p)}
  /\ Goto(p, "register")
  /\ UNCHANGED <<store, audit, gauge, clock, req, local>>

\* The request or its source is malformed.
RejectSource(p) ==
  /\ pc[p] = "addSource"
  /\ Return(p, "badRequest")
  /\ UNCHANGED <<store, sources, audit, gauge, clock, req>>

Register(p) ==
  /\ pc[p] = "register"
  /\ RegisterCluster(Tenant(p), Cluster(p))
  /\ Goto(p, "auditWrite")
  /\ UNCHANGED <<sources, audit, gauge, clock, req, local>>

AuditWrite(p) ==
  /\ pc[p] = "auditWrite"
  /\ Write(p, "cluster.write", "allowed")
  /\ Return(p, "ok")
  /\ UNCHANGED <<store, sources, gauge, clock, req>>

-----------------------------------------------------------------------------
(* handleDeleteCluster: the store rows, then the source.                   *)

Delete(p) ==
  /\ pc[p] = "deleteCluster"
  /\ IF GetCluster(Tenant(p), Cluster(p))
       THEN /\ DeleteCluster(Tenant(p), Cluster(p))
            /\ Goto(p, "removeSource")
            /\ UNCHANGED local
       ELSE Return(p, "notFound") /\ UNCHANGED store
  /\ UNCHANGED <<sources, audit, gauge, clock, req>>

RemoveSource(p) ==
  /\ pc[p] = "removeSource"
  /\ sources' = sources \ {Cluster(p)}
  /\ Goto(p, "auditDelete")
  /\ UNCHANGED <<store, audit, gauge, clock, req, local>>

AuditDelete(p) ==
  /\ pc[p] = "auditDelete"
  /\ Write(p, "cluster.delete", "allowed")
  /\ Return(p, "ok")
  /\ UNCHANGED <<store, sources, gauge, clock, req>>

-----------------------------------------------------------------------------
(* handleProvisionTenant and handleDeleteTenant.                           *)

Provision(p) ==
  /\ pc[p] = "provision"
  /\ ProvisionTenant(req[p].target)
  /\ Goto(p, "auditProvision")
  /\ UNCHANGED <<sources, audit, gauge, clock, req, local>>

AuditProvision(p) ==
  /\ pc[p] = "auditProvision"
  /\ Write(p, "tenant.provision", "allowed")
  /\ Return(p, "ok")
  /\ UNCHANGED <<store, sources, gauge, clock, req>>

\* The erasure is recorded before it is carried out.
AuditErase(p) ==
  /\ pc[p] = "auditErase"
  /\ Write(p, "tenant.delete", "allowed")
  /\ Goto(p, "deleteTenant")
  /\ UNCHANGED <<store, sources, gauge, clock, req, local>>

EraseTenant(p) ==
  /\ pc[p] = "deleteTenant"
  /\ DeleteTenant(req[p].target)
  /\ Goto(p, "purge")
  /\ UNCHANGED <<sources, audit, gauge, clock, req, local>>

\* Faulty variant: the caller's own log is purged.
PurgeTenant_caller(p) ==
  /\ pc[p] = "purge"
  /\ audit' = [audit EXCEPT ![Tenant(p)] = {}]
  /\ Return(p, "ok")
  /\ UNCHANGED <<store, sources, gauge, clock, req>>

PurgeTenant(p) ==
  /\ pc[p] = "purge"
  /\ audit' = [audit EXCEPT ![req[p].target] = {}]
  /\ Return(p, "ok")
  /\ UNCHANGED <<store, sources, gauge, clock, req>>

ApiStep(p) ==
  \/ Serve(p)
  \/ AddSource(p) \/ RejectSource(p) \/ Register(p) \/ AuditWrite(p)
  \/ Delete(p) \/ RemoveSource(p) \/ AuditDelete(p)
  \/ Provision(p) \/ AuditProvision(p)
  \/ AuditErase(p) \/ EraseTenant(p) \/ PurgeTenant(p)
=============================================================================
