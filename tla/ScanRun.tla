------------------------------ MODULE ScanRun --------------------------------
(***************************************************************************)
(* One scan, from its trigger to its audit entry (dashboard/api.go,        *)
(* dashboard/scheduler.go, the scanner of cli/dashboard.go).  POST         *)
(* /v1/scans checks that the cluster exists and then runs the scan; a cron *)
(* firing and the scans made at startup run it unconditionally.  The time  *)
(* a queued job spends waiting for a worker is the time between            *)
(* TriggerScan and the first attempt.  The events the run publishes are    *)
(* the subject of Streaming, not of this module.                           *)
(***************************************************************************)
EXTENDS Api

\* runScanner tries the scanner this often.
attempts == 3

\* Scheduler.Start: one spec per configured cluster, in the home tenant.
CronFire(p) ==
  /\ pc[p] = "idle"
  /\ "cron" \in Ops
  /\ \E c \in Configured :
       req' = [req EXCEPT ![p] = [op |-> "cron", tenant |-> Home, cluster |-> c]]
  /\ Goto(p, firstStep("cron"))
  /\ UNCHANGED <<store, sources, audit, gauge, clock, local>>

TriggerScan(p) ==
  /\ pc[p] = "getCluster"
  /\ IF GetCluster(Tenant(p), Cluster(p))
       THEN Goto(p, "scan") /\ UNCHANGED local
       ELSE Return(p, "notFound")
  /\ UNCHANGED <<store, sources, audit, gauge, clock, req>>

-----------------------------------------------------------------------------
(* runScanner.  An attempt looks the source up and runs the engine on it:  *)
(* it fails when the registry has no source, and may fail when it has one. *)

ScannerSucceeds(p) ==
  /\ pc[p] = "scan"
  /\ Cluster(p) \in sources
  /\ \E rep \in Report : local' = [local EXCEPT ![p].rep = rep]
  /\ Goto(p, "stampRecord")
  /\ UNCHANGED <<store, sources, audit, gauge, clock, req>>

\* Faulty variant: attempts that are not counted.
ScannerFails_uncounted(p) ==
  /\ pc[p] = "scan"
  /\ UNCHANGED vars

\* The caller of an inline scan may have gone away: no further attempt then.
ScannerFails(p) ==
  /\ pc[p] = "scan"
  /\ local' = [local EXCEPT ![p].tries = @ + 1]
  /\ \/ local[p].tries + 1 < attempts /\ UNCHANGED pc
     \/ local[p].tries + 1 = attempts /\ Goto(p, "fail")
     \/ req[p].op = "trigger" /\ local[p].tries + 1 < attempts /\ Goto(p, "fail")
  /\ UNCHANGED <<store, sources, audit, gauge, clock, req>>

-----------------------------------------------------------------------------
(* runScanWithID after the scanner has returned.                           *)

StampRecord(p) == Stamp(p, "stampRecord", "record")

Record(p) ==
  /\ pc[p] = "record"
  /\ RecordScan(Tenant(p), Cluster(p), p, local[p].rep, local[p].at)
  /\ Goto(p, "stampSeed")
  /\ UNCHANGED <<sources, audit, gauge, clock, req, local>>

StampSeed(p) == Stamp(p, "stampSeed", "seed")

Seed(p) ==
  /\ pc[p] = "seed"
  /\ SeedFindings(Tenant(p), Cluster(p), local[p].rep, local[p].at)
  /\ Goto(p, "succeed")
  /\ UNCHANGED <<sources, audit, gauge, clock, req, local>>

\* metrics.recordScan and the audit entry of a scan that succeeded.
Succeed(p) ==
  /\ pc[p] = "succeed"
  /\ gauge' = [gauge EXCEPT ![Cluster(p)] = local[p].rep]
  /\ Write(p, "scan.trigger", "allowed")
  /\ Return(p, "ok")
  /\ UNCHANGED <<store, sources, clock, req>>

\* Faulty variant: a failed scan is stored all the same.
Fail_persists(p) ==
  /\ pc[p] = "fail"
  /\ RecordScan(Tenant(p), Cluster(p), p, local[p].rep, local[p].at)
  /\ Write(p, "scan.trigger", "failed")
  /\ Return(p, "failed")
  /\ UNCHANGED <<sources, gauge, clock, req>>

Fail(p) ==
  /\ pc[p] = "fail"
  /\ Write(p, "scan.trigger", "failed")
  /\ Return(p, "failed")
  /\ UNCHANGED <<store, sources, gauge, clock, req>>

ScanStep(p) ==
  \/ CronFire(p) \/ TriggerScan(p)
  \/ ScannerSucceeds(p) \/ ScannerFails(p)
  \/ StampRecord(p) \/ Record(p) \/ StampSeed(p) \/ Seed(p)
  \/ Succeed(p) \/ Fail(p)
=============================================================================
