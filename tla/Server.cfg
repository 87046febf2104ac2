CONSTANTS
  Requests = {r1, r2, r3, r4}
  Workers = {w1, w2}
  QueueSize = 2
  Tenants = {t1}
  Clusters = {c1}
  Findings = {f1}
  Calls = {p1, p2}
  Home = t1
  Configured = {c1}
  Ops = {"register", "delete", "trigger", "cron", "provision", "erase", "triage", "waive", "revoke"}
  Deadlines = {2, 3}
  MaxWaiver = 1
  MaxTime = 2
SPECIFICATION ServerSpec
INVARIANT JobsKept
PROPERTY ImplementsJobService
PROPERTY ShutdownCompletes
PROPERTY CallsReturn
