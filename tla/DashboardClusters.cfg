CONSTANTS
  Tenants = {t1, t2}
  Clusters = {c1, c2}
  Findings = {f1}
  Calls = {p1, p2, p3}
  Home = t1
  Configured = {c1}
  Ops = {"register", "delete", "trigger", "cron", "provision", "erase"}
  Deadlines = {}
  MaxWaiver = 1
  MaxTime = 1
SPECIFICATION ClustersSpec
SYMMETRY Symmetry
INVARIANT StoreWellFormed
INVARIANT TrackedOrPending
INVARIANT StoredWithCause
INVARIANT AuditSurvives
PROPERTY TenantIsolation
