CONSTANTS
  Tenants = {t1}
  Clusters = {c1}
  Findings = {f1}
  Calls = {p1, p2}
  Home = t1
  Configured = {c1}
  Ops = {"trigger", "cron", "erase"}
  Deadlines = {}
  MaxWaiver = 1
  MaxTime = 1
SPECIFICATION Spec
INVARIANT ErasedStaysErased
