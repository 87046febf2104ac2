SPECIFICATION Spec
CONSTANTS
  Calls = {p1, p2, p3}
  Clusters = {c1}
  Findings = {f1}
  Before = {s0}
  Ops = {"register", "provision", "scan", "triage", "delete", "erase", "retention"}
INVARIANT LatestUnique
