CONSTANTS
  Tenants = {t1}
  Clusters = {c1, c2}
  Findings = {f1}
  Calls = {p1, p2, p3}
  Home = t1
  Configured = {c1, c2}
  Ops = {"cron", "delete", "erase", "triage", "waive", "revoke"}
  Deadlines = {2, 3}
  MaxWaiver = 1
  MaxTime = 2
  Scopes <- allFleet
SPECIFICATION TriageSpec
SYMMETRY Symmetry
INVARIANT RowsCoherent
INVARIANT SuppressionIsApproved
INVARIANT LaneShowsWhatWas
INVARIANT LaneIsComplete
PROPERTY TriageSurvivesScans
