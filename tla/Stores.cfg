CONSTANTS
  Order <- MCOrder
  Scans = {k1, k2, k3}
  NoScan = NoScan
  Readers = {r1, r2}
  MaxBreaches = 3
  Cap <- MCCap
  Words = 2
  Cluster = c1
  Findings = {f1}
  Before = {s0}
  Ops = {"register", "provision", "scan", "triage", "delete", "erase", "retention"}
SPECIFICATION StoresSpec
SYMMETRY Symmetry
INVARIANT StoredIntact
INVARIANT AnswersHold
INVARIANT NoScanMissed
INVARIANT PagesTile
INVARIANT PageIsRight
INVARIANT ScansWhole
PROPERTY SeedKeepsTriage
