CONSTANTS
  Scans = {k1, k2, k3}
  None = None
  Vecs <- MCVecs
  Labels <- MCLabels
  Backend = "jsonl"
  MaxStops = 1
SPECIFICATION StandaloneSpec
INVARIANT GaugesHold
INVARIANT HistoryTold
INVARIANT ExitTellsTheTruth
INVARIANT LoadIsHonest
PROPERTY CommandCatchesUp
CHECK_DEADLOCK FALSE
