CONSTANTS
  Slots = {s1, s2}
  Requests <- MCRequests
  Tenants = {"t1", "t2"}
  Keys = {"k1", "k2"}
  LocalTenant = "t1"
  OIDC = TRUE
  RateLimited = TRUE
  Burst = 2
  Rate = 1
  MaxTime = 1
  MaxRotations = 2
  MaxFaults = 1
  Scans = {k1, k2}
  Clients = {c1}
SPECIFICATION SessionSpec
INVARIANT LimitsHold
INVARIANT AuthSound
INVARIANT StreamTruthful
PROPERTY KeyGetsIn
PROPERTY NotifiedComesToShow
PROPERTY ScansNeverStall
