SPECIFICATION Spec
CONSTANTS
  Tenants = {t1, t2}
  Scans = {k1, k2}
  Clients = {c1}
  BufferSize = 2
INVARIANT LiveIsCurrent
