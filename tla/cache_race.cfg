CONSTANTS
  None = None
  p1 = p1
  p2 = p2
  blob = blob
  v1 = v1
  v2 = v2
  Procs = {p1, p2}
  Keys <- MCKeys
  Domain <- MCDomain
  Memcached = TRUE
  MaxAttempts = 3
  FaultKinds = {}
  MaxFaults = 0
SPECIFICATION CacheSpec
INVARIANTS CacheCoherent
