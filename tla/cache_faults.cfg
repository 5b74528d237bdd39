CONSTANTS
  None = None
  p1 = p1
  p2 = p2
  blob = blob
  v1 = v1
  v2 = v2
  Procs = {p1, p2}
  Keys <- MCKeys
  Domain <- MCDomain
  Memcached = TRUE
  MaxAttempts = 3
  FaultKinds = {"s3", "memcached", "evict"}
  MaxFaults = 3
SPECIFICATION FairCacheSpec
INVARIANTS CacheTypeOK OwnValues RetriesMaskFaults
PROPERTIES CallsReturn
