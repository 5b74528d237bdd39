CONSTANTS
  None = None
  p1 = p1
  p2 = p2
  dev = dev
  sf = sf
  a = a
  b = b
  m1 = m1
  m2 = m2
  bad = bad
  c1 = c1
  c2 = c2
  Dev = dev
  Subs = {}
  Names = {sf, a, b}
  Contents = {m1, m2, c1, c2}
  Siphonfile = sf
  Malformed = {}
  Parsed <- MCParsed
  IconNames = {b}
  Pngs = {c2}
  Procs = {p1}
  Pushers = {p1}
  Projects <- MCUnshared
  PackagerOutputs <- MCSomeFooters
  Keys <- MCKeys
  Domain <- MCDomain
  Memcached = TRUE
  MaxAttempts = 1
  FaultKinds = {"evict", "dbread", "dbwrite", "disk", "packager", "django"}
  MaxFaults = 1
SPECIFICATION PushSpec
INVARIANTS RowsHaveBlobs CacheCoherent
