CONSTANTS
  None = None
  p1 = p1
  p2 = p2
  dev = dev
  sf = sf
  a = a
  b = b
  m1 = m1
  m2 = m2
  bad = bad
  c1 = c1
  c2 = c2
  Dev = dev
  Subs = {}
  Names = {sf, a, b}
  Contents = {m1, m2, bad, c1, c2}
  Siphonfile = sf
  Malformed = {}
  Parsed <- MCParsed
  IconNames = {b}
  Pngs = {c1}
  Procs = {p1}
  Pushers = {p1}
  Projects <- MCProjects
  PackagerOutputs <- MCSomeFooters
  Keys <- MCKeys
  Domain <- MCDomain
  Memcached = TRUE
  MaxAttempts = 1
  FaultKinds = {"s3", "memcached", "evict", "dbwrite", "packager", "django", "rabbitmq", "crash"}
  MaxFaults = 1
SPECIFICATION PushSpec
INVARIANTS PushTypeOK RowsHaveBlobs SuccessStoresListing DoneMeansCurrent
