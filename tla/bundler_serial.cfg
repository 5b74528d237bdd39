CONSTANTS
  None = None
  p1 = p1
  p2 = p2
  q1 = q1
  w1 = w1
  w2 = w2
  h1 = h1
  dev = dev
  sub = sub
  sf = sf
  a = a
  b = b
  m1 = m1
  m2 = m2
  bad = bad
  c1 = c1
  c2 = c2
  Dev = dev
  Subs = {sub}
  Names = {sf, a}
  Contents = {m1, m2, c1}
  Siphonfile = sf
  Malformed = {}
  Parsed <- MCParsed
  IconNames = {}
  Pngs = {}
  PullPlatforms = {"ios", "android", "other"}
  SubmitPlatforms = {"ios", "android"}
  AssetNames = {a}
  Probe = c1
  Handshakes <- MCShakes
  Keys <- MCKeys
  Domain <- MCDomain
  ClientHashes <- MCNothing
  Procs = {p1, q1, w1, h1}
  Pushers = {p1}
  Pullers = {q1}
  Submitters = {w1}
  Monitors = {h1}
  Projects <- MCAssetRemoved
  PackagerOutputs <- MCBothFooters
  MaxActive = 1
  MaxRequests = 0
  Memcached = TRUE
  MaxAttempts = 2
  FaultKinds = {"s3", "memcached", "evict", "packager", "django", "rabbitmq", "dbwrite", "crash"}
  MaxFaults = 1
SPECIFICATION BundlerSpec
INVARIANTS BundlerTypeOK SubmissionWhole ProductionPullWhole HealthcheckTruthful
PROPERTIES SubmissionFrozen ImplementsAppStore
