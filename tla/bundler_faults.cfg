CONSTANTS
  None = None
  p1 = p1
  p2 = p2
  q1 = q1
  w1 = w1
  w2 = w2
  h1 = h1
  dev = dev
  sub = sub
  sf = sf
  a = a
  b = b
  m1 = m1
  m2 = m2
  bad = bad
  c1 = c1
  c2 = c2
  Dev = dev
  Subs = {sub}
  Names = {sf, a}
  Contents = {m1, c1, c2}
  Siphonfile = sf
  Malformed = {}
  Parsed <- MCParsed
  IconNames = {}
  Pngs = {}
  PullPlatforms = {"ios", "other"}
  SubmitPlatforms = {"ios", "other"}
  AssetNames = {a}
  Probe = c1
  Handshakes <- MCShakes
  Keys <- MCKeys
  Domain <- MCDomain
  ClientHashes <- MCNothing
  Procs = {p1, q1, w1, h1}
  Pushers = {p1}
  Pullers = {q1}
  Submitters = {w1}
  Monitors = {h1}
  Projects <- MCAssetProjects
  PackagerOutputs <- MCBothFooters
  MaxActive = 1
  MaxRequests = 3
  Memcached = TRUE
  MaxAttempts = 1
  FaultKinds = {"s3", "memcached", "evict", "dbread", "dbwrite", "disk", "packager", "crash"}
  MaxFaults = 1
SPECIFICATION FairBundlerSpec
INVARIANTS NoTempLeak TempDirsRemoved
PROPERTIES RequestsAnswered
CHECK_DEADLOCK FALSE
