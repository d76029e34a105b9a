SPECIFICATION OfficeSpec
CONSTANTS
  Moving = {"record", "campaign", "cache", "knowledge", "profiles"}
  NumTurns = 3
  KeptLines = 2
  MaxOutages = 2
  Free = Free
  Starter = Starter
  Ender = Ender
  Faults = {}
  Contacts = {c1, c2}
  Phones = {p1, p2}
  Jobs = {j1, j2}
  MaxConcurrent = 1
  MaxAttempts = 3
  MaxTroubles = 1
  MaxHangUps = 4
  StartupGrace = 2
  HardStrikes = 2
  SoftGrace = 3
  KeptLogs = 2
  Loaders = {l1, l2}
  Operators = {o1, o2}
  MaxSaves = 3
  MaxConfigFaults = 1
  CacheWorkers = {w1, w2}
  Questions = {q1}
  MemRefresh = 2
  CacheTtl = 2
  MaxClock = 6
  MaxStores = 1
  MaxCacheFaults = 1
  Docs = {d1}
  Businesses = {b1, b2}
  MaxKbFaults = 2
  PhoneCalls = {"c1", "c2"}
  Tabs = {t1}
  MaxProfileFaults = 1
INVARIANT ReadyMeansRow
INVARIANT RecordInv
INVARIANT CampaignInv
INVARIANT RecallInv
PROPERTY ClosedRunStays
CHECK_DEADLOCK FALSE
