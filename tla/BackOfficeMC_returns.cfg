SPECIFICATION OfficeFairSpec
CONSTANTS
  Moving = {"record", "campaign", "watchdog", "config"}
  NumTurns = 2
  KeptLines = 2
  MaxOutages = 1
  Free = Free
  Starter = Starter
  Ender = Ender
  Faults = {"redis", "slow"}
  Contacts = {c1, c2}
  Phones = {p1}
  Jobs = {j1, j2}
  MaxConcurrent = 1
  MaxAttempts = 3
  MaxTroubles = 1
  MaxHangUps = 0
  StartupGrace = 2
  HardStrikes = 2
  SoftGrace = 3
  KeptLogs = 2
  Loaders = {l1, l2}
  Operators = {o1, o2}
  MaxSaves = 3
  MaxConfigFaults = 1
  CacheWorkers = {w1, w2}
  Questions = {q1}
  MemRefresh = 2
  CacheTtl = 2
  MaxClock = 1
  MaxStores = 1
  MaxCacheFaults = 1
  Docs = {d1}
  Businesses = {b1, b2}
  MaxKbFaults = 2
  PhoneCalls = {"c1", "c2"}
  Tabs = {t1}
  MaxProfileFaults = 1
INVARIANT WatchdogInv
INVARIANT ConfigInv
PROPERTY EndReturns
PROPERTY OnlyStragglersRevive
PROPERTY JobsEnd
PROPERTY KillsOnlyTheDown
PROPERTY OutageEnds
PROPERTY ConfigSettles
CHECK_DEADLOCK FALSE
