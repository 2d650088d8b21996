\* Two cores with their own caches over a shared last level.
CONSTANTS
  L1a = L1a
  L1b = L1b
  L2 = L2
  L3 = L3
  NoCache = NoCache
  Caches = {L1a, L1b, L2, L3}
  Path <- TwoCores
  b1 = b1
  b2 = b2
  b3 = b3
  Blocks = {b1, b2, b3}
  CoreRequests <- SomeOfEach
  Indexes = {0}
  IndexOf <- OneSetEach
  Assoc <- TwoLines
  MshrNum <- TwoEntries
  Latency <- LastIsSlow
  MemQueue = 1
  MaxHits = 1
  MaxWait = 2
  MaxRetry = 2
SPECIFICATION FairSpec
INVARIANTS
  TypeOK
  MshrPinsLines
  StoresKept
  MissesAwaited
PROPERTY Drains
