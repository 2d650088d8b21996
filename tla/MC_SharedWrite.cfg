\* Three caches share one block of two words, stored one by one.
CONSTANTS
  Caches = {0, 1, 2}
  Blocks = {b1}
  Cacheable = {b1}
  Words = {w1, w2}
  Values = {0, 1}
  Zero = 0
  NumLines = 1
  Sets = {0}
  SetOf <- OneSet
  CpuPackets <- WordStores
  NoPacket = NoPacket
  Freed = Freed
  NoBlock = NoBlock
SPECIFICATION ReadersSpec
PROPERTY ImplementsAtomicMemory
INVARIANTS
  SingleOwner
  CopiesAgree
  StaleMemoryHasDirtyCopy
  HandlerAsserts
  WireTellsTruth
