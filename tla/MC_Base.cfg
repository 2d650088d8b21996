\* Three caches, a cacheable and an uncacheable block.
CONSTANTS
  Caches = {0, 1, 2}
  Blocks = {b1, u1}
  Cacheable = {b1}
  Words = {w1}
  Values = {0}
  Zero = 0
  CpuPackets <- OneWord
  NoPacket = NoPacket
  Freed = Freed
SPECIFICATION BaseSpec
INVARIANTS
  OneTransaction
  PacketsAccounted
  TransactionMatches
  NobodyStuck
PROPERTIES
  WaitShrinks
