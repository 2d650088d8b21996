\* Two caches, blocks that evict each other, thresholds around zero.
CONSTANTS
  Caches = {0, 1}
  Blocks = {b1, b2}
  Cacheable = {b1, b2}
  Words = {w1, w2}
  Values = {0}
  Zero = 0
  NumLines = 1
  Sets = {0}
  SetOf <- OneSet
  CpuPackets <- OneWrittenAnyhow
  InvalidThreshold = 0
  InvalidationRatio = 2
  MinThreshold = 0
  MaxThreshold = 1
  NoPacket = NoPacket
  Freed = Freed
  NoBlock = NoBlock
SPECIFICATION FixedSpec
PROPERTY ThresholdFollowsOwnRuns
