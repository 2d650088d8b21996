\* Two caches, three blocks for two frames, and runs of up to two updates.
CONSTANTS
  Caches = {0, 1}
  Blocks = {b1, b2, b3}
  Cacheable = {b1, b2, b3}
  Words = {w1}
  Values = {0}
  Zero = 0
  NumLines = 2
  Sets = {0}
  SetOf <- OneSet
  CpuPackets <- OneWritten
  InvalidThreshold = 2
  NoPacket = NoPacket
  Freed = Freed
  NoBlock = NoBlock
SPECIFICATION SharersSpec
INVARIANTS
  CounterCountsRun
  FramesAccounted
PROPERTIES
  UpdatesRunDown
