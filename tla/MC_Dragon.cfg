\* Two blocks compete for one frame next to a block outside the cacheable range.
CONSTANTS
  Caches = {0, 1}
  Blocks = {b1, b2, u1}
  Cacheable = {b1, b2}
  Words = {w1}
  Values = {0, 1}
  Zero = 0
  NumLines = 1
  Sets = {0}
  SetOf <- OneSet
  CpuPackets <- OneBusy
  NoPacket = NoPacket
  Freed = Freed
  NoBlock = NoBlock
SPECIFICATION Spec
PROPERTY ImplementsSharedWrite
