\* Three caches, so that two copies drive the remote access wire.
CONSTANTS
  Caches = {0, 1, 2}
  Blocks = {b1}
  Cacheable = {b1}
  Words = {w1}
  Values = {0, 1}
  Zero = 0
  NumLines = 1
  Sets = {0}
  SetOf <- OneSet
  CpuPackets <- AllAccesses
  InvalidThreshold = 2
  NoPacket = NoPacket
  Freed = Freed
  NoBlock = NoBlock
SPECIFICATION Spec
PROPERTY RemoteAccessResetsCounter
