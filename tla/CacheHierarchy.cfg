\* One line of two bytes over a lower cache with one line of two bytes: two blocks, moved byte by byte.
CONSTANTS
  NumSets = 1
  Assoc = 1
  BlockSize = 2
  NumBlocks = 2
  LowerSets = 1
  LowerAssoc = 1
  LowerBlockSize = 2
  ChunkSize = 1
  Byte = {0, 1}
  Zero = 0
  HitLatency = 1
  MissLatency = 2
SPECIFICATION HierarchySpec
PROPERTY HierarchyIsLayered
