\* Two ways over three blocks: evictions with a choice of victim.
CONSTANTS
  NumSets = 1
  Assoc = 2
  BlockSize = 1
  NumBlocks = 3
  Byte = {0, 1}
  Zero = 0
  HitLatency = 1
  MissLatency = 2
SPECIFICATION Spec
INVARIANT TypeOK
INVARIANT OneCopy
INVARIANT CleanIsBacked
INVARIANT SurvivorsAreFresher
PROPERTY ImplementsLayeredMemory
