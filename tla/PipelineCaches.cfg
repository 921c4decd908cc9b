\* All programs of three instructions, loops included, behind both caches with any pattern of hits, misses and write-backs, and with a reset at any point.
CONSTANTS
  NumRegs = 2
  Modulus = 4
  Setups <- CachedSetups
  Resettable <- Cached
  MaxResets = 1
  InitMems <- ScrambledMem
  HitLatency = 1
  MissLatency = 3
  Avoid = {"lost in MEM/WB", "call result", "call repeated", "store skipped", "call memory"}
  MaxExecuted = 9
SPECIFICATION RestartSpec
INVARIANT RetireAccounting
PROPERTY RunsAfresh
CHECK_DEADLOCK FALSE
