\* A loop that stores a counter to one address through the D-cache.
CONSTANTS
  NumRegs = 2
  Modulus = 5
  Setups <- StoreLoopSetup
  InitMems <- ScrambledMem
  HitLatency = 1
  MissLatency = 2
  Avoid = {}
  MaxExecuted = 8
SPECIFICATION Spec
PROPERTY StoresReachTheCache
CHECK_DEADLOCK FALSE
