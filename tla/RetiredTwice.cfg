\* A three-cycle multiply holds the instruction before it in EX/MEM.
CONSTANTS
  NumRegs = 2
  Modulus = 5
  Setups <- MultiplySetup
  InitMems <- ScrambledMem
  HitLatency = 1
  MissLatency = 1
  Avoid = {}
  MaxExecuted = 8
SPECIFICATION Spec
INVARIANT RetireAccounting
CHECK_DEADLOCK FALSE
