\* Two-tick memory accesses: an operand waits in MEM/WB while a load stalls the pipeline.
CONSTANTS
  NumRegs = 2
  Modulus = 5
  Setups <- BehindLoadSetup
  InitMems <- ScrambledMem
  HitLatency = 1
  MissLatency = 1
  Avoid = {}
  MaxExecuted = 8
SPECIFICATION Spec
INVARIANT ForwardingDelivers
CHECK_DEADLOCK FALSE
