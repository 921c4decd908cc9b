\* All programs of three instructions that branch forward only, I-cache misses, memory stalls and the default latencies together.
CONSTANTS
  NumRegs = 2
  Modulus = 5
  Setups <- ForwardSetups
  InitMems <- ScrambledMem
  HitLatency = 1
  MissLatency = 3
  Avoid = {}
  MaxExecuted = 100
SPECIFICATION FairSpec
PROPERTY Halts
CHECK_DEADLOCK FALSE
