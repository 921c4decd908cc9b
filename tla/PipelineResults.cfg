\* No caches: all programs of four data instructions, of three compares, branches and calls, and of three instructions under the default latency table.
CONSTANTS
  NumRegs = 3
  Modulus = 5
  Setups <- UncachedSetups
  InitMems <- ScrambledMem
  HitLatency = 1
  MissLatency = 1
  Avoid = {"lost in MEM/WB", "addend", "load use", "base", "call result", "call repeated", "carry", "return to 0"}
  MaxExecuted = 8
SPECIFICATION Spec
INVARIANT TypeOK
PROPERTY ImplementsEmulator
CHECK_DEADLOCK FALSE
