\* Two-, four-, six- and eight-wide issue: data instructions, branches under every prediction,
\* calls, the default latencies, an I-cache (two-wide) and eight instructions that issue together.
CONSTANTS
  NumRegs = 3
  Modulus = 10
  Setups <- IssueSetups
  InitMems <- ScrambledMem
  HitLatency = 1
  MissLatency = 3
  Avoid = {"lost in MEM/WB", "addend", "load use", "slot 2 load", "pair register", "loaded base", "base", "older over newer", "store data", "slot 2 store", "load behind store", "slot lost", "flags", "call result", "call repeated", "carry", "branch to 0", "fused operand", "fused flags", "predicted again", "secondary branch", "behind the exit"}
  MaxExecuted = 12
SPECIFICATION IssueSpec
INVARIANTS SlotsInOrder GroupsCountedOnce
PROPERTY GroupsFollowEmulator
CHECK_DEADLOCK FALSE
