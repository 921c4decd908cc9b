\* Every word of MCSimulators on every register setup, on each of the executors.
CONSTANTS
  Programs <- AllPrograms
  Setups <- AllSetups
  RegNums <- Regs5
  MaxInstructions = 2
  ALULatency = 1
  BranchLatency = 1
  LoadLatency = 2
  StoreLatency = 1
  MultiplyLatency = 3
  SyscallLatency = 1
  FloatLane <- AnyFloat
  Probes <- AllProbes
SPECIFICATION SimSpec
INVARIANT ClassesAreDisjoint
PROPERTY FastTimingFollowsEmulator
PROPERTY StagesFollowEmulator
PROPERTY FusedPairFollowsEmulator
PROPERTY ConditionsMeanComparisons
PROPERTY UpperHalfIsCleared
PROPERTY VectorLanesAreIndependent
CHECK_DEADLOCK FALSE
