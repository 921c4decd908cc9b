---------------------------- MODULE Simulators ----------------------------
(***************************************************************************)
(* The three executors of the repository side by side on one program: the  *)
(* emulator, fast timing, and the stages of the pipeline, with and without *)
(* fusion.  A run is one of them; what it does is compared, instruction by  *)
(* instruction, with what the emulator would do from the same state.  The   *)
(* known differences are listed by name, each with its condition.           *)
(***************************************************************************)
EXTENDS FastTiming, Stages, FiniteSets

CONSTANT Probes   \* instruction words whose encoding classes are compared

VARIABLE machine   \* which executor runs

simVars == <<machine, fastVars>>

Machines == {"emulator", "fast", "stages", "fused"}

SimInit == machine \in Machines /\ FastInit

Emulates == machine = "emulator" /\ Next /\ UNCHANGED <<machine, cycles, unhandled>>
Ticks == machine = "fast" /\ Tick /\ UNCHANGED machine

\* Bound: the stages, which no unknown word stops, are followed to the program's end.
GoesThrough ==
  /\ machine = "stages" /\ arch.pc \in DOMAIN prog
  /\ Through
  /\ UNCHANGED <<machine, cycles, unhandled>>
Fuses == machine = "fused" /\ Fuse /\ UNCHANGED <<machine, cycles, unhandled>>

SimNext == Emulates \/ Ticks \/ GoesThrough \/ Fuses

SimSpec == SimInit /\ [][SimNext]_simVars

---------------------------------------------------------------------------
\* The instruction the next step executes.
Current == InstAt(prog, arch.pc)

When(condition, name) == IF condition THEN {name} ELSE {}

Upper(a, r) == ReadReg(a, r) \ Ones(32) # {}
Narrow(i) == ~i.is64
NamesSP(i) == i.fmt = "DPImm" /\ (i.rn = 31 \/ (i.rd = 31 /\ ~i.setFlags))
BasedOnSP(i) == i.fmt \in {"LoadStore", "LoadStorePair"} /\ i.rn = 31

\* How fast timing differs from the emulator on instruction i in state a.
FastDiffers(a, i) ==
       When(i.op \notin Handled, "no case: one cycle and no effect")
  \cup When(i.op = "MRS", "system registers are not read")
  \cup When(i.op = "DUP", "vector registers are not written")
  \cup When(i.rm = NoRegister, "an immediate conditional compare names no register")
  \cup When(i.fmt = "DPReg" /\ i.shiftAmount > 0, "the register operand is not shifted")
  \cup When(i.fmt = "DPImm" /\ i.shift > 0, "the immediate is not shifted")
  \cup When(NamesSP(i), "31 is not SP")
  \cup When(BasedOnSP(i), "31 is not SP")
  \cup When(i.fmt = "PCRel", "the PC offset is not added")
  \cup When(i.index = "regBase", "the offset register is not added")
  \cup When(Indexed(i) /\ i.op \in {"LDRB", "STRB", "LDRH", "STRH", "LDRSW"},
            "the index mode of a narrow access")
  \cup When(Indexed(i) /\ i.op = "LDR" /\ i.rd = i.rn, "the loaded base")
  \cup When(i.index = "post" /\ i.op \in {"LDP", "STP"}, "the address of a post-indexed pair")
  \cup When(Narrow(i) /\ i.op \in {"STR", "LDP", "STP"}, "64 bits are accessed")
  \cup When(Narrow(i) /\ i.op \in {"LSLV", "LSRV", "ASRV"} /\ 5 \in ReadReg(a, i.rm),
            "the shift is modulo 64")
  \cup When(Narrow(i) /\ i.op \in {"LSRV", "ASRV"}
              /\ (Upper(a, i.rn) \/ (i.op = "ASRV" /\ 31 \in ReadReg(a, i.rn))),
            "the upper half is shifted in")
  \cup When(Narrow(i) /\ i.op \in {"CBZ", "CBNZ"} /\ Upper(a, i.rd), "the upper half is tested")
  \cup When(i.op = "RET" /\ i.rn # 30, "X30 is returned to")
  \cup When(i.op \in {"UBFM", "SBFM"} /\ ~Extracts(i)
              /\ ~(i.op = "UBFM" /\ Num(i.imm2) + 1 = Num(i.imm)), "a field moved up")
  \cup When(Narrow(i) /\ i.op \in {"UBFM", "SBFM"} /\ 5 \in i.imm \cup i.imm2,
            "a 32-bit field beyond bit 31")
  \cup When(Limited(a), "the instruction limit is not an error")

\* An indexed load into its own base.
LoadsBase(i) ==
  /\ i.index \in {"pre", "post"} /\ i.rn # 31
  /\ (i.op = "LDR" /\ i.rn = i.rd) \/ (i.op = "LDP" /\ i.rn \in {i.rd, i.rt2})

\* How an instruction alone in the pipeline differs from the emulator.
StagesDiffer(a, i) ==
       When(i.op \in {"LDRSW", "CSEL", "CSINC", "CSINV", "CSNEG", "CCMN", "CCMP", "UDIV",
                      "SDIV", "LSLV", "LSRV", "ASRV", "RORV", "EXTR", "MRS"}, "not executed")
  \cup When(i.fmt \in {"SIMDReg", "SIMDLoadStore", "SIMDCopy"}, "not executed")
  \cup When(i.op \in {"CBZ", "CBNZ", "TBZ", "TBNZ"} /\ Execute(a, i).pc # Plus(a.pc, 4),
            "never taken")
  \cup When(i.op \in {"Unknown", "BRK"}, "does not stop")
  \cup When(i.fmt = "LogicalImm", "Rm for the immediate")
  \cup When(i.fmt = "DPReg" /\ i.setFlags /\ i.op = "AND", "no flags")
  \cup When(i.fmt = "DPReg" /\ i.setFlags /\ i.op = "BIC", "no flags")
  \cup When(NamesSP(i), "31 is not SP")
  \cup When(i.op = "MOVK" /\ ReadReg(a, i.rd) # ReadReg(a, i.rn), "Rn is kept")
  \cup When(i.op \in {"MADD", "MSUB"} /\ i.rt2 = 31 /\ ReadReg(a, i.rm) # {}, "Rm for the addend")
  \cup When(i.op = "BFM", "Rm is merged with")
  \cup When(i.op \in {"UBFM", "SBFM"} /\ ~Extracts(i), "a field moved up")
  \cup When(Narrow(i) /\ i.op \in {"UBFM", "SBFM"} /\ 5 \in i.imm2 /\ i.imm # {},
            "a 32-bit field beyond bit 31")
  \cup When(i.op \in {"LDRB", "LDRSB", "LDRH", "LDRSH", "STRB", "STRH"}, "a register's width")
  \cup When(i.index = "regBase", "the offset register is not added")
  \cup When(LoadsBase(i), "the loaded base")
  \cup When(i.op = "LDRLit", "loaded from 0")
  \cup When(i.op = "LDP" /\ i.rd = 31, "the second register is not loaded")

\* What is compared: not the count of instructions, and not the PC of an exit.
Visible(x) == [x EXCEPT !.count = 0, !.pc = IF x.status = "exited" THEN {} ELSE @]

\* The lower half of the destination of a 32-bit instruction only.
Halved(x, i) ==
  IF Narrow(i) /\ i.rd \in RegNums THEN [Visible(x) EXCEPT !.regs[i.rd] = Low(@, 32)]
  ELSE Visible(x)

\* Without the carry and overflow of an immediate, which the stages take from Rm.
WithoutCarry(x, i) ==
  IF i.fmt = "DPImm" /\ i.setFlags THEN [Visible(x) EXCEPT !.fl.c = FALSE, !.fl.v = FALSE]
  ELSE Visible(x)

---------------------------------------------------------------------------
(* Fast timing computes what the emulator computes, but for the differences   *)
(* named; of the result of a 32-bit instruction the lower half.  This is what  *)
(* lets fast timing stand in for the emulator in calibration.                 *)
FastTimingFollowsEmulator ==
  [][machine = "fast" /\ FastDiffers(arch, Current) = {} =>
       Halved(arch', Current) = Halved(Step(arch), Current)]_simVars

(* Decode, Execute, Memory and Writeback together do to registers, flags,      *)
(* memory and PC what the emulator does, but for the differences named.        *)
StagesFollowEmulator ==
  [][machine = "stages" /\ StagesDiffer(arch, Current) = {} =>
       WithoutCarry(arch', Current) = WithoutCarry(Step(arch), Current)]_simVars

(* A fused compare and branch goes where the two instructions would go, by     *)
(* whichever condition and width, and changes no register; only a shifted      *)
(* operand and SP are not honoured, and the flags are those from before.       *)
FusedPairFollowsEmulator ==
  [][machine = "fused" /\ ~(Current.fmt = "DPReg" /\ Current.shiftAmount > 0) /\ ~NamesSP(Current) =>
       LET compared == Execute(arch, Current)
           branched == Execute(compared, InstAt(prog, compared.pc))
       IN arch' = [branched EXCEPT !.fl = arch.fl]]_simVars

\* The comparison a condition stands for after x - y.
Holds(cond, x, y, n) ==
  CASE cond = 0 -> x = y                  [] cond = 1 -> x # y
    [] cond = 2 -> ~Less(x, y)            [] cond = 3 -> Less(x, y)
    [] cond = 8 -> Less(y, x)             [] cond = 9 -> ~Less(y, x)
    [] cond = 10 -> ~SignedLess(x, y, n)  [] cond = 11 -> SignedLess(x, y, n)
    [] cond = 12 -> SignedLess(y, x, n)   [] cond = 13 -> ~SignedLess(y, x, n)
Comparisons == {0, 1, 2, 3, 8, 9, 10, 11, 12, 13}

Compared(a, i) ==
  LET y == IF i.fmt = "DPImm" THEN Shl(i.imm, i.shift, 64)
           ELSE ApplyShift(Low(ReadReg(a, i.rm), Size(i)), i.shiftType, i.shiftAmount, Size(i))
  IN <<Low(ReadReg(a, i.rn), Size(i)), Low(y, Size(i))>>

(* After a compare, every condition holds exactly when the comparison it is     *)
(* named for does, signed and unsigned, at both widths, over the whole range;   *)
(* both evaluators of conditions agree on it.                                  *)
ConditionsMeanComparisons ==
  [][machine = "emulator" /\ Current.op = "SUB" /\ Current.setFlags /\ Current.rn # 31
       /\ arch'.status = "running" =>
       LET operands == Compared(arch, Current)
       IN \A cond \in Comparisons :
            LET meant == Holds(cond, operands[1], operands[2], Size(Current))
            IN (CheckCondition(arch'.fl, cond) <=> meant) /\ (EvaluateCondition(arch'.fl, cond) <=> meant)
    ]_simVars

(* A 32-bit result leaves the upper half of its register 0 in the emulator:     *)
(* the next 64-bit instruction sees no stale bits.  MOVK keeps them, a MOVZ by   *)
(* 32 or more places puts its immediate there, and a load indexed by its own     *)
(* destination leaves the address.                                              *)
UpperHalfIsCleared ==
  [][machine = "emulator" /\ Narrow(Current) /\ Current.rd \in RegNums
       /\ Current.fmt \in {"DPImm", "DPReg", "LogicalImm", "Bitfield", "Extract", "MoveWide",
                           "CondSelect", "DataProc2Src", "DataProc3Src", "LoadStore"}
       /\ Current.op \notin {"MOVK", "STR", "STRB", "STRH", "Unknown"}
       /\ ~(Current.op = "MOVZ" /\ Current.shift >= 32)
       /\ ~(Indexed(Current) /\ Current.rd = Current.rn)
       /\ arch'.status = "running"
       => ~Upper(arch', Current.rd)]_simVars

\* Lanes of n bits added or subtracted together in a word of 64 bits: without their top
\* bits no lane can carry into the next, and the top bits are put in afterwards.
Together(op, x, y, n) ==
  LET top == {b \in Ones(64) : b % n = n - 1}
  IN IF op = "VADD" THEN Xor(Add(x \ top, y \ top, 64), Xor(x, y) \cap top)
     ELSE Xor(Sub(x \cup top, y \ top, 64), Xor(x, Not(y, 64)) \cap top)

(* Lanes are independent: a vector sum or difference is that of the registers   *)
(* as they were before, lane by lane, with no carry between lanes, even when the *)
(* destination, overwritten as the loop goes, is one of the sources; a 64-bit   *)
(* arrangement leaves 0 above, and no other register changes.                   *)
VectorLanesAreIndependent ==
  [][machine = "emulator" /\ Current.op \in {"VADD", "VSUB"} /\ arch'.status = "running" =>
       LET lower == Together(Current.op, ReadLane(arch.vec, Current.rn, 0, 64),
                             ReadLane(arch.vec, Current.rm, 0, 64), Current.arr.bits)
           upper == Together(Current.op, ReadLane(arch.vec, Current.rn, 1, 64),
                             ReadLane(arch.vec, Current.rm, 1, 64), Current.arr.bits)
       IN arch'.vec = [arch.vec EXCEPT ![Current.rd] =
                         IF IsHalf(Current.arr) THEN lower ELSE lower \cup Shl(upper, 64, 128)]]_simVars

---------------------------------------------------------------------------
\* The encoding classes a word belongs to.
Classes(w) ==
       When(IsSIMDLoadStore(w), "SIMDLoadStore") \cup When(IsSIMDThreeSame(w), "SIMDThreeSame")
  \cup When(IsSIMDCopy(w), "SIMDCopy") \cup When(IsLoadStorePair(w), "LoadStorePair")
  \cup When(IsLoadStoreLiteral(w), "LoadStoreLiteral")
  \cup When(IsLoadStoreRegOffset(w), "LoadStoreRegOffset")
  \cup When(IsLoadStoreRegIndexed(w), "LoadStoreRegIndexed")
  \cup When(IsLoadStoreImm(w), "LoadStoreImm") \cup When(IsPCRelAddressing(w), "PCRelAddressing")
  \cup When(IsMoveWide(w), "MoveWide") \cup When(IsCondCmp(w), "CondCmp")
  \cup When(IsConditionalSelect(w), "ConditionalSelect")
  \cup When(IsDataProc2Src(w), "DataProc2Src") \cup When(IsDataProc3Src(w), "DataProc3Src")
  \cup When(IsLogicalImm(w), "LogicalImm") \cup When(IsExtract(w), "Extract")
  \cup When(IsBitfield(w), "Bitfield") \cup When(IsDataProcessingImm(w), "DataProcessingImm")
  \cup When(IsDataProcessingReg(w), "DataProcessingReg") \cup When(IsTestBranch(w), "TestBranch")
  \cup When(IsCompareBranch(w), "CompareBranch") \cup When(IsBranchImm(w), "BranchImm")
  \cup When(IsBranchCond(w), "BranchCond") \cup When(IsBranchReg(w), "BranchReg")
  \cup When(IsNOP(w), "NOP") \cup When(IsException(w), "Exception")
  \cup When(IsSystemReg(w), "SystemReg")

Ambiguous(w) ==
  Cardinality(Classes(w) \ (IF IsSIMDLoadStore(w)
                              THEN {"LoadStoreRegOffset", "LoadStoreRegIndexed"} ELSE {})) > 1
AmbiguousProbes == {w \in Probes : Ambiguous(w)}

(* No word belongs to two encoding classes, so the order of the tests in        *)
(* DecodeInto decides nothing; the vector loads and stores alone are taken out  *)
(* of the classes of the general ones by being tested first.                   *)
ClassesAreDisjoint ==
  AmbiguousProbes = {} /\ (arch.pc \in DOMAIN prog => ~Ambiguous(prog[arch.pc]))
===========================================================================
