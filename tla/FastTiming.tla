---------------------------- MODULE FastTiming ----------------------------
(***************************************************************************)
(* timing/pipeline/fast_timing.go: the simulator that executes one          *)
(* instruction a Tick and adds up latencies.  It has an executor of its     *)
(* own, so it is a second implementation of the instruction set, which      *)
(* Simulators.tla compares with the emulator.                               *)
(***************************************************************************)
EXTENDS InstructionSet

CONSTANTS ALULatency, BranchLatency, LoadLatency, StoreLatency, MultiplyLatency, SyscallLatency

VARIABLES
  cycles,      \* cycleCount
  unhandled    \* unhandledCount

fastVars == <<prog, arch, cycles, unhandled>>

\* latency.Table.GetLatency.
GetLatency(i) ==
  CASE i.op \in {"ADD", "SUB", "AND", "ORR", "EOR", "BIC", "ORN", "EON"} -> ALULatency
    [] i.op \in {"B", "BL", "BCond", "BR", "BLR", "RET"} -> BranchLatency
    [] i.op \in {"LDR", "LDP", "LDRB", "LDRSB", "LDRH", "LDRSH", "LDRSW", "LDRLit"} -> LoadLatency
    [] i.op \in {"STR", "STP", "STRB", "STRH"} -> StoreLatency
    [] i.op \in {"MADD", "MSUB"} -> MultiplyLatency
    [] i.op = "SVC" -> SyscallLatency
    [] OTHER -> 1

\* The operations whose case in executeInstruction asks for a latency.
Timed == {"ADD", "SUB", "AND", "ORR", "EOR", "BIC", "ORN", "EON", "MADD", "MSUB",
          "LDR", "STR", "LDP", "STP", "LDRB", "STRB", "LDRH", "STRH", "LDRSW"}
Cost(i) == IF i.op \in Timed /\ GetLatency(i) > 1 THEN GetLatency(i) ELSE 1

---------------------------------------------------------------------------
\* rnValue and rmValue.
RnValue(a, i) == ReadReg(a, i.rn)
RmValue(a, i) == ReadReg(a, i.rm)

\* The second operand where it is Rm or Imm by the format.
Operand(a, i) == IF i.fmt = "DPReg" THEN RmValue(a, i) ELSE i.imm

\* Mutation: the last pair of conditions is negated like the others.
NegateByLowBit(fl, cond) ==
  LET base == <<fl.z, fl.c, fl.n, fl.v, fl.c /\ ~fl.z, fl.n = fl.v, ~fl.z /\ fl.n = fl.v, TRUE>>
  IN base[cond \div 2 + 1] = (cond % 2 = 0)

\* evaluateCondition: the condition without its lowest bit, negated by that bit but
\* for the last pair.
EvaluateCondition(fl, cond) ==
  LET base == <<fl.z, fl.c, fl.n, fl.v, fl.c /\ ~fl.z, fl.n = fl.v, ~fl.z /\ fl.n = fl.v, TRUE>>
  IN cond >= 14 \/ base[cond \div 2 + 1] = (cond % 2 = 0)

\* updateFlagsAdd, updateFlagsSub and updateFlagsLogical on the width is64 gives.
UpdateFlagsAdd(x, y, r, n) ==
  [n |-> n - 1 \in r, z |-> Low(r, n) = {}, c |-> Less(Low(r, n), Low(x, n)),
   v |-> n - 1 \in Not(Xor(x, y), 64) \cap Xor(x, r)]
UpdateFlagsSub(x, y, r, n) ==
  [n |-> n - 1 \in r, z |-> Low(r, n) = {}, c |-> ~Less(Low(x, n), Low(y, n)),
   v |-> n - 1 \in Xor(x, y) \cap Xor(x, r)]
UpdateFlagsLogical(r, n) == [n |-> n - 1 \in r, z |-> Low(r, n) = {}, c |-> FALSE, v |-> FALSE]

AddSubInst(a, i) ==
  LET x == RnValue(a, i)
      y == Operand(a, i)
      r == AddOrSub(i, x, y, 64)
      flags == IF i.op = "ADD" THEN UpdateFlagsAdd(x, Sub(r, x, 64), r, Size(i))
               ELSE UpdateFlagsSub(x, y, r, Size(i))
  IN Flagged(WriteReg(a, i.rd, r), i, flags)

LogicInst(a, i) ==
  LET r == Logic(i.op, RnValue(a, i), Operand(a, i), 64)
  IN Flagged(WriteReg(a, i.rd, r), i, UpdateFlagsLogical(r, Size(i)))

MultiplyInst(a, i) ==
  LET product == Mul(RnValue(a, i), RmValue(a, i), 64)
      ra == ReadReg(a, i.rt2)
  IN WriteReg(a, i.rd, IF i.op = "MADD" THEN Add(ra, product, 64) ELSE Sub(ra, product, 64))

MoveInst(a, i) ==
  LET placed == Shl(i.imm, i.shift, 64)
  IN WriteReg(a, i.rd,
       CASE i.op = "MOVZ" -> placed
         [] i.op = "MOVN" -> Not(placed, 64)
         [] i.op = "MOVK" -> (ReadReg(a, i.rd) \ Shl(Ones(16), i.shift, 64)) \cup placed)

\* The Imm of a PC-relative instruction, which the decoder leaves 0.
AddressInst(a, i) ==
  WriteReg(a, i.rd, IF i.op = "ADR" THEN Add(a.pc, i.imm, 64)
                    ELSE Add(a.pc \ Ones(12), Shl(i.imm, 12, 64), 64))

SelectInst(a, i) ==
  LET other == IF i.op = "CSINC" THEN Add(RmValue(a, i), {0}, 64) ELSE RmValue(a, i)
  IN WriteReg(a, i.rd, IF EvaluateCondition(a.fl, i.cond) THEN RnValue(a, i) ELSE other)

\* Bits immr to imms; where that width is negative it is, unsigned, beyond any shift
\* and its mask is all ones.
FieldOf(x, immr, imms) == IF imms + 1 >= immr THEN Slice(x, imms, immr) ELSE Shr(x, immr)

UBFMInst(a, i) ==
  LET x == RnValue(a, i)
      immr == Num(i.imm)
      imms == Num(i.imm2)
      n == Size(i)
  IN WriteReg(a, i.rd,
       IF imms = n - 1 THEN Shr(Low(x, n), immr)
       ELSE IF imms + 1 = immr THEN Shl(x, n - immr, n)
       ELSE IF immr = 0 THEN Low(x, imms + 1)
       ELSE FieldOf(x, immr, imms))

SBFMInst(a, i) ==
  LET x == RnValue(a, i)
      immr == Num(i.imm)
      imms == Num(i.imm2)
      n == Size(i)
  IN WriteReg(a, i.rd,
       IF imms = n - 1 THEN Sar(Low(x, n), immr, n)
       ELSE IF imms >= immr THEN SignExtend(FieldOf(x, immr, imms), imms - immr + 1, 64)
       ELSE FieldOf(x, immr, imms))

ShiftInst(a, i) ==
  LET x == RnValue(a, i)
      k == Num(Low(RmValue(a, i), 6))
  IN WriteReg(a, i.rd, CASE i.op = "LSLV" -> Shl(x, k, 64) [] i.op = "LSRV" -> Shr(x, k)
                         [] i.op = "ASRV" -> Sar(x, k, 64))

CompareInst(a, i) ==
  LET x == RnValue(a, i)
      y == IF i.rm = NoRegister THEN i.imm2 ELSE RmValue(a, i)
  IN [a EXCEPT !.fl = IF EvaluateCondition(@, i.cond)
                        THEN UpdateFlagsSub(x, y, Sub(x, y, 64), Size(i)) ELSE NZCV(i.imm)]

---------------------------------------------------------------------------
(* Loads and stores: LDR and STR always move 64 bits and know pre- and       *)
(* post-indexing; the others only add Imm.                                   *)

Indexed(i) == i.index \in {"pre", "post"}
Moved(a, i) == Add(RnValue(a, i), i.signedImm, 64)
WordAddress(a, i) ==
  CASE i.index = "post" -> RnValue(a, i) [] i.index = "pre" -> Moved(a, i)
    [] OTHER -> Add(RnValue(a, i), i.imm, 64)

\* A load writes its base before the loaded value, so the value wins when both are one.
LoadWord(a, i) ==
  WriteReg(IF Indexed(i) THEN WriteReg(a, i.rn, Moved(a, i)) ELSE a,
           i.rd, Read(a.mem, WordAddress(a, i), 64))
StoreWord(a, i) ==
  LET stored == [a EXCEPT !.mem = Write(@, WordAddress(a, i), 64, ReadReg(a, i.rd))]
  IN IF Indexed(i) THEN WriteReg(stored, i.rn, Moved(a, i)) ELSE stored

NarrowInst(a, i) ==
  LET addr == Add(RnValue(a, i), i.imm, 64)
      n == AccessSize(i)
      loaded == Read(a.mem, addr, n)
  IN IF i.op \in {"STRB", "STRH"} THEN [a EXCEPT !.mem = Write(@, addr, n, ReadReg(a, i.rd))]
     ELSE WriteReg(a, i.rd, IF i.op = "LDRSW" THEN SignExtend(loaded, 32, 64) ELSE loaded)

\* A pair is accessed at base + offset in every mode.
PairInst(a, i) ==
  LET addr == Moved(a, i)
      next == Plus(addr, 8)
      done == IF i.op = "LDP"
                THEN WriteReg(WriteReg(a, i.rd, Read(a.mem, addr, 64)), i.rt2, Read(a.mem, next, 64))
                ELSE [a EXCEPT !.mem = Write(Write(@, addr, 64, ReadReg(a, i.rd)),
                                             next, 64, ReadReg(a, i.rt2))]
  IN IF Indexed(i) THEN WriteReg(done, i.rn, addr) ELSE done

---------------------------------------------------------------------------
Test(a, i) ==
  CASE i.op = "BCond" -> EvaluateCondition(a.fl, i.cond)
    [] i.op = "CBZ" -> ReadReg(a, i.rd) = {}
    [] i.op = "CBNZ" -> ReadReg(a, i.rd) # {}
    [] i.op = "TBZ" -> Num(i.imm) \notin ReadReg(a, i.rd)
    [] i.op = "TBNZ" -> Num(i.imm) \in ReadReg(a, i.rd)
BranchInst(a, i) == IF Test(a, i) THEN Jump(a, i) ELSE Skip(a)

\* handleSyscall: an exit leaves the PC where it is.
HandleSyscall(a) == IF Handle(a).status = "exited" THEN Handle(a) ELSE Skip(Handle(a))

Silent == {"NOP", "MRS", "DUP"}
Handled == Timed \cup Silent \cup
  {"MOVZ", "MOVN", "MOVK", "ADR", "ADRP", "CSEL", "CSINC", "UBFM", "SBFM", "LSLV", "LSRV",
   "ASRV", "CCMP", "BCond", "CBZ", "CBNZ", "TBZ", "TBNZ", "B", "BL", "RET", "SVC"}

\* executeInstruction; it first reads both source registers, and the register an
\* immediate conditional compare names is beyond the register file.
ExecuteInstruction(a, i) ==
  CASE i.rm = NoRegister -> [a EXCEPT !.status = "panicked"]
    [] i.op \in {"ADD", "SUB"} -> Skip(AddSubInst(a, i))
    [] i.op \in {"AND", "ORR", "EOR", "BIC", "ORN", "EON"} -> Skip(LogicInst(a, i))
    [] i.op \in {"MADD", "MSUB"} -> Skip(MultiplyInst(a, i))
    [] i.op \in {"MOVZ", "MOVN", "MOVK"} -> Skip(MoveInst(a, i))
    [] i.op \in {"ADR", "ADRP"} -> Skip(AddressInst(a, i))
    [] i.op \in {"CSEL", "CSINC"} -> Skip(SelectInst(a, i))
    [] i.op = "UBFM" -> Skip(UBFMInst(a, i))
    [] i.op = "SBFM" -> Skip(SBFMInst(a, i))
    [] i.op \in {"LSLV", "LSRV", "ASRV"} -> Skip(ShiftInst(a, i))
    [] i.op = "CCMP" /\ i.rm # NoRegister -> Skip(CompareInst(a, i))
    [] i.op = "LDR" -> Skip(LoadWord(a, i))
    [] i.op = "STR" -> Skip(StoreWord(a, i))
    [] i.op \in {"LDRB", "STRB", "LDRH", "STRH", "LDRSW"} -> Skip(NarrowInst(a, i))
    [] i.op \in {"LDP", "STP"} -> Skip(PairInst(a, i))
    [] i.op \in {"BCond", "CBZ", "CBNZ", "TBZ", "TBNZ"} -> BranchInst(a, i)
    [] i.op = "B" -> Jump(a, i)
    [] i.op = "BL" -> Jump(Link(a), i)
    [] i.op = "RET" -> [a EXCEPT !.pc = ReadReg(a, 30)]
    [] i.op = "SVC" -> HandleSyscall(a)
    [] i.op \in Silent -> Skip(a)
    [] i.op \notin Handled /\ i.rm # NoRegister -> Skip(a)

---------------------------------------------------------------------------
FastInit ==
  /\ Init
  /\ cycles = 0
  /\ unhandled = 0

Tick ==
  LET i == InstAt(prog, arch.pc)
      done == ExecuteInstruction(arch, i)
  IN /\ arch.status = "running"
     /\ IF Limited(arch)
          THEN arch' = Stop(arch, {}) /\ UNCHANGED <<cycles, unhandled>>
        ELSE IF i.op = "Unknown"
          THEN arch' = Stop(arch, Failed) /\ cycles' = cycles + 1 /\ UNCHANGED unhandled
        ELSE /\ arch' = [done EXCEPT !.count = IF done.status = "panicked" THEN @ ELSE @ + 1]
             /\ cycles' = cycles + Cost(i)
             /\ unhandled' = IF i.op \in Handled \/ i.rm = NoRegister THEN unhandled ELSE unhandled + 1
     /\ UNCHANGED prog

FastSpec == FastInit /\ [][Tick]_fastVars
===========================================================================
