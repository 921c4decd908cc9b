------------------------------ MODULE Stages ------------------------------
(***************************************************************************)
(* timing/pipeline/stages.go: what the stages of the timing pipeline make   *)
(* of one instruction that has the pipeline for itself, from Decode to      *)
(* Writeback, and of the compare and branch the widest pipelines fuse.  The *)
(* stages have an executor of their own, the third in the repository.       *)
(* How instructions overlap is in SingleIssue.tla and DualIssue.tla.        *)
(***************************************************************************)
EXTENDS InstructionSet

\* Decode: the control signals.  LDRSW is not among the loads.
IsLoadOp(i) == i.op \in {"LDR", "LDP", "LDRB", "LDRSB", "LDRH", "LDRSH", "LDRLit", "LDRQ"}
IsStoreOp(i) == i.op \in {"STR", "STP", "STRB", "STRH", "STRQ"}
Links(i) == i.op \in {"BL", "BLR"}
IsRegWriteInst(i) ==
  \/ Links(i)
  \/ /\ i.rd # 31
     /\ \/ IsLoadOp(i)
        \/ i.op \in {"ADD", "SUB", "AND", "ORR", "EOR", "BIC", "ORN", "EON", "MOVZ", "MOVN",
                     "MOVK", "ADR", "ADRP", "MADD", "MSUB", "UBFM", "SBFM", "BFM"}

---------------------------------------------------------------------------
(* Execute. *)

\* Rm, shifted for the register format as in the emulator.
ShiftedRm(a, i) ==
  IF i.fmt = "DPReg" /\ i.shiftAmount > 0
    THEN ApplyShift(Low(ReadReg(a, i.rm), Size(i)), i.shiftType, i.shiftAmount, Size(i))
    ELSE ReadReg(a, i.rm)

\* Only ADD and SUB know the immediate format; the logical operations always take Rm.
StageArith(a, i) ==
  LET n == Size(i)
      y == IF i.fmt = "DPImm" THEN Shl(i.imm, i.shift, 64) ELSE ShiftedRm(a, i)
  IN AddOrSub(i, Low(ReadReg(a, i.rn), n), Low(y, n), n)
StageLogic(a, i) ==
  Logic(i.op, Low(ReadReg(a, i.rn), Size(i)), Low(ShiftedRm(a, i), Size(i)), Size(i))

StageAddress(a, i) ==
  LET base == ReadRegOrSP(a, i.rn)
  IN CASE i.index = "pre" \/ (i.index # "post" /\ i.fmt = "LoadStorePair") ->
            Add(base, i.signedImm, 64)
       [] i.index = "post" -> base
       [] i.index # "post" /\ i.index # "pre" /\ i.fmt # "LoadStorePair" -> Add(base, i.imm, 64)

\* MOVK keeps the rest of Rn, which the decoder leaves 0: of X0.
StageMove(a, i) ==
  LET placed == Shl(i.imm, i.shift, 64)
  IN CASE i.op = "MOVZ" -> placed
       [] i.op = "MOVN" -> Low(Not(placed, 64), Size(i))
       [] i.op = "MOVK" -> (ReadReg(a, i.rn) \ Shl(Ones(16), i.shift, 64)) \cup placed

\* The addend is Rm where the encoding says XZR.
StageMultiply(a, i) ==
  LET n == Size(i)
      ra == Low(ReadReg(a, IF i.rt2 = 31 THEN i.rm ELSE i.rt2), n)
      product == Mul(Low(ReadReg(a, i.rn), n), Low(ReadReg(a, i.rm), n), n)
  IN IF i.op = "MADD" THEN Add(ra, product, n) ELSE Sub(ra, product, n)

\* executeBitfield: the word rotated right by immr and masked, or its low field, which stays
\* where it is; what is to be moved by more than the width is lost, unless it is negative.
StageBitfield(a, i) ==
  LET n == Size(i)
      x == Low(ReadReg(a, i.rn), n)
      immr == Num(i.imm)
      field == Low(IF Extracts(i) THEN Ror(x, immr, n) ELSE x, FieldWidth(i))
  IN IF i.op = "SBFM" /\ FieldWidth(i) - 1 \in field THEN SignExtend(field, FieldWidth(i), n)
     ELSE IF Extracts(i) \/ immr <= n THEN field
     ELSE {}

\* executeBFM: merged with Rm, which the decoder leaves 0.
StageBFM(a, i) ==
  IF Extracts(i) THEN (ReadReg(a, i.rm) \ Ones(FieldWidth(i))) \cup StageBitfield(a, i)
  ELSE StageBitfield(a, i)

\* ALUResult: 0 for an operation without a case.
StageALU(a, i) ==
  CASE i.op \in {"ADD", "SUB"} -> StageArith(a, i)
    [] i.op \in {"AND", "ORR", "EOR", "BIC", "ORN", "EON"} -> StageLogic(a, i)
    [] i.op \in {"LDR", "STR", "LDP", "STP", "LDRB", "STRB", "LDRSB", "LDRH", "STRH", "LDRSH"} ->
         StageAddress(a, i)
    [] Links(i) -> Plus(a.pc, 4)
    [] i.op \in {"MOVZ", "MOVN", "MOVK"} -> StageMove(a, i)
    [] i.op = "ADR" -> Add(a.pc, i.offset, 64)
    [] i.op = "ADRP" -> Add(a.pc \ Ones(12), i.offset, 64)
    [] i.op \in {"MADD", "MSUB"} -> StageMultiply(a, i)
    [] i.op \in {"UBFM", "SBFM"} -> StageBitfield(a, i)
    [] i.op = "BFM" -> StageBFM(a, i)
    [] OTHER -> {}

\* computeAddFlags and computeSubFlags: of Rn and Rm, whatever the format.
ComputeFlags(a, i, r) ==
  LET n == Size(i)
      x == Low(ReadReg(a, i.rn), n)
      y == Low(ShiftedRm(a, i), n)
  IN IF i.setFlags /\ i.op \in {"ADD", "SUB"} THEN ArithFlags(i, x, y, r, n) ELSE a.fl

\* BranchTaken with BranchTarget; the other instructions go on behind.  The conditions
\* are CheckCondition's.
StagePC(a, i) ==
  CASE i.op \in {"B", "BL"} \/ (i.op = "BCond" /\ CheckCondition(a.fl, i.cond)) ->
         Add(a.pc, i.offset, 64)
    [] i.op \in {"BR", "BLR", "RET"} -> ReadReg(a, i.rn)
    [] OTHER -> Plus(a.pc, 4)

---------------------------------------------------------------------------
(* Memory and writeback. *)

\* MemData, MemData2 and the memory after a store: 32 or 64 bits by the
\* width of the register, twice for a pair.
MemData(a, i, addr) == Read(a.mem, addr, Size(i))
MemData2(a, i, addr) == Read(a.mem, Plus(addr, Size(i) \div 8), Size(i))
Stored(a, i, addr) ==
  LET first == Write(a.mem, addr, Size(i), ReadReg(a, i.rd))
  IN IF ~IsStoreOp(i) THEN a.mem
     ELSE IF i.op = "STP" THEN Write(first, Plus(addr, Size(i) \div 8), Size(i), ReadReg(a, i.rt2))
     ELSE first

\* Mutation: a post-indexed base gets the address that was used.
WriteBackAddress(a, i, alu) ==
  IF i.index \in {"pre", "post"} THEN WriteRegOrSP(a, i.rn, alu) ELSE a

\* performBaseWriteback, before the destination is written.
PerformBaseWriteback(a, i, alu) ==
  CASE i.index = "pre" -> WriteRegOrSP(a, i.rn, alu)
    [] i.index = "post" -> WriteRegOrSP(a, i.rn, Add(alu, i.signedImm, 64))
    [] OTHER -> a

\* WritebackSlot: `from' is the state the instruction has read.
WriteBack(from, a, i, alu) ==
  LET base == PerformBaseWriteback(a, i, alu)
      value == IF IsLoadOp(i) THEN MemData(from, i, alu) ELSE alu
      first == WriteReg(base, IF Links(i) THEN 30 ELSE i.rd, value)
  IN IF ~IsRegWriteInst(i) THEN base
     ELSE IF i.op = "LDP" THEN WriteReg(first, i.rt2, MemData2(from, i, alu)) ELSE first

\* One instruction through the stages; Decode reads the register Rm names, and
\* the number that marks an immediate conditional compare is none.
ThroughStages(a, i) ==
  LET alu == StageALU(a, i)
      executed == [a EXCEPT !.fl = ComputeFlags(a, i, alu), !.mem = Stored(a, i, alu),
                            !.pc = StagePC(a, i)]
  IN IF i.rm = NoRegister THEN [a EXCEPT !.status = "panicked"]
     ELSE IF i.op = "SVC" THEN Handle(executed)
     ELSE WriteBack(a, executed, i, alu)

---------------------------------------------------------------------------
(* A compare with the conditional branch behind it, issued as one.           *)

IsCMP(i) == i.op = "SUB" /\ i.setFlags /\ i.rd = 31
IsBCond(i) == i.op = "BCond"

\* ComputeSubFlags.
ComputeSubFlags(x, y, n) ==
  SetSubFlags(Low(x, n), Low(y, n), Sub(Low(x, n), Low(y, n), n), n)

\* Mutation: the branch is taken from where the compare is.
FusedAtCompare(a, cmp, bcond) ==
  LET y == IF cmp.fmt = "DPImm" THEN Shl(cmp.imm, cmp.shift, 64) ELSE ReadReg(a, cmp.rm)
      flags == ComputeSubFlags(ReadReg(a, cmp.rn), y, Size(cmp))
  IN [a EXCEPT !.pc = IF CheckCondition(flags, bcond.cond)
                        THEN Add(@, bcond.offset, 64) ELSE Plus(@, 8)]

\* The branch goes by the operands the compare was decoded with; the flags
\* themselves are not kept.
ThroughFused(a, cmp, bcond) ==
  LET y == IF cmp.fmt = "DPImm" THEN Shl(cmp.imm, cmp.shift, 64) ELSE ReadReg(a, cmp.rm)
      flags == ComputeSubFlags(ReadReg(a, cmp.rn), y, Size(cmp))
  IN [a EXCEPT !.pc = IF CheckCondition(flags, bcond.cond)
                        THEN Add(Plus(@, 4), bcond.offset, 64) ELSE Plus(@, 8)]

Fusable(a) == IsCMP(InstAt(prog, a.pc)) /\ IsBCond(InstAt(prog, Plus(a.pc, 4)))

---------------------------------------------------------------------------
\* The pipeline stops at an exit only.
Through ==
  /\ arch.status = "running"
  /\ arch' = ThroughStages(arch, InstAt(prog, arch.pc))
  /\ UNCHANGED prog

Fuse ==
  /\ arch.status = "running"
  /\ Fusable(arch)
  /\ arch' = ThroughFused(arch, InstAt(prog, arch.pc), InstAt(prog, Plus(arch.pc, 4)))
  /\ UNCHANGED prog
===========================================================================
