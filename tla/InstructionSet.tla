-------------------------- MODULE InstructionSet --------------------------
(***************************************************************************)
(* emu/emulator.go with emu/alu.go, branch.go, load_store.go, regfile.go:   *)
(* the functional emulator on the whole instruction set, decoded            *)
(* from instruction words and computed on exact 64-bit values.  One step is *)
(* one Step.                                                                *)
(***************************************************************************)
EXTENDS VectorUnit

CONSTANTS
  Programs,         \* functions from the addresses of a program to its words
  Setups,           \* the states a program may start in
  RegNums,          \* the general registers the programs name
  MaxInstructions   \* WithMaxInstructions; 0 is no limit

ASSUME LimitAssumption == MaxInstructions \in Nat
ASSUME RegisterAssumption == {0, 8, 30} \subseteq RegNums /\ RegNums \subseteq 0 .. 30
ASSUME SetupAssumption ==
  \A s \in Setups : /\ s.pc \subseteq Ones(64) /\ s.regs \in [RegNums -> SUBSET Ones(64)]
                    /\ s.vec \in [0 .. 31 -> SUBSET Ones(128)]
                    /\ s.fl \in [n : BOOLEAN, z : BOOLEAN, c : BOOLEAN, v : BOOLEAN]
\* RegNums has every general register an instruction of a program names.
ASSUME ProgramAssumption ==
  \A p \in Programs : \A addr \in DOMAIN p :
    LET i == Decode(p[addr])
    IN i.fmt \notin {"SIMDReg", "SIMDLoadStore", "SIMDCopy"} =>
         /\ i.rd \in RegNums \cup {31} /\ i.rn \in RegNums \cup {31} /\ i.rt2 \in RegNums \cup {31}
         /\ i.rm \in RegNums \cup {31, NoRegister}

VARIABLES
  prog,   \* the loaded program
  arch    \* RegFile, PSTATE, Memory and how the run has ended

emuVars == <<prog, arch>>

\* What a run starts from: registers and PC as the setup has them.
Start(s) ==
  [pc |-> s.pc, regs |-> s.regs, sp |-> s.sp, fl |-> s.fl, vec |-> s.vec, mem |-> s.mem,
   count |-> 0, status |-> "running", code |-> {}]

Failed == Ones(64)   \* exit code -1

\* Every word of a program decoded once; memory outside it reads as 0.
Decoded == [w \in UNION {{p[a] : a \in DOMAIN p} : p \in Programs} |-> Decode(w)]
InstAt(p, addr) == IF addr \in DOMAIN p THEN Decoded[p[addr]] ELSE Unknown

---------------------------------------------------------------------------
(* RegFile and PSTATE. *)

ReadReg(a, r) == IF r = 31 THEN {} ELSE a.regs[r]
ReadRegOrSP(a, r) == IF r = 31 THEN a.sp ELSE a.regs[r]
WriteReg(a, r, v) == IF r = 31 THEN a ELSE [a EXCEPT !.regs[r] = v]
WriteRegOrSP(a, r, v) == IF r = 31 THEN [a EXCEPT !.sp = v] ELSE [a EXCEPT !.regs[r] = v]

Size(i) == IF i.is64 THEN 64 ELSE 32

\* Mutation: the overflow of an addition.
SubFlagsLikeAdd(x, y, r, n) ==
  [n |-> n - 1 \in r, z |-> r = {}, c |-> ~Less(x, y),
   v |-> (n - 1 \in x) = (n - 1 \in y) /\ (n - 1 \in y) # (n - 1 \in r)]

SetAddFlags(x, y, r, n) ==
  [n |-> n - 1 \in r, z |-> r = {}, c |-> Less(r, x),
   v |-> (n - 1 \in x) = (n - 1 \in y) /\ (n - 1 \in x) # (n - 1 \in r)]

SetSubFlags(x, y, r, n) ==
  [n |-> n - 1 \in r, z |-> r = {}, c |-> ~Less(x, y),
   v |-> (n - 1 \in x) # (n - 1 \in y) /\ (n - 1 \in y) = (n - 1 \in r)]

SetLogicFlags(r, n) == [n |-> n - 1 \in r, z |-> r = {}, c |-> FALSE, v |-> FALSE]

Flagged(a, i, fl) == IF i.setFlags THEN [a EXCEPT !.fl = fl] ELSE a

\* BranchUnit.CheckCondition.
CheckCondition(fl, cond) ==
  CASE cond = 0 -> fl.z            [] cond = 1 -> ~fl.z
    [] cond = 2 -> fl.c            [] cond = 3 -> ~fl.c
    [] cond = 4 -> fl.n            [] cond = 5 -> ~fl.n
    [] cond = 6 -> fl.v            [] cond = 7 -> ~fl.v
    [] cond = 8 -> fl.c /\ ~fl.z   [] cond = 9 -> ~fl.c \/ fl.z
    [] cond = 10 -> fl.n = fl.v    [] cond = 11 -> fl.n # fl.v
    [] cond = 12 -> ~fl.z /\ fl.n = fl.v
    [] cond = 13 -> fl.z \/ fl.n # fl.v
    [] cond \in {14, 15} -> TRUE

---------------------------------------------------------------------------
(* Arithmetic and logic. *)

AddOrSub(i, x, y, n) == IF i.op = "ADD" THEN Add(x, y, n) ELSE Sub(x, y, n)
ArithFlags(i, x, y, r, n) == IF i.op = "ADD" THEN SetAddFlags(x, y, r, n) ELSE SetSubFlags(x, y, r, n)

ExecuteDPImm(a, i) ==
  LET n == Size(i)
      x == Low(ReadRegOrSP(a, i.rn), n)
      y == Low(Shl(i.imm, i.shift, 64), n)
      r == AddOrSub(i, x, y, n)
  IN IF i.setFlags THEN Flagged(WriteReg(a, i.rd, r), i, ArithFlags(i, x, y, r, n))
     ELSE WriteRegOrSP(a, i.rd, r)

ApplyShift(x, type, k, n) ==
  IF k = 0 THEN x
  ELSE CASE type = 0 -> Shl(x, k, n) [] type = 1 -> Shr(x, k)
         [] type = 2 -> Sar(x, k, n) [] type = 3 -> Ror(x, k, n)

\* Mutation: the complement is taken on 64 bits.
LogicWide(op, x, y, n) ==
  CASE op = "AND" -> x \cap y  [] op = "BIC" -> x \ y
    [] op = "ORR" -> x \cup y  [] op = "ORN" -> x \cup Not(y, 64)
    [] op = "EOR" -> Xor(x, y) [] op = "EON" -> Xor(x, Not(y, 64))

Logic(op, x, y, n) ==
  CASE op = "AND" -> x \cap y  [] op = "BIC" -> x \ y
    [] op = "ORR" -> x \cup y  [] op = "ORN" -> x \cup Not(y, n)
    [] op = "EOR" -> Xor(x, y) [] op = "EON" -> Xor(x, Not(y, n))

ExecuteDPReg(a, i) ==
  LET n == Size(i)
      x == Low(ReadReg(a, i.rn), n)
      y == ApplyShift(Low(ReadReg(a, i.rm), n), i.shiftType, i.shiftAmount, n)
      arith == i.op \in {"ADD", "SUB"}
      r == IF arith THEN AddOrSub(i, x, y, n) ELSE Logic(i.op, x, y, n)
  IN Flagged(WriteReg(a, i.rd, r), i,
             IF arith THEN ArithFlags(i, x, y, r, n) ELSE SetLogicFlags(r, n))

ExecuteLogicalImm(a, i) ==
  LET n == Size(i)
      r == Logic(i.op, Low(ReadReg(a, i.rn), n), Low(i.imm, n), n)
  IN Flagged(WriteReg(a, i.rd, r), i, SetLogicFlags(r, n))

\* The field of a bitfield move: bits imms .. immr moved down, or bits imms .. 0 moved up.
Extracts(i) == Num(i.imm2) >= Num(i.imm)
FieldWidth(i) == IF Extracts(i) THEN Num(i.imm2) - Num(i.imm) + 1 ELSE Num(i.imm2) + 1
FieldShift(i) == IF Extracts(i) THEN 0 ELSE Size(i) - Num(i.imm)
SourceField(i, x) == Slice(x, Num(i.imm2), IF Extracts(i) THEN Num(i.imm) ELSE 0)

ExecuteBitfield(a, i) ==
  LET n == Size(i)
      field == SourceField(i, Low(ReadReg(a, i.rn), n))
      r == CASE i.op = "UBFM" -> Shl(field, FieldShift(i), n)
             [] i.op = "SBFM" -> Shl(SignExtend(field, FieldWidth(i), n), FieldShift(i), n)
             [] i.op = "BFM" ->
                  (Low(ReadReg(a, i.rd), n) \ Shl(Ones(FieldWidth(i)), FieldShift(i), n))
                    \cup Shl(field, FieldShift(i), n)
  IN WriteReg(a, i.rd, r)

ExecuteExtract(a, i) ==
  LET n == Size(i)
      lsb == Num(i.imm)
      x == Low(ReadReg(a, i.rn), n)
      y == Low(ReadReg(a, i.rm), n)
  IN WriteReg(a, i.rd, IF lsb = 0 THEN x ELSE Shr(x, lsb) \cup Shl(y, n - lsb, n))

ExecuteMoveWide(a, i) ==
  LET placed == Shl(i.imm, i.shift, 64)
      kept == ReadReg(a, i.rd) \ Shl(Ones(16), i.shift, 64)
  IN WriteReg(a, i.rd, CASE i.op = "MOVZ" -> placed
                         [] i.op = "MOVN" -> Low(Not(placed, 64), Size(i))
                         [] i.op = "MOVK" -> kept \cup placed)

ExecuteCondSelect(a, i) ==
  LET n == Size(i)
      y == Low(ReadReg(a, i.rm), n)
      r == IF CheckCondition(a.fl, i.cond) THEN Low(ReadReg(a, i.rn), n)
           ELSE CASE i.op = "CSEL" -> y          [] i.op = "CSINC" -> Add(y, {0}, n)
                  [] i.op = "CSINV" -> Not(y, n) [] i.op = "CSNEG" -> Negate(y, n)
  IN WriteReg(a, i.rd, r)

\* The flags an immediate of a conditional compare stands for.
NZCV(x) == [n |-> 3 \in x, z |-> 2 \in x, c |-> 1 \in x, v |-> 0 \in x]

ExecuteCondCmp(a, i) ==
  LET n == Size(i)
      x == Low(ReadReg(a, i.rn), n)
      y == IF i.rm = NoRegister THEN i.imm2 ELSE Low(ReadReg(a, i.rm), n)
      compared == IF i.op = "CCMP" THEN SetSubFlags(x, y, Sub(x, y, n), n)
                  ELSE SetAddFlags(x, y, Add(x, y, n), n)
  IN [a EXCEPT !.fl = IF CheckCondition(@, i.cond) THEN compared ELSE NZCV(i.imm)]

ExecuteDataProc2Src(a, i) ==
  LET n == Size(i)
      x == Low(ReadReg(a, i.rn), n)
      y == Low(ReadReg(a, i.rm), n)
      k == Num(Low(y, IF i.is64 THEN 6 ELSE 5))
  IN WriteReg(a, i.rd,
       CASE i.op = "UDIV" -> IF y = {} THEN {} ELSE UDiv(x, y, n)
         [] i.op = "SDIV" -> IF y = {} THEN {} ELSE SDiv(x, y, n)
         [] i.op = "LSLV" -> Shl(x, k, n)    [] i.op = "LSRV" -> Shr(x, k)
         [] i.op = "ASRV" -> Sar(x, k, n)    [] i.op = "RORV" -> Ror(x, k, n))

ExecuteDataProc3Src(a, i) ==
  LET n == Size(i)
      ra == Low(ReadReg(a, i.rt2), n)
      product == Mul(Low(ReadReg(a, i.rn), n), Low(ReadReg(a, i.rm), n), n)
  IN WriteReg(a, i.rd, IF i.op = "MADD" THEN Add(ra, product, n) ELSE Sub(ra, product, n))

ExecutePCRel(a, i) ==
  WriteReg(a, i.rd, Add(IF i.op = "ADR" THEN a.pc ELSE a.pc \ Ones(12), i.offset, 64))

\* DCZID_EL0 gives the block size of DC ZVA, every other system register 0.
ExecuteMRS(a, i) == WriteReg(a, i.rd, IF i.sysReg = W(\h5807) THEN W(\h60) ELSE {})

---------------------------------------------------------------------------
(* Loads and stores. *)

\* The offset register, extended as the option says and scaled.
IndexOffset(a, i) ==
  LET rm == ReadReg(a, i.rm)
      extended == CASE i.shiftType = \b010 -> Low(rm, 32)
                    [] i.shiftType = \b110 -> SignExtend(rm, 32, 64)
                    [] OTHER -> rm
  IN Shl(extended, i.shiftAmount, 64)

Address(a, i) ==
  LET base == ReadRegOrSP(a, i.rn)
  IN CASE i.index \in {"pre", "signed"} -> Add(base, i.signedImm, 64)
       [] i.index = "post" -> base
       [] i.index = "regBase" -> Add(base, IndexOffset(a, i), 64)
       [] i.index = "none" -> Add(base, i.imm, 64)

BaseWriteback(before, a, i) ==
  IF i.index \in {"pre", "post"}
    THEN WriteRegOrSP(a, i.rn, Add(ReadRegOrSP(before, i.rn), i.signedImm, 64))
    ELSE a

AccessSize(i) ==
  CASE i.op \in {"LDRB", "LDRSB", "STRB"} -> 8 [] i.op \in {"LDRH", "LDRSH", "STRH"} -> 16
    [] i.op = "LDRSW" -> 32                    [] OTHER -> Size(i)

ExecuteLoadStore(a, i) ==
  LET addr == Address(a, i)
      n == AccessSize(i)
      loaded == Read(a.mem, addr, n)
      value == IF i.op \in {"LDRSB", "LDRSH", "LDRSW"} THEN SignExtend(loaded, n, Size(i)) ELSE loaded
      done == IF i.op \in {"STR", "STRB", "STRH"}
                THEN [a EXCEPT !.mem = Write(@, addr, n, ReadReg(a, i.rd))]
                ELSE WriteReg(a, i.rd, value)
  IN BaseWriteback(a, done, i)

ExecuteLoadStorePair(a, i) ==
  LET n == Size(i)
      addr == Address(a, i)
      next == Plus(addr, n \div 8)
      done == IF i.op = "LDP"
                THEN WriteReg(WriteReg(a, i.rd, Read(a.mem, addr, n)), i.rt2, Read(a.mem, next, n))
                ELSE [a EXCEPT !.mem = Write(Write(@, addr, n, ReadReg(a, i.rd)),
                                             next, n, ReadReg(a, i.rt2))]
  IN BaseWriteback(a, done, i)

ExecuteLoadStoreLit(a, i) ==
  WriteReg(a, i.rd, Read(a.mem, Add(a.pc, i.offset, 64), Size(i)))

---------------------------------------------------------------------------
(* Vector instructions. *)

ExecuteSIMDReg(a, i) == [a EXCEPT !.vec = ThreeSame(@, i.op, i.rd, i.rn, i.rm, i.arr)]

ExecuteSIMDLoadStore(a, i) ==
  LET addr == Add(ReadRegOrSP(a, i.rn), i.imm, 64)
  IN IF i.op = "LDRQ" THEN [a EXCEPT !.vec = LDR128(@, a.mem, i.rd, addr)]
     ELSE [a EXCEPT !.mem = STR128(a.vec, @, i.rd, addr)]

ExecuteSIMDCopy(a, i) == [a EXCEPT !.vec = DUP(@, i.rd, ReadReg(a, i.rn), i.arr)]

---------------------------------------------------------------------------
(* Branches and system calls. *)

Jump(a, i) == [a EXCEPT !.pc = Add(@, i.offset, 64)]
Skip(a) == [a EXCEPT !.pc = Plus(@, 4)]
Link(a) == WriteReg(a, 30, Plus(a.pc, 4))

ExecuteBranch(a, i) == Jump(IF i.op = "BL" THEN Link(a) ELSE a, i)
ExecuteBranchCond(a, i) == IF CheckCondition(a.fl, i.cond) THEN Jump(a, i) ELSE Skip(a)
ExecuteBranchReg(a, i) ==
  [(IF i.op = "BLR" THEN Link(a) ELSE a) EXCEPT !.pc = ReadReg(a, i.rn)]
ExecuteTestBranch(a, i) ==
  IF (Num(i.imm) \in ReadReg(a, i.rd)) = (i.op = "TBNZ") THEN Jump(a, i) ELSE Skip(a)
ExecuteCompareBranch(a, i) ==
  IF (Low(ReadReg(a, i.rd), Size(i)) = {}) = (i.op = "CBZ") THEN Jump(a, i) ELSE Skip(a)

Stop(a, code) == [a EXCEPT !.status = "exited", !.code = code]

\* The syscalls of these programs: exit, and a number the table does not have,
\* which answers -ENOSYS.
ExitNumber == W(93)
ENOSYS == W(38)
Handle(a) ==
  IF ReadReg(a, 8) = ExitNumber THEN Stop(a, ReadReg(a, 0))
  ELSE WriteReg(a, 0, Negate(ENOSYS, 64))

---------------------------------------------------------------------------
Execute(a, i) ==
  IF i.op = "Unknown" THEN Stop(a, Failed)
  ELSE CASE i.op = "SVC" -> Handle(Skip(a))
         [] i.op = "BRK" -> Stop(a, Failed)
         [] i.op = "NOP" -> Skip(a)
         [] i.fmt = "Branch" -> ExecuteBranch(a, i)
         [] i.fmt = "BranchCond" -> ExecuteBranchCond(a, i)
         [] i.fmt = "BranchReg" -> ExecuteBranchReg(a, i)
         [] i.fmt = "TestBranch" -> ExecuteTestBranch(a, i)
         [] i.fmt = "CompareBranch" -> ExecuteCompareBranch(a, i)
         [] i.fmt = "DPImm" -> Skip(ExecuteDPImm(a, i))
         [] i.fmt = "DPReg" -> Skip(ExecuteDPReg(a, i))
         [] i.fmt = "LogicalImm" -> Skip(ExecuteLogicalImm(a, i))
         [] i.fmt = "Bitfield" -> Skip(ExecuteBitfield(a, i))
         [] i.fmt = "Extract" -> Skip(ExecuteExtract(a, i))
         [] i.fmt = "LoadStore" -> Skip(ExecuteLoadStore(a, i))
         [] i.fmt = "LoadStorePair" -> Skip(ExecuteLoadStorePair(a, i))
         [] i.fmt = "LoadStoreLit" -> Skip(ExecuteLoadStoreLit(a, i))
         [] i.fmt = "PCRel" -> Skip(ExecutePCRel(a, i))
         [] i.fmt = "MoveWide" -> Skip(ExecuteMoveWide(a, i))
         [] i.fmt = "CondSelect" -> Skip(ExecuteCondSelect(a, i))
         [] i.fmt = "CondCmp" -> Skip(ExecuteCondCmp(a, i))
         [] i.fmt = "DataProc2Src" -> Skip(ExecuteDataProc2Src(a, i))
         [] i.fmt = "DataProc3Src" -> Skip(ExecuteDataProc3Src(a, i))
         [] i.fmt = "SystemReg" -> Skip(ExecuteMRS(a, i))
         [] i.fmt = "SIMDReg" -> Skip(ExecuteSIMDReg(a, i))
         [] i.fmt = "SIMDLoadStore" -> Skip(ExecuteSIMDLoadStore(a, i))
         [] i.fmt = "SIMDCopy" -> Skip(ExecuteSIMDCopy(a, i))

Limited(a) == MaxInstructions > 0 /\ a.count >= MaxInstructions

Step(a) ==
  IF Limited(a) THEN Stop(a, Failed)
  ELSE [Execute(a, InstAt(prog, a.pc)) EXCEPT !.count = @ + 1]

---------------------------------------------------------------------------
Init ==
  /\ prog \in Programs
  /\ \E s \in Setups : arch = Start(s)

\* Run steps until the program exits or a step fails.
Next ==
  /\ arch.status = "running"
  /\ arch' = Step(arch)
  /\ UNCHANGED prog

Spec == Init /\ [][Next]_emuVars
===========================================================================
