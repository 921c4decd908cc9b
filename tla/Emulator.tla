---------------------------- MODULE Emulator ----------------------------
(***************************************************************************)
(* emu/emulator.go: the functional emulator, the reference the timing       *)
(* models are validated against.  One step executes one instruction.        *)
(***************************************************************************)
EXTENDS Insts, Sequences

CONSTANTS
  Programs,   \* the programs: functions from 0 .. n-1 to instructions
  InitRegs,   \* the register files a program may start with
  InitMems    \* the memories a program may start with

VARIABLES
  prog,   \* the loaded program (the code part of emu.Memory)
  arch    \* RegFile, PSTATE, the data part of Memory, stdout and the StepResult

emuVars == <<prog, arch>>

Arch == [pc : 0 .. Modulus, regs : [Regs -> Val], mem : [Val -> Val], fl : Flags,
         out : Seq(Val), halted : BOOLEAN, code : Val]

Start(regs, mem) ==
  [pc |-> 0, regs |-> regs, mem |-> mem, fl |-> [z |-> FALSE, c |-> FALSE],
   out |-> << >>, halted |-> FALSE, code |-> 0]

\* Values of the operands.
Rd(a, i) == ReadReg(a.regs, i.rd)
Rn(a, i) == ReadReg(a.regs, i.rn)
Rm(a, i) == ReadReg(a.regs, i.rm)
Rt2(a, i) == ReadReg(a.regs, i.rt2)

Set(a, i, v) == [a EXCEPT !.regs = WriteReg(@, i.rd, v)]

ExecuteDPImm(a, i) ==
  IF i.op = "ADDI" THEN Set(a, i, Wrap(Rn(a, i) + i.imm))
  ELSE [a EXCEPT !.fl = SubFlags(Rn(a, i), i.imm)]

ExecuteDPReg(a, i) ==
  IF i.op = "ADD" THEN Set(a, i, Wrap(Rn(a, i) + Rm(a, i)))
  ELSE [a EXCEPT !.fl = SubFlags(Rn(a, i), Rm(a, i))]

ExecuteDataProc3Src(a, i) == Set(a, i, Wrap(Rt2(a, i) + Rn(a, i) * Rm(a, i)))

ExecuteLoadStore(a, i) ==
  LET addr == IF i.op = "LDRP" THEN Rn(a, i) ELSE Wrap(Rn(a, i) + i.imm)
  IN CASE i.op = "LDR"  -> Set(a, i, a.mem[addr])
       [] i.op = "LDRP" -> [a EXCEPT !.regs = WriteReg(WriteReg(@, i.rd, a.mem[addr]),
                                                       i.rn, Wrap(addr + i.imm))]
       [] i.op = "STR"  -> [a EXCEPT !.mem[addr] = Rd(a, i)]

ExecuteLoadStorePair(a, i) ==
  LET addr == Wrap(Rn(a, i) + i.imm)
      next == Wrap(addr + 1)
  IN IF i.op = "LDP"
       THEN [a EXCEPT !.regs = WriteReg(WriteReg(@, i.rd, a.mem[addr]), i.rt2, a.mem[next])]
       ELSE [a EXCEPT !.mem = [[@ EXCEPT ![addr] = Rd(a, i)] EXCEPT ![next] = Rt2(a, i)]]

\* DefaultSyscallHandler: exit answers X0, write copies the word at X1 to stdout.
Handle(a, i) ==
  IF i.imm = Exit
    THEN [a EXCEPT !.halted = TRUE, !.code = a.regs[0]]
    ELSE [a EXCEPT !.out = Append(@, a.mem[ReadReg(a.regs, 1)]), !.regs[0] = 1]

\* What an instruction does but for the PC.
Execute(a, i) ==
  CASE i.op \in {"ADDI", "CMPI"} -> ExecuteDPImm(a, i)
    [] i.op \in {"ADD", "CMP"} -> ExecuteDPReg(a, i)
    [] i.op = "MADD" -> ExecuteDataProc3Src(a, i)
    [] i.op \in {"LDR", "LDRP", "STR"} -> ExecuteLoadStore(a, i)
    [] i.op \in {"LDP", "STP"} -> ExecuteLoadStorePair(a, i)
    [] i.op = "SVC" -> Handle(a, i)
    [] i.op = "BL" -> [a EXCEPT !.regs[LR] = Wrap(a.pc + 1)]
    [] OTHER -> a

\* BranchUnit.CheckCondition on the flags fl.
CheckCondition(fl, i) == IF i.op = "BEQ" THEN fl.z ELSE fl.c

NextPC(a, i) ==
  CASE i.op \in {"B", "BL"} -> i.imm
    [] i.op \in {"BEQ", "BCS"} /\ CheckCondition(a.fl, i) -> i.imm
    [] i.op = "CBZ" /\ Rd(a, i) = 0 -> i.imm
    [] i.op = "RET" -> Rn(a, i)
    [] OTHER -> Wrap(a.pc + 1)

Step(a) ==
  LET i == InstAt(prog, a.pc) IN [Execute(a, i) EXCEPT !.pc = NextPC(a, i)]

---------------------------------------------------------------------------
Init ==
  /\ prog \in Programs
  /\ \E r \in InitRegs, m \in InitMems : arch = Start(r, m)

\* Run calls Step until a call exits.
Next ==
  /\ ~arch.halted
  /\ arch' = Step(arch)
  /\ UNCHANGED prog

Spec == Init /\ [][Next]_emuVars

---------------------------------------------------------------------------
(* The same run with every B folded into the step before it, which is how    *)
(* far a machine that eliminates B at fetch can be compared with it.         *)

SkipB(a) == [a EXCEPT !.pc = Follow(prog, @)]

FoldedInit ==
  /\ prog \in Programs
  /\ \E r \in InitRegs, m \in InitMems : arch = SkipB(Start(r, m))

FoldedNext ==
  /\ ~arch.halted
  /\ arch.pc # Modulus
  /\ arch' = SkipB(Step(arch))
  /\ UNCHANGED prog

FoldedSpec == FoldedInit /\ [][FoldedNext]_emuVars

\* Up to n such steps, for a machine that issues several instructions together.
GroupNext(n) ==
  LET run[k \in 0 .. n] ==
        IF k = 0 THEN <<arch>>
        ELSE LET before == run[k - 1]
                 a == before[Len(before)]
             IN IF a.halted \/ a.pc = Modulus THEN before ELSE Append(before, SkipB(Step(a)))
      states == run[n]
  IN /\ arch' \in {states[k] : k \in 2 .. Len(states)}
     /\ UNCHANGED prog
==========================================================================
