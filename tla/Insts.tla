------------------------------ MODULE Insts ------------------------------
(***************************************************************************)
(* The instructions the processor models share: the decoded form            *)
(* (insts.Instruction), the register file (emu.RegFile) and the flags.      *)
(*                                                                         *)
(* One representative stands for each way an instruction uses registers,   *)
(* flags, memory or the PC.  A register or memory word is a value modulo   *)
(* Modulus; memory is addressed by words, code by instructions.            *)
(***************************************************************************)
EXTENDS Integers

CONSTANTS
  NumRegs,   \* general registers; the last one is the link register X30
  Modulus    \* values of a word, and the size of the two address spaces

ASSUME WordAssumption == NumRegs \in Nat \ {0} /\ Modulus \in Nat \ {0, 1}

Regs == 0 .. NumRegs - 1
Val == 0 .. Modulus - 1
LR == NumRegs - 1      \* X30
XZR == NumRegs         \* register 31

Ops == {"ADD", "ADDI", "CMP", "CMPI", "MADD", "LDR", "LDRP", "LDP", "STR", "STP",
        "B", "BL", "BEQ", "BCS", "CBZ", "RET", "SVC", "NOP"}

\* insts.Instruction; a field an encoding does not have is 0, as DecodeInto leaves it.
\* LDRP is the post-indexed LDR; a branch holds its target in imm, SVC its call number.
Encoding == [op : Ops, rd : Regs \cup {XZR}, rn : Regs \cup {XZR}, rm : Regs \cup {XZR},
             rt2 : Regs \cup {XZR}, imm : Val]

\* A compare is SUBS into register 31.
Inst == {i \in Encoding : i.op \in {"CMP", "CMPI"} => i.rd = XZR}

\* The two calls of the syscall table the models tell apart.
Exit == 0
Write == 1

Wrap(n) == n % Modulus

ReadReg(r, i) == IF i = XZR THEN 0 ELSE r[i]
WriteReg(r, i, v) == IF i = XZR THEN r ELSE [r EXCEPT ![i] = v]

\* PSTATE: Z, and C for the unsigned conditions.
Flags == [z : BOOLEAN, c : BOOLEAN]
SubFlags(x, y) == [z |-> x = y, c |-> x >= y]

IsLoad(i) == i.op \in {"LDR", "LDRP", "LDP"}
IsStore(i) == i.op \in {"STR", "STP"}
IsMem(i) == IsLoad(i) \/ IsStore(i)
EndsProgram(i) == i.op = "SVC" /\ i.imm = Exit

ExitCall == [op |-> "SVC", rd |-> 0, rn |-> 0, rm |-> 0, rt2 |-> 0, imm |-> Exit]

\* The instruction at address n; a program is followed by calls to exit.
InstAt(prog, n) == IF n \in DOMAIN prog THEN prog[n] ELSE ExitCall

\* The address execution goes on from after n when branches B are followed and
\* not counted; Modulus when B's form a loop.
Follow(prog, n) ==
  LET isB(a) == InstAt(prog, a).op = "B"
      onward[a \in Val] == IF isB(a) THEN InstAt(prog, a).imm ELSE a
      hop[k \in 0 .. Modulus] == IF k = 0 THEN n ELSE onward[hop[k - 1]]
  IN IF ~isB(n) THEN n ELSE IF isB(hop[Modulus]) THEN Modulus ELSE hop[Modulus]
==========================================================================
