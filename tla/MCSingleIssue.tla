-------------------------- MODULE MCSingleIssue --------------------------
(* Programs, register files and memories for the SingleIssue runs.         *)
EXTENDS SingleIssue

\* An instruction with the fields its encoding lacks at 0.
I(op, rd, rn, rm, rt2, imm) ==
  [op |-> op, rd |-> rd, rn |-> rn, rm |-> rm, rt2 |-> rt2, imm |-> imm]

\* Two register files, the second with a return address of 0; every word of
\* the memory holds a value of its own.
CountingRegs == {[i \in Regs |-> Wrap(i + 2)]}
BothRegs == CountingRegs \cup {[i \in Regs |-> IF i = LR THEN 0 ELSE Wrap(4 + 4 * i)]}
ScrambledMem == {[a \in Val |-> Wrap(3 * a + 2)]}

OneCycle == [op \in Ops |-> 1]
DefaultLatency == [op \in Ops |-> CASE op \in {"LDR", "LDRP", "LDP"} -> 2
                                    [] op = "MADD" -> 3 [] OTHER -> 1]

\* The arithmetic, memory and pair instructions over X0, X1, X2.
DataInsts == {
  I("ADD", 0, 1, 0, 0, 0),
  I("MADD", 1, 2, 1, 0, 0),
  I("LDR", 0, 1, 0, 0, 0), I("LDR", 1, 0, 0, 0, 1),
  I("STR", 0, 1, 0, 0, 0),
  I("LDP", 0, 1, 0, 1, 0), I("STP", 1, 0, 0, 0, 0),
  I("LDRP", 0, 2, 0, 0, 1) }

DataPrograms == [0 .. 3 -> DataInsts]

\* One of each kind, for the runs with latencies.
DefaultInsts == {
  I("ADD", 0, 1, 0, 0, 0), I("ADDI", 1, 1, 0, 0, 1), I("MADD", 1, 2, 1, 0, 0),
  I("LDR", 0, 1, 0, 0, 0), I("STR", 0, 1, 0, 0, 0),
  I("CMP", XZR, 0, 1, 0, 0), I("BEQ", 0, 0, 0, 0, 3), I("SVC", 0, 0, 0, 0, Write) }
DefaultPrograms == [0 .. 2 -> DefaultInsts]

\* Compares, every kind of branch, a call that writes; X2 is the link register.
BranchInsts == {
  I("CMP", XZR, 0, 1, 0, 0), I("CMPI", XZR, 1, 0, 0, 4),
  I("BEQ", 0, 0, 0, 0, 3), I("BCS", 0, 0, 0, 0, 0), I("B", 0, 0, 0, 0, 0), I("B", 0, 0, 0, 0, 2),
  I("BL", 0, 0, 0, 0, 2), I("RET", 0, 2, 0, 0, 0), I("SVC", 0, 0, 0, 0, Write) }

BranchPrograms == [0 .. 2 -> BranchInsts]

\* A loop over one load or store at a time, a call that writes, a branch.
CacheInsts == {
  I("ADDI", 0, 0, 0, 0, 1), I("ADD", 1, 0, 1, 0, 0), I("LDR", 0, 1, 0, 0, 0), I("STR", 0, 1, 0, 0, 0),
  I("CMP", XZR, 0, 1, 0, 0), I("SVC", 0, 0, 0, 0, Write), I("BEQ", 0, 0, 0, 0, 0),
  I("B", 0, 0, 0, 0, 0) }

CachePrograms == [0 .. 2 -> CacheInsts]

\* Straight-line code with forward branches and a call.
StraightInsts == {
  I("ADD", 0, 1, 0, 0, 0), I("MADD", 1, 0, 1, 0, 0), I("LDR", 1, 0, 0, 0, 1),
  I("STR", 1, 0, 0, 0, 0), I("BEQ", 0, 0, 0, 0, 3), I("CBZ", 0, 0, 0, 0, 3),
  I("SVC", 0, 0, 0, 0, Write) }

StraightPrograms == [0 .. 2 -> StraightInsts]

---------------------------------------------------------------------------
(* Programs that meet one hazard each.                                     *)

Listing(s) == [a \in 0 .. Len(s) - 1 |-> s[a + 1]]

\* add x1, x0, #2 ; ldr x0, [x0] ; add x0, x1, x1
OperandBehindLoad ==
  {Listing(<<I("ADDI", 1, 0, 0, 0, 2), I("LDR", 0, 0, 0, 0, 0), I("ADD", 0, 1, 1, 0, 0)>>)}

\* add x0, x0, #1 ; mul x1, x0, x1
AddThenMultiply ==
  {Listing(<<I("ADDI", 0, 0, 0, 0, 1), I("MADD", 1, 0, 1, XZR, 0)>>)}

\* loop: str x0, [x1] ; add x0, x0, #1 ; b loop
StoreLoop ==
  {Listing(<<I("STR", 0, 1, 0, 0, 0), I("ADDI", 0, 0, 0, 0, 1), I("B", 0, 0, 0, 0, 0)>>)}

---------------------------------------------------------------------------
(* Machines.                                                               *)

On(programs, files, latency, icache, dcache) ==
  [programs |-> programs, regs |-> files, latency |-> latency,
   icache |-> icache, dcache |-> dcache]

\* Without caches: with one-cycle execution, and with the default latency table,
\* which is what the command line runs.
UncachedSetups == [data |-> On(DataPrograms, CountingRegs, OneCycle, FALSE, FALSE),
                   branches |-> On(BranchPrograms, BothRegs, OneCycle, FALSE, FALSE),
                   default |-> On(DefaultPrograms, CountingRegs, DefaultLatency, FALSE, FALSE)]
CachedSetups == [cached |-> On(CachePrograms, CountingRegs, OneCycle, TRUE, TRUE)]
ForwardSetups == [forward |-> On(StraightPrograms, CountingRegs, DefaultLatency, TRUE, FALSE)]

BehindLoadSetup == [plain |-> On(OperandBehindLoad, CountingRegs, OneCycle, FALSE, FALSE)]
MultiplySetup == [default |-> On(AddThenMultiply, CountingRegs, DefaultLatency, FALSE, FALSE)]
StoreLoopSetup == [dcache |-> On(StoreLoop, CountingRegs, OneCycle, FALSE, TRUE)]
==========================================================================
