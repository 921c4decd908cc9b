--------------------------- MODULE MCWideIssue ---------------------------
(* Programs and machines for the WideIssue run; instructions, register files *)
(* and memories are those of MCSingleIssue.                                 *)
EXTENDS WideIssue, MCSingleIssue

\* The machine m, issuing w instructions in a tick.
Wide(w, m) ==
  [programs |-> m.programs, regs |-> m.regs, latency |-> m.latency,
   icache |-> m.icache, dcache |-> m.dcache, width |-> w]
Dual(m) == Wide(2, m)
Quad(m) == Wide(4, m)
Sextuple(m) == Wide(6, m)
Octuple(m) == Wide(8, m)

\* Four instructions of those that compute, load and store.
QuadPrograms == [0 .. 3 -> DataInsts \ {I("LDR", 1, 0, 0, 0, 1)}]

\* Five that use each other's results.
SumInsts == {
  I("ADD", 0, 1, 0, 0, 0), I("ADD", 1, 0, 2, 0, 0), I("LDR", 2, 1, 0, 0, 0), I("STR", 0, 1, 0, 0, 0) }
SumPrograms == [0 .. 4 -> SumInsts]

\* Compares, branches of every kind and a call; X0 is 2 and X2, the link register, 4.
ForkInsts == {
  I("CMPI", XZR, 0, 0, 0, 2), I("BEQ", 0, 0, 0, 0, 4),
  I("B", 0, 0, 0, 0, 2), I("BL", 0, 0, 0, 0, 2), I("RET", 0, 2, 0, 0, 0), I("SVC", 0, 0, 0, 0, Write) }
ForkPrograms == [0 .. 2 -> ForkInsts]
MissPrograms == [0 .. 2 -> CacheInsts \ {I("LDR", 0, 1, 0, 0, 0), I("SVC", 0, 0, 0, 0, Write)}]

\* Compares, fused with the branch behind them or not, sums, and branches over them.
GroupInsts == {
  I("CMPI", XZR, 0, 0, 0, 2), I("CMP", XZR, 0, 1, 0, 0), I("BEQ", 0, 0, 0, 0, 3),
  I("ADDI", 0, 0, 0, 0, 1), I("B", 0, 0, 0, 0, 3) }
GroupPrograms == [0 .. 3 -> GroupInsts]

\* Calls and returns, which issue first in their group or alone.
CallPrograms ==
  {Listing(<<a, b, c>>) :
     a \in {I("BL", 0, 0, 0, 0, 2), I("SVC", 0, 0, 0, 0, Write), I("ADDI", 2, 2, 0, 0, 1)},
     b \in {I("BL", 0, 0, 0, 0, 2), I("CMPI", XZR, 0, 0, 0, 2)},
     c \in {I("RET", 0, 2, 0, 0, 0), I("BEQ", 0, 0, 0, 0, 1)}}

\* Eight instructions of which up to eight issue together.
LongPrograms ==
  {Listing(<<a, b, c, d, e, f, g, h>>) :
     a \in {I("LDR", 2, 1, 0, 0, 1), I("CMP", XZR, 0, 1, 0, 0)},
     b \in {I("STR", 0, 1, 0, 0, 2), I("ADDI", 1, 0, 0, 0, 1)},
     c \in {I("STR", 0, 1, 0, 0, 0), I("MADD", 2, 1, 0, 2, 0)},
     d \in {I("ADD", 0, 1, 0, 0, 0), I("LDR", 0, 2, 0, 0, 1)},
     e \in {I("ADDI", 1, 1, 0, 0, 1), I("BEQ", 0, 0, 0, 0, 7)},
     f \in {I("NOP", 0, 0, 0, 0, 0), I("BCS", 0, 0, 0, 0, 9)},
     g \in {I("NOP", 0, 0, 0, 0, 0), I("B", 0, 0, 0, 0, 1)},
     h \in {I("CMP", XZR, 1, 0, 0, 0), I("BEQ", 0, 0, 0, 0, 2)}}

\* Programs for the hazards the others do not meet.
OddPrograms == {
  Listing(<<I("LDR", 2, 1, 0, 0, 0), I("STR", 0, 1, 0, 0, 0)>>),
  Listing(<<I("ADD", 1, 0, 2, 0, 0), I("LDR", 2, 1, 0, 0, 0), I("ADD", 0, 1, 0, 0, 0),
            I("ADD", 0, 1, 0, 0, 0), I("ADD", 1, 0, 2, 0, 0)>>),
  Listing(<<I("ADDI", 2, 1, 0, 0, 1), I("ADDI", 1, 1, 0, 0, 1), I("ADDI", 1, 1, 0, 0, 1),
            I("MADD", 1, 2, 1, 0, 0)>>),
  Listing(<<I("LDP", 0, 1, 0, 0, 0), I("ADD", 1, 0, 1, 0, 0)>>),
  Listing(<<I("LDP", XZR, 1, 0, 0, 0), I("ADD", 1, 0, 1, 0, 0)>>),
  Listing(<<I("LDRP", 1, 1, 0, 0, 1), I("ADD", 0, 1, 0, 0, 0)>>),
  Listing(<<I("SVC", 0, 0, 0, 0, Exit), I("CMPI", XZR, 1, 0, 0, 3)>>),
  Listing(<<I("SVC", 0, 0, 0, 0, Exit), I("STR", 0, 1, 0, 0, 0)>>),
  Listing(<<I("CMPI", XZR, 0, 0, 0, 3)>>),
  Listing(<<I("CMP", XZR, 0, 1, 0, 0), I("CMPI", XZR, 0, 0, 0, 2), I("BEQ", 0, 0, 0, 0, 4)>>),
  Listing(<<I("LDR", 0, 1, 0, 0, 0), I("CMPI", XZR, 0, 0, 0, 2), I("BEQ", 0, 0, 0, 0, 5),
            I("BEQ", 0, 0, 0, 0, 1)>>),
  Listing(<<I("NOP", 0, 0, 0, 0, 0), I("RET", 0, 2, 0, 0, 0), I("NOP", 0, 0, 0, 0, 0),
            I("NOP", 0, 0, 0, 0, 0), I("CMPI", XZR, 0, 0, 0, 2), I("BEQ", 0, 0, 0, 0, 2),
            I("BEQ", 0, 0, 0, 0, 1)>>),
  Listing(<<I("ADDI", 2, 2, 0, 0, 6), I("RET", 0, 2, 0, 0, 0)>>) }

\* Three of the instructions of which the other machines run four or five.
ShortPrograms == [0 .. 2 -> GroupInsts] \cup [0 .. 2 -> SumInsts]

MixedPrograms == QuadPrograms \cup SumPrograms \cup OddPrograms
Plain(programs) == On(programs, CountingRegs, OneCycle, FALSE, FALSE)
Slow(programs) == On(programs, CountingRegs, DefaultLatency, FALSE, FALSE)

IssueMachines == [
  data |-> Dual(Plain(MixedPrograms)),
  branches |-> Dual(Plain(ForkPrograms)),
  default |-> Dual(Slow(DefaultPrograms)),
  icache |-> Dual(On(MissPrograms, CountingRegs, OneCycle, TRUE, FALSE)),
  quad_data |-> Quad(Plain(MixedPrograms)),
  quad_branches |-> Quad(Plain(GroupPrograms \cup CallPrograms)),
  quad_default |-> Quad(Slow(DefaultPrograms \cup OddPrograms)),
  sextuple |-> Sextuple(Plain(LongPrograms \cup ShortPrograms \cup CallPrograms)),
  sextuple_default |-> Sextuple(Slow(ShortPrograms \cup OddPrograms)),
  wide_data |-> Octuple(Plain(MixedPrograms)),
  wide_branches |-> Octuple(Plain(GroupPrograms \cup CallPrograms)),
  wide_default |-> Octuple(Slow(DefaultPrograms \cup OddPrograms)),
  long |-> Octuple(Plain(LongPrograms))]

\* Of a definition of its own, which TLC evaluates once.
IssueSetups == IssueMachines
==========================================================================
