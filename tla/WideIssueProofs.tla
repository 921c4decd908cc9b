------------------------ MODULE WideIssueProofs ------------------------
(* Theorems about WideIssue, for every issue width, machine and program:     *)
(* the slots of every stage stay in program order, each instruction is       *)
(* counted once, and a two-wide machine keeps its types.                     *)
EXTENDS WideIssue, PipelineProofs, SequenceTheorems

---------------------------------------------------------------------------
(* Slots as sequences.                                                     *)

IsSequence(s, n) == n \in Nat /\ s = [k \in 1 .. n |-> s[k]]

LEMMA SequenceFacts ==
  ASSUME NEW s, NEW n, IsSequence(s, n)
  PROVE  /\ s \in Seq({s[k] : k \in 1 .. n})
         /\ Len(s) = n /\ DOMAIN s = 1 .. n
<1>1. n \in Nat
  BY DEF IsSequence
<1>2. s \in [1 .. n -> {s[k] : k \in 1 .. n}]
  BY DEF IsSequence
<1>3. s \in Seq({s[k] : k \in 1 .. n})
  BY <1>1, <1>2, SeqDef
<1>4. DOMAIN s = 1 .. n
  BY <1>2
<1>5. Len(s) = n
  BY <1>1, <1>3, <1>4, LenProperties
<1>6. QED
  BY <1>3, <1>4, <1>5

LEMMA SequencesAre ==
  ASSUME NEW S, NEW s \in Seq(S)
  PROVE  IsSequence(s, Len(s))
  BY LenProperties DEF IsSequence

LEMMA SequencesEqual ==
  ASSUME NEW s, NEW t, NEW n, IsSequence(s, n), IsSequence(t, n), \A k \in 1 .. n : s[k] = t[k]
  PROVE  s = t
  BY DEF IsSequence

\* Operators of Sequences under a name: the SMT backend reads these as they are.
Joint(s, t) == s \o t
Cut(s, a, b) == SubSeq(s, a + 1, b)
Longer(s, e) == Append(s, e)
Stage(a, b, s) == <<a, b>> \o s
Back(x) == SubSeq(x, 3, 8)

LEMMA JointIs ==
  ASSUME NEW s, NEW t, NEW m, NEW n, IsSequence(s, m), IsSequence(t, n)
  PROVE  /\ IsSequence(Joint(s, t), m + n)
         /\ \A k \in 1 .. m + n : Joint(s, t)[k] = IF k <= m THEN s[k] ELSE t[k - m]
<1> DEFINE S == {s[k] : k \in 1 .. m} \cup {t[k] : k \in 1 .. n}
<1>1. s \in Seq(S) /\ Len(s) = m /\ t \in Seq(S) /\ Len(t) = n
  <2>1. {s[k] : k \in 1 .. m} \subseteq S /\ {t[k] : k \in 1 .. n} \subseteq S
    OBVIOUS
  <2>2. s \in Seq({s[k] : k \in 1 .. m}) /\ Len(s) = m
    BY SequenceFacts
  <2>3. t \in Seq({t[k] : k \in 1 .. n}) /\ Len(t) = n
    BY SequenceFacts
  <2> HIDE DEF S
  <2>4. s \in Seq(S)
    BY <2>1, <2>2, SeqMonotonic
  <2>5. t \in Seq(S)
    BY <2>1, <2>3, SeqMonotonic
  <2>6. QED
    BY <2>2, <2>3, <2>4, <2>5
<1> HIDE DEF S
<1>2. /\ s \o t \in Seq(S)
      /\ Len(s \o t) = m + n
      /\ \A k \in 1 .. m + n : (s \o t)[k] = IF k <= m THEN s[k] ELSE t[k - m]
  BY <1>1, ConcatProperties
<1>3. IsSequence(s \o t, m + n)
  BY <1>2, SequencesAre
<1>4. QED
  BY <1>2, <1>3 DEF Joint

LEMMA CutIs ==
  ASSUME NEW s, NEW n, IsSequence(s, n), NEW a \in Nat, NEW b \in 0 .. n
  PROVE  /\ IsSequence(Cut(s, a, b), IF a <= b THEN b - a ELSE 0)
         /\ \A k \in 1 .. b - a : Cut(s, a, b)[k] = s[a + k]
<1>1. n \in Nat
  BY DEF IsSequence
<1> DEFINE S == {s[k] : k \in 1 .. n}
<1>2. \A i \in a + 1 .. b : s[i] \in S
  BY <1>1
<1> HIDE DEF S
<1>3. /\ SubSeq(s, a + 1, b) \in Seq(S)
      /\ Len(SubSeq(s, a + 1, b)) = IF a + 1 <= b THEN b - (a + 1) + 1 ELSE 0
      /\ \A i \in 1 .. b - (a + 1) + 1 : SubSeq(s, a + 1, b)[i] = s[(a + 1) + i - 1]
  <2>1. a + 1 \in Int /\ b \in Int
    BY <1>1
  <2>2. QED
    BY <1>2, <2>1, SubSeqProperties
<1>4. Len(SubSeq(s, a + 1, b)) = IF a <= b THEN b - a ELSE 0
  BY <1>1, <1>3
<1>5. \A k \in 1 .. b - a : SubSeq(s, a + 1, b)[k] = s[a + k]
  <2>1. ASSUME NEW k \in 1 .. b - a PROVE SubSeq(s, a + 1, b)[k] = s[a + k]
    <3>1. k \in 1 .. b - (a + 1) + 1 /\ (a + 1) + k - 1 = a + k
      BY <1>1
    <3>2. QED
      BY <1>3, <3>1
  <2>2. QED
    BY <2>1
<1>6. QED
  BY <1>3, <1>4, <1>5, SequencesAre DEF Cut

LEMMA LongerIs ==
  ASSUME NEW s, NEW n, IsSequence(s, n), NEW e
  PROVE  /\ IsSequence(Longer(s, e), n + 1)
         /\ \A k \in 1 .. n : Longer(s, e)[k] = s[k]
         /\ Longer(s, e)[n + 1] = e
<1>1. n \in Nat /\ s \in Seq({s[k] : k \in 1 .. n}) /\ Len(s) = n
  BY SequenceFacts DEF IsSequence
<1> DEFINE S == {s[k] : k \in 1 .. n} \cup {e}
<1>2. s \in Seq(S) /\ e \in S
  <2>1. {s[k] : k \in 1 .. n} \subseteq S
    OBVIOUS
  <2>2. QED
    BY <1>1, <2>1, SeqMonotonic
<1> HIDE DEF S
<1>3. /\ Append(s, e) \in Seq(S)
      /\ Len(Append(s, e)) = n + 1
      /\ \A k \in 1 .. n : Append(s, e)[k] = s[k]
      /\ Append(s, e)[n + 1] = e
  BY <1>1, <1>2, AppendProperties
<1>4. IsSequence(Append(s, e), n + 1)
  BY <1>3, SequencesAre
<1>5. QED
  BY <1>3, <1>4 DEF Longer

\* A stage is the registers of the first two slots and of the other six.
LEMMA StageIs ==
  ASSUME NEW a, NEW b, NEW s, IsSequence(s, 6)
  PROVE  /\ IsSequence(Stage(a, b, s), 8)
         /\ Stage(a, b, s)[1] = a /\ Stage(a, b, s)[2] = b
         /\ \A k \in 3 .. 8 : Stage(a, b, s)[k] = s[k - 2]
<1> DEFINE p == <<a, b>>
           m == 2
           n == 6
<1>1. IsSequence(p, m) /\ p[1] = a /\ p[2] = b
  BY DEF IsSequence
<1>2. Stage(a, b, s) = Joint(p, s)
  BY DEF Stage, Joint
<1> HIDE DEF p, m, n
<1>3. IsSequence(s, n)
  BY DEF n
<1>4. /\ IsSequence(Joint(p, s), m + n)
      /\ \A k \in 1 .. m + n : Joint(p, s)[k] = IF k <= m THEN p[k] ELSE s[k - m]
  BY <1>1, <1>3, JointIs
<1>5. QED
  BY <1>1, <1>2, <1>4 DEF m, n

LEMMA Rejoined ==
  ASSUME NEW x, IsSequence(x, 8)
  PROVE  /\ IsSequence(Cut(x, 2, 8), 6)
         /\ Stage(x[1], x[2], Cut(x, 2, 8)) = x
<1> DEFINE t == Cut(x, 2, 8)
           e == Stage(x[1], x[2], t)
<1>1. IsSequence(t, 6) /\ \A k \in 1 .. 6 : t[k] = x[2 + k]
  BY CutIs
<1> HIDE DEF t
<1>2. IsSequence(e, 8) /\ e[1] = x[1] /\ e[2] = x[2] /\ \A k \in 3 .. 8 : e[k] = t[k - 2]
  BY <1>1, StageIs
<1> HIDE DEF e
<1>3. ASSUME NEW k \in 1 .. 8 PROVE e[k] = x[k]
  <2>1. CASE k \in {1, 2}
    BY <1>2, <2>1
  <2>2. CASE k \in 3 .. 8
    <3>1. k - 2 \in 1 .. 6 /\ 2 + (k - 2) = k
      BY <2>2
    <3>2. QED
      BY <1>1, <1>2, <2>2, <3>1
  <2>3. QED
    BY <2>1, <2>2
<1>4. e = x
  BY <1>2, <1>3, SequencesEqual
<1>5. QED
  BY <1>1, <1>4 DEF e, t

---------------------------------------------------------------------------
(* What a stage holds.                                                     *)

LEMMA StagesAre ==
  /\ IFIDs = Stage(ifid, ifid2, ifids) /\ IDEXs = Stage(idex, idex2, idexs)
  /\ EXMEMs = Stage(exmem, exmem2, exmems) /\ MEMWBs = Stage(memwb, memwb2, memwbs)
  /\ Latencies = Stage(exLatency, exLatency2, exLatencies)
  BY DEF IFIDs, IDEXs, EXMEMs, MEMWBs, Latencies, Stage

\* The program can go on at q behind the instruction in s.
Towards(p, s, q) ==
  \/ Follow(p, q) = Follow(p, Wrap(s.pc + 1))
  \/ s.inst.op \in {"BL", "BEQ", "BCS", "CBZ"} /\ Follow(p, q) = Follow(p, s.inst.imm)
  \/ s.inst.op = "RET"

\* OnPath, in program p.
Behind(p, s, t) ==
  \/ t.pc = Follow(p, Wrap(s.pc + 1))
  \/ s.inst.op \in {"BL", "BEQ", "BCS", "CBZ"} /\ t.pc = Follow(p, s.inst.imm)
  \/ s.inst.op = "RET"

\* A register is empty, or holds the instruction of the program at its address.
Holds(p, s) == s = Empty \/ (s.valid /\ s.inst = InstAt(p, s.pc))

\* A stage holds a stretch of a path through the program, from the first slot on.
InOrder(p, stage) ==
  /\ IsSequence(stage, 8)
  /\ \A k \in Slots : Holds(p, stage[k])
  /\ \A k \in 2 .. 8 : stage[k].valid => stage[k - 1].valid /\ Behind(p, stage[k - 1], stage[k])

LEMMA LaterSlots == \A k \in 2 .. 8 : k > 1 /\ k \in Slots /\ k - 1 \in Slots
  BY DEF Slots

LEMMA EmptyIsNot == ~Empty.valid
  BY DEF Empty

LEMMA BehindNext ==
  ASSUME NEW p, NEW s, NEW q, Towards(p, s, q), NEW t, t.pc = Follow(p, q)
  PROVE  Behind(p, s, t)
  BY DEF Towards, Behind

\* Stages are in order as their instructions are.
LEMMA SameOrder ==
  ASSUME NEW p, NEW s, InOrder(p, s), NEW t, IsSequence(t, 8),
         \A k \in Slots : \/ t[k] = Empty
                          \/ s[k].valid /\ t[k].valid /\ t[k].pc = s[k].pc /\ t[k].inst = s[k].inst,
         \A k \in 2 .. 8 : t[k].valid => t[k - 1].valid
  PROVE  InOrder(p, t)
<1>1. \A k \in Slots : Holds(p, t[k])
  <2>1. ASSUME NEW k \in Slots, t[k] # Empty PROVE t[k].valid /\ t[k].inst = InstAt(p, t[k].pc)
    <3>1. s[k].valid /\ t[k].valid /\ t[k].pc = s[k].pc /\ t[k].inst = s[k].inst
      BY <2>1
    <3>2. s[k] # Empty
      BY <3>1, EmptyIsNot
    <3>3. s[k].inst = InstAt(p, s[k].pc)
      BY <3>2 DEF InOrder, Holds
    <3>4. QED
      BY <3>1, <3>3
  <2>2. QED
    BY <2>1 DEF Holds
<1>2. ASSUME NEW k \in 2 .. 8, t[k].valid PROVE Behind(p, t[k - 1], t[k])
  <2>1. k \in Slots /\ k - 1 \in Slots /\ t[k - 1].valid
    BY <1>2 DEF Slots
  <2>2. t[k] # Empty /\ t[k - 1] # Empty
    BY <1>2, <2>1, EmptyIsNot
  <2>3. /\ s[k].valid /\ t[k].pc = s[k].pc /\ t[k].inst = s[k].inst
        /\ t[k - 1].pc = s[k - 1].pc /\ t[k - 1].inst = s[k - 1].inst
    BY <2>1, <2>2
  <2>4. Behind(p, s[k - 1], s[k])
    BY <2>3 DEF InOrder
  <2>5. QED
    BY <2>3, <2>4 DEF Behind
<1>3. QED
  BY <1>1, <1>2 DEF InOrder

LEMMA AllEmptyInOrder ==
  ASSUME NEW p
  PROVE  InOrder(p, AllEmpty)
  BY EmptyIsNot DEF InOrder, AllEmpty, IsSequence, Slots, Holds

---------------------------------------------------------------------------
(* MEM and EX of the wide machines.                                        *)

LEMMA NextMEMWBsInOrder ==
  ASSUME NEW p, InOrder(p, EXMEMs), NEW access
  PROVE  InOrder(p, NextMEMWBs(access))
<1> DEFINE ms == NextMEMWBs(access)
<1>1. IsSequence(ms, 8)
  BY DEF NextMEMWBs, IsSequence, Slots
<1>2. ASSUME NEW k \in Slots
      PROVE  IF ~EXMEMs[k].valid \/ access.stall THEN ms[k] = Empty
             ELSE ms[k].valid /\ ms[k].pc = EXMEMs[k].pc /\ ms[k].inst = EXMEMs[k].inst
  BY DEF NextMEMWBs, Leaving
<1> HIDE DEF ms
<1>3. \A k \in Slots : ms[k] = Empty \/ (EXMEMs[k].valid /\ ms[k].valid
                            /\ ms[k].pc = EXMEMs[k].pc /\ ms[k].inst = EXMEMs[k].inst)
  BY <1>2
<1>4. ASSUME NEW k \in 2 .. 8, ms[k].valid PROVE ms[k - 1].valid
  <2>1. k \in Slots /\ k - 1 \in Slots
    BY DEF Slots
  <2>2. EXMEMs[k].valid /\ ~access.stall
    BY <1>2, <1>4, <2>1, EmptyIsNot
  <2>3. EXMEMs[k - 1].valid
    BY <2>2 DEF InOrder
  <2>4. QED
    BY <1>2, <2>1, <2>2, <2>3
<1>5. QED
  BY <1>1, <1>3, <1>4, SameOrder DEF ms

\* One slot of ExecutedUpTo, before being what the slots before it have done: the
\* instruction does not begin, waits, or is executed.
Begins(k, before, stalls) ==
  IDEXs[k].valid /\ before.flush = 0 /\ ~stalls /\ (k = 1 \/ ~ExecStalls)
Cycles(k, before, stalls) ==
  IF Begins(k, before, stalls) THEN CyclesLeft(Latencies[k], IDEXs[k]) ELSE 0
LeftEmpty(before, l) ==
  [before EXCEPT !.next = Append(@, Empty), !.to = Append(@, 0), !.left = Append(@, l)]
ExecuteSlot(k, before, ms, file, stalls) ==
  IF ~Begins(k, before, stalls) \/ Cycles(k, before, stalls) > 1
    THEN LeftEmpty(before, IF Begins(k, before, stalls) THEN Cycles(k, before, stalls) - 1
                           ELSE Latencies[k])
    ELSE TheOne({ExecutedSlot(k, before, x, flags, SlotResult(k, x, y, before.next, file)) :
                   x \in {Operand(k, IDEXs[k].inst.rn, IDEXs[k].rn, before.next, ms)},
                   y \in {Operand(k, IDEXs[k].inst.rm, IDEXs[k].rm, before.next, ms)},
                   flags \in {IF IsFused(IDEXs[k]) THEN FusedFlags(IDEXs[k])
                              ELSE FlagsFor(k, before.next, before.fl)}})
NoneExecuted ==
  [next |-> << >>, left |-> << >>, to |-> << >>, fl |-> fl, fusedFl |-> fusedFl, flush |-> 0]
Executing(ms, file, stalls) ==
  CHOOSE f : f = [k \in 0 .. 8 |-> IF k = 0 THEN NoneExecuted
                                   ELSE ExecuteSlot(k, f[k - 1], ms, file, stalls)]

LEMMA ExecutedIs ==
  ASSUME NEW ms, NEW file, NEW stalls
  PROVE  ExecutedUpTo(ms, file, stalls) = Executing(ms, file, stalls)[8]
  BY DEF ExecutedUpTo, Executing, ExecuteSlot, NoneExecuted, LeftEmpty, Begins, Cycles

LEMMA ExecutingIs ==
  ASSUME NEW ms, NEW file, NEW stalls
  PROVE  /\ Executing(ms, file, stalls)[0] = NoneExecuted
         /\ \A k \in 1 .. 8 : Executing(ms, file, stalls)[k]
                                = ExecuteSlot(k, Executing(ms, file, stalls)[k - 1], ms, file, stalls)
<1> DEFINE S(k, u) == ExecuteSlot(k, u, ms, file, stalls)
           b == NoneExecuted
           Is(f, m) == f = [k \in 0 .. m |-> IF k = 0 THEN b ELSE S(k, f[k - 1])]
           T == {m \in Nat : \E f : Is(f, m)}
           u == Executing(ms, file, stalls)
<1> HIDE DEF S, b
<1>1. T = Nat
  <2>1. 0 \in T
    <3>1. Is([k \in 0 .. 0 |-> b], 0)
      OBVIOUS
    <3>2. QED
      BY <3>1
  <2>2. ASSUME NEW m \in T PROVE m + 1 \in T
    <3>1. PICK f : Is(f, m)
      OBVIOUS
    <3> DEFINE g == [k \in 0 .. m + 1 |-> IF k = m + 1 THEN S(m + 1, f[m]) ELSE f[k]]
    <3>2. Is(g, m + 1)
      BY <3>1
    <3> HIDE DEF g, Is
    <3>3. QED
      BY <3>2
  <2> HIDE DEF T
  <2>3. T \in SUBSET Nat
    BY DEF T
  <2>4. QED
    BY <2>1, <2>2, <2>3, Upwards
<1>2. \E f : Is(f, 8)
  BY <1>1
<1>3. Is(u, 8)
  BY <1>2 DEF Executing, S, b
<1> HIDE DEF u
<1>4. u[0] = b /\ \A k \in 1 .. 8 : u[k] = S(k, u[k - 1])
  BY <1>3
<1>5. QED
  BY <1>4 DEF u, b, S

IsDone(u) ==
  u = [next |-> u.next, left |-> u.left, to |-> u.to, fl |-> u.fl, fusedFl |-> u.fusedFl,
       flush |-> u.flush]

LEMMA ExecutesSlot ==
  ASSUME NEW k \in Slots, NEW before, NEW x, NEW y, NEW flags, NEW done, NEW file,
         NEW u, u = ExecutedSlot(k, before, x, flags, SlotResult(k, x, y, done, file))
  PROVE  /\ IsDone(u) /\ u.left = Longer(before.left, 0)
         /\ \E s : /\ s.valid /\ s.pc = IDEXs[k].pc /\ s.inst = IDEXs[k].inst
                  /\ \/ u.flush = 0 /\ u.next = Longer(before.next, s)
                     \/ u.flush = k /\ u.next = Longer(before.next, IF k > 1 THEN Empty ELSE s)
<1> DEFINE e == IDEXs[k]
           s == SlotResult(k, x, y, done, file)
<1>1. s.valid /\ s.pc = e.pc /\ s.inst = e.inst
  <2> HIDE DEF e
  <2>1. CASE IsFused(e)
    BY <2>1 DEF SlotResult, e
  <2>2. CASE ~IsFused(e) /\ k = 1
    BY <2>2 DEF SlotResult, Result, e
  <2>3. CASE ~IsFused(e) /\ k # 1
    BY <2>3 DEF SlotResult, Result, e
  <2>4. QED
    BY <2>1, <2>2, <2>3
<1> HIDE DEF s, e
<1> DEFINE wrong == Resolves(k) /\ Mispredicted(e, flags, x)
<1>2. /\ IsDone(u)
      /\ u.left = Longer(before.left, 0)
      /\ u.next = Longer(before.next, IF wrong /\ k > 1 THEN Empty ELSE s)
      /\ u.flush = IF wrong THEN k ELSE 0
  BY DEF ExecutedSlot, IsDone, Longer, s, e
<1>3. CASE wrong
  <2>1. u.flush = k /\ u.next = Longer(before.next, IF k > 1 THEN Empty ELSE s)
    BY <1>2, <1>3
  <2>2. QED
    BY <1>1, <1>2, <2>1 DEF e
<1>4. CASE ~wrong
  <2>1. u.flush = 0 /\ u.next = Longer(before.next, s)
    BY <1>2, <1>4
  <2>2. QED
    BY <1>1, <1>2, <2>1 DEF e
<1>5. QED
  BY <1>3, <1>4

LEMMA ExecuteSlotIs ==
  ASSUME NEW k \in Slots, NEW before, IsDone(before), NEW ms, NEW file, NEW stalls,
         NEW u, u = ExecuteSlot(k, before, ms, file, stalls)
  PROVE  /\ IsDone(u)
         /\ \/ /\ ~Begins(k, before, stalls) \/ CyclesLeft(Latencies[k], IDEXs[k]) > 1
               /\ u.next = Longer(before.next, Empty) /\ u.flush = before.flush
               /\ ~Begins(k, before, stalls) => u.left = Longer(before.left, Latencies[k])
               /\ \E l : u.left = Longer(before.left, l)
            \/ /\ Begins(k, before, stalls) /\ ~(CyclesLeft(Latencies[k], IDEXs[k]) > 1)
               /\ u.left = Longer(before.left, 0)
               /\ \E s : /\ s.valid /\ s.pc = IDEXs[k].pc /\ s.inst = IDEXs[k].inst
                        /\ \/ u.flush = 0 /\ u.next = Longer(before.next, s)
                           \/ /\ u.flush = k
                              /\ u.next = Longer(before.next, IF k > 1 THEN Empty ELSE s)
<1> DEFINE cycles == CyclesLeft(Latencies[k], IDEXs[k])
           b == Begins(k, before, stalls)
<1>1. CASE ~b \/ cycles > 1
  <2> DEFINE l == IF b THEN cycles - 1 ELSE Latencies[k]
             c == Cycles(k, before, stalls)
  <2>1. u = LeftEmpty(before, l)
    <3>1. c = IF b THEN cycles ELSE 0
      BY DEF Cycles
    <3>2. u = IF ~b \/ c > 1 THEN LeftEmpty(before, IF b THEN c - 1 ELSE Latencies[k]) ELSE u
      <4> HIDE DEF b, c
      <4>1. QED
        BY DEF ExecuteSlot, b, c
    <3> HIDE DEF b, c, cycles
    <3>3. CASE b
      BY <1>1, <3>1, <3>2, <3>3
    <3>4. CASE ~b
      BY <1>1, <3>1, <3>2, <3>4
    <3>5. QED
      BY <3>3, <3>4
  <2> HIDE DEF l, b, cycles
  <2>2. u = [before EXCEPT !.next = Longer(@, Empty), !.to = Append(@, 0), !.left = Longer(@, l)]
    BY <2>1 DEF LeftEmpty, Longer
  <2>3. /\ IsDone(u) /\ u.next = Longer(before.next, Empty) /\ u.flush = before.flush
        /\ u.left = Longer(before.left, l)
    BY <2>2 DEF IsDone
  <2>4. ~b => l = Latencies[k]
    BY DEF l
  <2>5. QED
    BY <1>1, <2>3, <2>4 DEF b, cycles
<1>2. CASE b /\ ~(cycles > 1)
  <2> DEFINE xs == {Operand(k, IDEXs[k].inst.rn, IDEXs[k].rn, before.next, ms)}
             ys == {Operand(k, IDEXs[k].inst.rm, IDEXs[k].rm, before.next, ms)}
             fs == {IF IsFused(IDEXs[k]) THEN FusedFlags(IDEXs[k])
                    ELSE FlagsFor(k, before.next, before.fl)}
             all == {ExecutedSlot(k, before, x, flags, SlotResult(k, x, y, before.next, file)) :
                       x \in xs, y \in ys, flags \in fs}
  <2>1. u = TheOne(all)
    <3>1. ~(Cycles(k, before, stalls) > 1) /\ b
      BY <1>2 DEF Cycles
    <3>2. QED
      BY <3>1 DEF ExecuteSlot
  <2>2. \E x \in xs, y \in ys, flags \in fs : TRUE
    OBVIOUS
  <2> HIDE DEF xs, ys, fs
  <2>3. PICK x \in xs, y \in ys, flags \in fs :
          u = ExecutedSlot(k, before, x, flags, SlotResult(k, x, y, before.next, file))
    <3>1. all # {}
      BY <2>2
    <3> HIDE DEF all
    <3>2. u \in all
      BY <2>1, <3>1 DEF TheOne
    <3>3. QED
      BY <3>2 DEF all
  <2> HIDE DEF all, b, cycles
  <2>4. /\ IsDone(u) /\ u.left = Longer(before.left, 0)
        /\ \E s : /\ s.valid /\ s.pc = IDEXs[k].pc /\ s.inst = IDEXs[k].inst
                 /\ \/ u.flush = 0 /\ u.next = Longer(before.next, s)
                    \/ u.flush = k /\ u.next = Longer(before.next, IF k > 1 THEN Empty ELSE s)
    BY <2>3, ExecutesSlot
  <2>5. QED
    BY <1>2, <2>4 DEF b, cycles
<1>3. QED
  BY <1>1, <1>2

\* What EX of slots 1 to k leaves: each is empty or holds what it executed, none behind the
\* branch that ends the group, and the first is there when it need not wait.
IsExecutionOf(s, j) ==
  s.valid /\ IDEXs[j].valid /\ s.pc = IDEXs[j].pc /\ s.inst = IDEXs[j].inst
AtOnce == \A j \in Slots : Latencies[j] = 0 /\ (IDEXs[j].valid => CyclesLeft(0, IDEXs[j]) = 1)
ExecutedTo(u, k, stalls) ==
  /\ IsDone(u) /\ IsSequence(u.next, k) /\ IsSequence(u.left, k) /\ u.flush \in 0 .. k
  /\ \A j \in 1 .. k : \/ u.next[j] = Empty
                       \/ IsExecutionOf(u.next[j], j) /\ (u.flush = 0 \/ j < u.flush \/ j = 1)
  /\ 1 <= k /\ idex.valid /\ ~stalls /\ ~ExecStalls => u.next[1].valid
  /\ AtOnce => \A j \in 1 .. k : u.left[j] = 0

LEMMA ExecutesOneMore ==
  ASSUME IDEXs[1] = idex, Latencies[1] = exLatency, NEW k \in Slots, NEW ms, NEW file, NEW stalls,
         NEW before, ExecutedTo(before, k - 1, stalls),
         NEW u, u = ExecuteSlot(k, before, ms, file, stalls)
  PROVE  ExecutedTo(u, k, stalls)
<1>1. k \in 1 .. 8 /\ k - 1 \in Nat /\ (k - 1) + 1 = k
  BY DEF Slots
<1>2. /\ IsDone(before) /\ IsSequence(before.next, k - 1) /\ IsSequence(before.left, k - 1)
      /\ before.flush \in 0 .. k - 1
  BY DEF ExecutedTo
<1> DEFINE b == Begins(k, before, stalls)
           more == CyclesLeft(Latencies[k], IDEXs[k]) > 1
           m == k - 1
<1>3. /\ IsDone(u)
      /\ \/ /\ ~b \/ more
            /\ u.next = Longer(before.next, Empty) /\ u.flush = before.flush
            /\ ~b => u.left = Longer(before.left, Latencies[k])
            /\ \E l : u.left = Longer(before.left, l)
         \/ /\ b /\ ~more
            /\ u.left = Longer(before.left, 0)
            /\ \E s : /\ s.valid /\ s.pc = IDEXs[k].pc /\ s.inst = IDEXs[k].inst
                     /\ \/ u.flush = 0 /\ u.next = Longer(before.next, s)
                        \/ /\ u.flush = k
                           /\ u.next = Longer(before.next, IF k > 1 THEN Empty ELSE s)
  BY <1>2, ExecuteSlotIs
<1>4. b => IDEXs[k].valid /\ before.flush = 0 /\ ~stalls /\ (k = 1 \/ ~ExecStalls)
  BY DEF Begins
<1>5. IDEXs[k].valid /\ AtOnce => ~more /\ Latencies[k] = 0
  BY DEF AtOnce
<1>6. AtOnce => Latencies[k] = 0
  BY DEF AtOnce
<1>7. k = 1 /\ idex.valid /\ ~stalls /\ ~ExecStalls => b /\ ~more
  <2>1. SUFFICES ASSUME k = 1, idex.valid, ~stalls, ~ExecStalls PROVE b /\ ~more
    OBVIOUS
  <2>2. before.flush = 0
    BY <1>2, <2>1
  <2>3. b
    BY <2>1, <2>2 DEF Begins
  <2>4. ~more
    BY <2>1 DEF ExecStalls
  <2>5. QED
    BY <2>3, <2>4
<1> HIDE DEF b, more, m
\* What is appended to next and left.
<1> DEFINE Adds(e, l) == /\ u.next = Longer(before.next, e) /\ u.left = Longer(before.left, l)
                         /\ e = Empty \/ (IsExecutionOf(e, k) /\ b /\ (u.flush = 0 \/ k = 1))
                         /\ u.flush = before.flush \/ (before.flush = 0 /\ u.flush = k)
                         /\ k = 1 /\ idex.valid /\ ~stalls /\ ~ExecStalls => e.valid
                         /\ AtOnce => l = 0
<1>8. \E e, l : Adds(e, l)
  <2>1. CASE ~b \/ more
    <3>1. /\ u.next = Longer(before.next, Empty) /\ u.flush = before.flush
          /\ ~b => u.left = Longer(before.left, Latencies[k])
      BY <1>3, <2>1
    <3>2. PICK l : u.left = Longer(before.left, l)
      BY <1>3, <2>1
    <3>3. CASE b
      BY <1>4, <1>5, <1>7, <2>1, <3>1, <3>2, <3>3
    <3>4. CASE ~b
      BY <1>6, <1>7, <3>1, <3>4
    <3>5. QED
      BY <3>3, <3>4
  <2>2. CASE b /\ ~more
    <3>1. u.left = Longer(before.left, 0)
      BY <1>3, <2>2
    <3>2. PICK s : /\ s.valid /\ s.pc = IDEXs[k].pc /\ s.inst = IDEXs[k].inst
                   /\ \/ u.flush = 0 /\ u.next = Longer(before.next, s)
                      \/ u.flush = k /\ u.next = Longer(before.next, IF k > 1 THEN Empty ELSE s)
      BY <1>3, <2>2
    <3>3. IsExecutionOf(s, k) /\ before.flush = 0
      BY <1>4, <2>2, <3>2 DEF IsExecutionOf
    <3>4. CASE u.flush = 0 /\ u.next = Longer(before.next, s)
      BY <2>2, <3>1, <3>2, <3>3, <3>4
    <3>5. CASE u.flush = k /\ u.next = Longer(before.next, IF k > 1 THEN Empty ELSE s)
      <4>1. CASE k = 1
        BY <2>2, <3>1, <3>2, <3>3, <3>5, <4>1
      <4>2. CASE k > 1
        BY <2>2, <3>1, <3>2, <3>3, <3>5, <4>2
      <4>3. QED
        BY <1>1, <4>1, <4>2
    <3>6. QED
      BY <3>2, <3>4, <3>5
  <2> HIDE DEF Adds
  <2>3. QED
    BY <2>1, <2>2
<1>9. PICK e, l : Adds(e, l)
  <2> HIDE DEF Adds
  <2>1. QED
    BY <1>8
<1>10. /\ IsSequence(u.next, k) /\ u.next[k] = e
       /\ \A j \in 1 .. m : u.next[j] = before.next[j]
  <2>1. IsSequence(before.next, m) /\ m + 1 = k
    BY <1>1, <1>2 DEF m
  <2>2. QED
    BY <1>9, <2>1, LongerIs
<1>11. /\ IsSequence(u.left, k) /\ u.left[k] = l
       /\ \A j \in 1 .. m : u.left[j] = before.left[j]
  <2>1. IsSequence(before.left, m) /\ m + 1 = k
    BY <1>1, <1>2 DEF m
  <2>2. QED
    BY <1>9, <2>1, LongerIs
<1>12. u.flush \in 0 .. k
  BY <1>1, <1>2, <1>9
<1>13. ASSUME NEW j \in 1 .. k
       PROVE  \/ u.next[j] = Empty
              \/ IsExecutionOf(u.next[j], j) /\ (u.flush = 0 \/ j < u.flush \/ j = 1)
  <2>1. CASE j = k
    BY <1>9, <1>10, <2>1
  <2>2. CASE j # k
    <3>1. j \in 1 .. m /\ j < k
      BY <1>1, <2>2 DEF m
    <3>2. \/ before.next[j] = Empty
          \/ IsExecutionOf(before.next[j], j) /\ (before.flush = 0 \/ j < before.flush \/ j = 1)
      BY <3>1 DEF ExecutedTo, m
    <3>3. QED
      BY <1>9, <1>10, <3>1, <3>2
  <2>3. QED
    BY <2>1, <2>2
<1>14. 1 <= k /\ idex.valid /\ ~stalls /\ ~ExecStalls => u.next[1].valid
  <2>1. CASE k = 1
    BY <1>9, <1>10, <2>1
  <2>2. CASE k # 1
    <3>1. 1 \in 1 .. m /\ 1 <= k - 1
      BY <1>1, <2>2 DEF m
    <3>2. idex.valid /\ ~stalls /\ ~ExecStalls => before.next[1].valid
      BY <3>1 DEF ExecutedTo
    <3>3. QED
      BY <1>10, <3>1, <3>2
  <2>3. QED
    BY <2>1, <2>2
<1>15. AtOnce => \A j \in 1 .. k : u.left[j] = 0
  <2>1. SUFFICES ASSUME AtOnce, NEW j \in 1 .. k PROVE u.left[j] = 0
    OBVIOUS
  <2>2. CASE j = k
    BY <1>9, <1>11, <2>1, <2>2
  <2>3. CASE j # k
    <3>1. j \in 1 .. m
      BY <1>1, <2>3 DEF m
    <3>2. before.left[j] = 0
      BY <2>1, <3>1 DEF ExecutedTo, m
    <3>3. QED
      BY <1>11, <3>1, <3>2
  <2>4. QED
    BY <2>2, <2>3
<1>16. QED
  BY <1>3, <1>10, <1>11, <1>12, <1>13, <1>14, <1>15 DEF ExecutedTo

LEMMA ExecutedAll ==
  ASSUME IDEXs[1] = idex, Latencies[1] = exLatency, NEW ms, NEW file, NEW stalls
  PROVE  ExecutedTo(ExecutedUpTo(ms, file, stalls), 8, stalls)
<1> DEFINE f == Executing(ms, file, stalls)
           T == {k \in Nat : k <= 8 => ExecutedTo(f[k], k, stalls)}
<1>1. f[0] = NoneExecuted /\ \A k \in 1 .. 8 : f[k] = ExecuteSlot(k, f[k - 1], ms, file, stalls)
  BY ExecutingIs
<1> HIDE DEF f
<1>2. ExecutedTo(NoneExecuted, 0, stalls)
  <2>1. IsSequence(<< >>, 0)
    BY DEF IsSequence
  <2>2. QED
    BY <2>1 DEF ExecutedTo, NoneExecuted, IsDone
<1>3. 0 \in T
  BY <1>1, <1>2
<1>4. ASSUME NEW k \in T PROVE k + 1 \in T
  <2>1. SUFFICES ASSUME k + 1 <= 8 PROVE ExecutedTo(f[k + 1], k + 1, stalls)
    OBVIOUS
  <2> DEFINE n == k + 1
  <2>2. n \in Slots /\ n - 1 = k /\ k <= 8
    BY <2>1 DEF Slots
  <2>3. f[n] = ExecuteSlot(n, f[n - 1], ms, file, stalls)
    BY <1>1, <2>2 DEF Slots
  <2>4. ExecutedTo(f[n - 1], n - 1, stalls)
    BY <2>2
  <2> HIDE DEF n
  <2>5. ExecutedTo(f[n], n, stalls)
    BY <2>2, <2>3, <2>4, ExecutesOneMore
  <2>6. QED
    BY <2>5 DEF n
<1> HIDE DEF T
<1>5. T = Nat
  <2>1. T \in SUBSET Nat
    BY DEF T
  <2>2. QED
    BY <1>3, <1>4, <2>1, Upwards
<1>6. ExecutedTo(f[8], 8, stalls)
  <2>1. 8 \in T
    BY <1>5
  <2>2. QED
    BY <2>1 DEF T
<1>7. QED
  BY <1>6, ExecutedIs DEF f

\* No instruction of slots 2 to 8 is lost in EX for needing another cycle.
NoSlotIsLost == "slot lost" \in Avoid
NoneDropped(exec) ==
  \A k \in 2 .. 8 : IDEXs[k].valid /\ exec.flush \notin 1 .. k => exec.next[k].valid

LEMMA NoneLost ==
  ASSUME NEW exec, NEW held, ~held /\ WideHazards(exec, held) \cap Avoid = {}, NoSlotIsLost
  PROVE  NoneDropped(exec)
<1>1. SUFFICES ASSUME NEW k \in 2 .. 8, IDEXs[k].valid, exec.flush \notin 1 .. k,
                      ~exec.next[k].valid
               PROVE  FALSE
  BY DEF NoneDropped
<1>2. k \in Occupied(IDEXs) /\ k > 1
  <2>1. k \in Slots /\ k > 1
    BY LaterSlots
  <2>2. QED
    BY <1>1, <2>1 DEF Occupied
<1>3. "slot lost" \in SlotHazards(k, exec, held)
  BY <1>1, <1>2 DEF SlotHazards
<1>4. "slot lost" \in UNION {SlotHazards(j, exec, held) : j \in Occupied(IDEXs)}
  BY <1>2, <1>3
<1>5. "slot lost" \in WideHazards(exec, held)
  BY <1>4 DEF WideHazards
<1>6. QED
  BY <1>5 DEF NoSlotIsLost

LEMMA NextEXMEMsInOrder ==
  ASSUME NEW p, InOrder(p, IDEXs), NEW exec, NEW stalls, ExecutedTo(exec, 8, stalls),
         ~stalls, ~ExecStalls, IDEXs[1] = idex, NoneDropped(exec)
  PROVE  InOrder(p, exec.next)
<1> DEFINE t == exec.next
<1>1. IsSequence(t, 8)
  BY DEF ExecutedTo
<1>2. \A k \in Slots : \/ t[k] = Empty
                       \/ IsExecutionOf(t[k], k) /\ (exec.flush = 0 \/ k < exec.flush \/ k = 1)
  BY DEF ExecutedTo, Slots
<1>3. \A k \in Slots : \/ t[k] = Empty
                       \/ /\ IDEXs[k].valid /\ t[k].valid
                          /\ t[k].pc = IDEXs[k].pc /\ t[k].inst = IDEXs[k].inst
  BY <1>2 DEF IsExecutionOf
<1>4. ASSUME NEW k \in 2 .. 8, t[k].valid PROVE t[k - 1].valid
  <2>1. k \in Slots /\ k - 1 \in 1 .. 7 /\ t[k] # Empty
    BY <1>4, EmptyIsNot DEF Slots
  <2>2. IDEXs[k].valid /\ (exec.flush = 0 \/ k < exec.flush \/ k = 1)
    BY <1>2, <2>1 DEF IsExecutionOf
  <2>3. IDEXs[k - 1].valid
    BY <2>2 DEF InOrder
  <2>4. CASE k = 2
    <3>1. idex.valid /\ k - 1 = 1
      BY <2>3, <2>4
    <3>2. QED
      BY <3>1 DEF ExecutedTo
  <2>5. CASE k # 2
    <3>1. k - 1 \in 2 .. 8 /\ exec.flush \notin 1 .. k - 1
      BY <2>2, <2>5 DEF ExecutedTo
    <3>2. QED
      BY <2>3, <3>1 DEF NoneDropped
  <2>6. QED
    BY <2>4, <2>5
<1>5. QED
  <2> HIDE DEF t
  <2>1. InOrder(p, t)
    BY <1>1, <1>3, <1>4, SameOrder
  <2>2. QED
    BY <2>1 DEF t

---------------------------------------------------------------------------
(* ID.                                                                     *)

LEMMA MinIs ==
  ASSUME NEW T \in SUBSET Nat, T # {}
  PROVE  Min(T) \in T /\ \A x \in T : Min(T) <= x
<1>1. \E x \in T : \A y \in T : x <= y
  BY Least
<1>2. QED
  BY <1>1 DEF Min

\* What issues was fetched, in every slot before the last that issues.
LEMMA IssueCountIs ==
  ASSUME IFIDs[1] = ifid
  PROVE  /\ IssueCount \in 0 .. 8
         /\ Fuses => IssueCount = 1
         /\ \A k \in Slots : k <= IssueCount => IFIDs[k].valid
<1> DEFINE refused == {k \in 2 .. 8 : ~Joins(k)}
           n == IF ~ifid.valid THEN 0
                ELSE IF Fuses THEN 1
                ELSE IF refused = {} THEN 8 ELSE Min(refused) - 1
<1>1. IssueCount = n
  BY DEF IssueCount
<1>2. Fuses => ifid.valid
  BY DEF Fuses
<1>3. \A k \in 2 .. 8 : k \notin refused => IFIDs[k].valid
  BY DEF Joins
<1>4. refused # {} => Min(refused) \in 2 .. 8 /\ \A k \in 2 .. 8 : k < Min(refused) => k \notin refused
  <2>1. SUFFICES ASSUME refused # {}
                 PROVE  Min(refused) \in 2 .. 8 /\ \A k \in 2 .. 8 : k < Min(refused) => k \notin refused
    OBVIOUS
  <2>2. refused \in SUBSET Nat /\ \A k \in refused : k \in 2 .. 8
    OBVIOUS
  <2> DEFINE m == Min(refused)
  <2> HIDE DEF refused
  <2>3. m \in refused /\ \A k \in refused : m <= k
    BY <2>1, <2>2, MinIs
  <2> HIDE DEF m
  <2>4. m \in 2 .. 8 /\ \A k \in 2 .. 8 : k < m => k \notin refused
    BY <2>2, <2>3
  <2>5. QED
    BY <2>4 DEF m
<1> HIDE DEF refused
<1>5. n \in 0 .. 8 /\ (Fuses => n = 1)
  BY <1>2, <1>4
<1>6. ASSUME NEW k \in Slots, k <= n PROVE IFIDs[k].valid
  <2>1. ifid.valid
    BY <1>6 DEF Slots
  <2>2. CASE k = 1
    BY <2>1, <2>2
  <2>3. CASE k # 1
    <3>1. k \in 2 .. 8
      BY <2>3 DEF Slots
    <3>2. k \notin refused
      <4>1. ~Fuses
        BY <1>6, <2>1, <3>1
      <4>2. refused = {} \/ k <= Min(refused) - 1
        BY <1>6, <2>1, <4>1
      <4>3. QED
        BY <1>4, <3>1, <4>2
    <3>3. QED
      BY <1>3, <3>1, <3>2
  <2>4. QED
    BY <2>2, <2>3
<1> HIDE DEF n
<1>7. QED
  BY <1>1, <1>5, <1>6

LEMMA NextIDEXsInOrder ==
  ASSUME NEW p, InOrder(p, IFIDs), IFIDs[1] = ifid, IFIDs[2] = ifid2, NEW file
  PROVE  InOrder(p, NextIDEXs(IssueCount, file))
<1> DEFINE n == IssueCount
           d == NextIDEXs(n, file)
<1>1. n \in 0 .. 8 /\ (Fuses => n = 1) /\ \A k \in Slots : k <= n => IFIDs[k].valid
  BY IssueCountIs
<1> HIDE DEF n
<1>2. IsSequence(d, 8)
  BY DEF NextIDEXs, IsSequence, Slots
<1>3. \A k \in Slots : d[k] = IF k > n THEN Empty
                              ELSE IF Fuses THEN FusedDecode(file) ELSE Decoded(IFIDs[k], file)
  BY DEF NextIDEXs
<1> HIDE DEF d
<1>4. CASE Fuses
  <2>1. d[1] = FusedDecode(file) /\ \A k \in 2 .. 8 : d[k] = Empty
    BY <1>1, <1>3, <1>4 DEF Slots
  <2>2. d[1].valid /\ d[1].pc = ifid2.pc /\ d[1].inst = ifid2.inst
    BY <2>1 DEF FusedDecode, Decoded
  <2>3. ifid2.valid
    BY <1>4 DEF Fuses
  <2>4. ifid2.inst = InstAt(p, ifid2.pc)
    <3>1. Holds(p, ifid2) /\ ifid2 # Empty
      BY <2>3, EmptyIsNot DEF InOrder, Slots
    <3>2. QED
      BY <3>1 DEF Holds
  <2>5. Holds(p, d[1])
    BY <2>2, <2>4 DEF Holds
  <2>6. \A k \in Slots : Holds(p, d[k])
    BY <2>1, <2>5 DEF Holds, Slots
  <2>7. \A k \in 2 .. 8 : ~d[k].valid
    BY <2>1, EmptyIsNot
  <2>8. QED
    BY <1>2, <2>6, <2>7 DEF InOrder, d, n
<1>5. CASE ~Fuses
  <2>1. ASSUME NEW k \in Slots
        PROVE  \/ d[k] = Empty /\ k > n
               \/ /\ k <= n /\ IFIDs[k].valid /\ d[k].valid
                  /\ d[k].pc = IFIDs[k].pc /\ d[k].inst = IFIDs[k].inst
    <3>1. CASE k > n
      BY <1>3, <3>1
    <3>2. CASE k <= n
      <4>1. d[k] = Decoded(IFIDs[k], file)
        BY <1>1, <1>3, <1>5, <3>2 DEF Slots
      <4>2. QED
        BY <1>1, <3>2, <4>1 DEF Decoded
    <3>3. QED
      BY <1>1, <3>1, <3>2 DEF Slots
  <2>2. \A k \in Slots : \/ d[k] = Empty
                         \/ /\ IFIDs[k].valid /\ d[k].valid
                            /\ d[k].pc = IFIDs[k].pc /\ d[k].inst = IFIDs[k].inst
    BY <2>1
  <2>3. ASSUME NEW k \in 2 .. 8, d[k].valid PROVE d[k - 1].valid
    <3>1. k \in Slots /\ k - 1 \in Slots
      BY DEF Slots
    <3>2. k <= n
      BY <2>1, <2>3, <3>1, EmptyIsNot
    <3>3. ~(k - 1 > n)
      BY <1>1, <3>2
    <3>4. QED
      BY <2>1, <3>1, <3>3
  <2>4. InOrder(p, d)
    BY <1>2, <2>2, <2>3, SameOrder
  <2>5. QED
    BY <2>4 DEF d, n
<1>6. QED
  BY <1>4, <1>5

---------------------------------------------------------------------------
(* IF of the wide machines.                                                *)

\* The slots 1 to n hold a stretch of a path that goes on at q.
InstructionOf(p, s) == s.valid /\ s.inst = InstAt(p, s.pc)
Stretch(p, s, n, q) ==
  /\ IsSequence(s, n)
  /\ \A k \in 1 .. n : InstructionOf(p, s[k])
  /\ \A k \in 2 .. n : Behind(p, s[k - 1], s[k])
  /\ n > 0 => Towards(p, s[n], q)

\* The last instruction of the stage goes on at q.
LastLeads(p, stage, q) ==
  \A k \in Slots : stage[k].valid /\ (k = 8 \/ ~stage[k + 1].valid) => Towards(p, stage[k], q)

LEMMA GuessesLead ==
  ASSUME NEW p, NEW n, NEW i, NEW g \in Guesses(n, i), NEW s, s.pc = n, s.inst = i
  PROVE  Towards(p, s, g.next)
<1>1. \/ g.next = Wrap(n + 1)
      \/ i.op \in {"BL", "BEQ", "BCS", "CBZ"} /\ g.next = i.imm
      \/ i.op = "RET"
  <2>1. CASE i.op = "BL"
    BY <2>1 DEF Guesses
  <2>2. CASE i.op \in {"BEQ", "BCS", "CBZ"}
    BY <2>2 DEF Guesses
  <2>3. CASE i.op \notin {"BL", "BEQ", "BCS", "CBZ", "RET"}
    BY <2>3 DEF Guesses
  <2>4. QED
    BY <2>1, <2>2, <2>3
<1>2. QED
  BY <1>1 DEF Towards

LEMMA GuessesExist ==
  ASSUME NEW n, NEW i
  PROVE  \E g : g \in Guesses(n, i)
<1>1. CASE i.op = "BL"
  BY <1>1 DEF Guesses
<1>2. CASE i.op \in {"BEQ", "BCS", "CBZ"}
  BY <1>2 DEF Guesses
<1>3. CASE i.op = "RET"
  BY <1>3 DEF Guesses
<1>4. CASE i.op \notin {"BL", "BEQ", "BCS", "CBZ", "RET"}
  BY <1>4 DEF Guesses
<1>5. QED
  BY <1>1, <1>2, <1>3, <1>4

LEMMA Predicts ==
  ASSUME NEW g \in Predictors, NEW n
  PROVE  Predict(g, n) \in Guesses(n, InstAt(prog, n))
<1>1. DOMAIN g = Open /\ \A m \in Open : g[m] \in Guesses(m, prog[m])
  BY DEF Predictors
<1>2. CASE n \in Open
  <2>1. InstAt(prog, n) = prog[n]
    BY <1>2 DEF Open, InstAt
  <2>2. QED
    BY <1>1, <1>2, <2>1 DEF Predict
<1>3. CASE n \notin Open
  <2>1. Predict(g, n) = CHOOSE a \in Guesses(n, InstAt(prog, n)) : TRUE
    BY <1>1, <1>3 DEF Predict
  <2>2. QED
    BY <2>1, GuessesExist
<1>4. QED
  BY <1>2, <1>3

\* The first so many slots of a stage in order are occupied, and only these.
LEMMA OccupiedIs ==
  ASSUME NEW p, NEW s, InOrder(p, s)
  PROVE  /\ Cardinality(Occupied(s)) \in 0 .. 8
         /\ \A k \in Slots : s[k].valid <=> k <= Cardinality(Occupied(s))
<1> DEFINE v(k) == s[k].valid
           free == {k \in Slots : ~v(k)}
<1>1. \A k \in 2 .. 8 : v(k) => v(k - 1)
  BY DEF InOrder
<1> HIDE DEF v
<1>2. \E n \in 0 .. 8 : \A k \in Slots : v(k) <=> k <= n
  <2>1. CASE free = {}
    <3>1. \A k \in Slots : v(k) <=> k <= 8
      BY <2>1 DEF Slots
    <3>2. QED
      BY <3>1
  <2>2. CASE free # {}
    <3>1. free \in SUBSET Nat
      BY DEF Slots
    <3>2. PICK m \in free : \A k \in free : m <= k
      BY <2>2, <3>1, Least
    <3>3. m \in 1 .. 8 /\ ~v(m) /\ \A k \in 1 .. m - 1 : v(k)
      BY <3>2 DEF Slots
    <3> DEFINE above == {k \in Slots : k > m /\ v(k)}
    <3>4. above = {}
      <4>1. SUFFICES ASSUME above # {} PROVE FALSE
        OBVIOUS
      <4>2. above \in SUBSET Nat
        BY DEF Slots
      <4>3. PICK x \in above : \A k \in above : x <= k
        BY <4>1, <4>2, Least
      <4>4. x \in 2 .. 8 /\ v(x) /\ x - 1 >= m
        BY <3>3, <4>3 DEF Slots
      <4>5. v(x - 1) /\ x - 1 \in Slots
        BY <1>1, <4>4 DEF Slots
      <4>6. x - 1 # m
        BY <3>3, <4>5
      <4>7. x - 1 \in above
        BY <3>3, <4>4, <4>5, <4>6
      <4>8. QED
        BY <4>3, <4>4, <4>7
    <3>5. ASSUME NEW k \in Slots PROVE v(k) <=> k <= m - 1
      <4>1. CASE k <= m - 1
        BY <3>3, <4>1 DEF Slots
      <4>2. CASE k = m
        BY <3>3, <4>2
      <4>3. CASE k > m
        BY <3>3, <3>4, <4>3 DEF Slots
      <4>4. QED
        BY <3>3, <4>1, <4>2, <4>3 DEF Slots
    <3>6. m - 1 \in 0 .. 8
      BY <3>3
    <3>7. QED
      BY <3>5, <3>6
  <2>3. QED
    BY <2>1, <2>2
<1>3. PICK n \in 0 .. 8 : \A k \in Slots : v(k) <=> k <= n
  BY <1>2
<1>4. Occupied(s) = 1 .. n
  <2>1. Occupied(s) = {k \in Slots : v(k)}
    BY DEF Occupied, v
  <2>2. QED
    BY <1>3, <2>1 DEF Slots
<1>5. Cardinality(Occupied(s)) = n
  <2>1. Cardinality(1 .. n) = IF 1 > n THEN 0 ELSE n - 1 + 1
    BY FS_Interval
  <2>2. QED
    BY <1>4, <2>1
<1>6. QED
  BY <1>3, <1>5 DEF v

\* The registers of IF/ID: in order, no more than the machine has, and fetch goes on
\* behind the last.
FetchedInOrder ==
  /\ InOrder(prog, IFIDs) /\ LastLeads(prog, IFIDs, pc)
  /\ IFIDs[1] = ifid /\ IFIDs[2] = ifid2
  /\ \A k \in Slots : k > Machine.width => IFIDs[k] = Empty

LEMMA HoldsInstruction ==
  ASSUME NEW p, NEW s, Holds(p, s), s.valid
  PROVE  InstructionOf(p, s)
<1>1. s # Empty
  BY EmptyIsNot
<1>2. QED
  BY <1>1 DEF Holds, InstructionOf

LEMMA NotIssuedIs ==
  ASSUME FetchedInOrder, ~LeavesPath(IssueCount), Machine.width \in 0 .. 8
  PROVE  \E m \in Nat : m <= Machine.width /\ Stretch(prog, NotIssued(IssueCount), m, pc)
<1> DEFINE N == Cardinality(Occupied(IFIDs))
           c == Consumed(IssueCount)
           left == Cut(IFIDs, c, N)
<1>1. N \in 0 .. 8 /\ \A k \in Slots : IFIDs[k].valid <=> k <= N
  BY OccupiedIs DEF FetchedInOrder
<1>2. N <= Machine.width
  <2>1. CASE N = 0
    BY <2>1
  <2>2. CASE N # 0
    <3>1. N \in Slots /\ IFIDs[N].valid
      BY <1>1, <2>2 DEF Slots
    <3>2. IFIDs[N] # Empty
      BY <3>1, EmptyIsNot
    <3>3. ~(N > Machine.width)
      BY <3>1, <3>2 DEF FetchedInOrder
    <3>4. QED
      BY <1>1, <3>3
  <2>3. QED
    BY <2>1, <2>2
<1>3. c \in 0 .. N
  <2>1. /\ IssueCount \in 0 .. 8 /\ (Fuses => IssueCount = 1)
        /\ \A k \in Slots : k <= IssueCount => IFIDs[k].valid
    BY IssueCountIs DEF FetchedInOrder
  <2>2. IssueCount <= N
    <3>1. CASE IssueCount = 0
      BY <1>1, <3>1
    <3>2. CASE IssueCount # 0
      <4>1. IssueCount \in Slots
        BY <2>1, <3>2 DEF Slots
      <4>2. QED
        BY <1>1, <2>1, <4>1
    <3>3. QED
      BY <3>1, <3>2
  <2>3. CASE Fuses
    <3>1. 2 \in Slots /\ IFIDs[2].valid
      BY <2>3 DEF Fuses, Slots, FetchedInOrder
    <3>2. QED
      BY <1>1, <2>1, <2>3, <3>1 DEF Consumed
  <2>4. CASE ~Fuses
    BY <1>1, <2>1, <2>2, <2>4 DEF Consumed
  <2>5. QED
    BY <2>3, <2>4
<1>4. NotIssued(IssueCount) = left
  BY DEF NotIssued, Cut
<1> HIDE DEF c, N
<1> DEFINE m == N - c
<1>5. IsSequence(left, m) /\ \A k \in 1 .. m : left[k] = IFIDs[c + k]
  <2> DEFINE n == 8
  <2>1. IsSequence(IFIDs, n) /\ c \in Nat /\ N \in 0 .. n
    BY <1>1, <1>3 DEF FetchedInOrder, InOrder
  <2> HIDE DEF n
  <2>2. /\ IsSequence(Cut(IFIDs, c, N), IF c <= N THEN N - c ELSE 0)
        /\ \A k \in 1 .. N - c : Cut(IFIDs, c, N)[k] = IFIDs[c + k]
    BY <2>1, CutIs
  <2>3. QED
    BY <1>1, <1>3, <2>2
<1> HIDE DEF left
<1>6. m \in Nat /\ m <= Machine.width
  BY <1>1, <1>2, <1>3
<1>7. \A k \in 1 .. m : c + k \in Slots /\ IFIDs[c + k].valid
  BY <1>1, <1>3 DEF Slots
<1>8. \A k \in 1 .. m : InstructionOf(prog, left[k])
  <2>1. ASSUME NEW k \in 1 .. m PROVE InstructionOf(prog, left[k])
    <3>1. Holds(prog, IFIDs[c + k])
      BY <1>7 DEF FetchedInOrder, InOrder
    <3>2. QED
      BY <1>5, <1>7, <3>1, HoldsInstruction
  <2>2. QED
    BY <2>1
<1>9. \A k \in 2 .. m : Behind(prog, left[k - 1], left[k])
  <2>1. ASSUME NEW k \in 2 .. m PROVE Behind(prog, left[k - 1], left[k])
    <3> DEFINE j == c + k
    <3>1. j \in 2 .. 8 /\ IFIDs[j].valid /\ j - 1 = c + (k - 1)
      BY <1>1, <1>3, <1>7 DEF Slots
    <3>2. Behind(prog, IFIDs[j - 1], IFIDs[j])
      BY <3>1 DEF FetchedInOrder, InOrder
    <3>3. left[k] = IFIDs[j] /\ left[k - 1] = IFIDs[j - 1]
      BY <1>5, <1>6, <3>1
    <3>4. QED
      BY <3>2, <3>3
  <2>2. QED
    BY <2>1
<1>10. m > 0 => Towards(prog, left[m], pc)
  <2>1. SUFFICES ASSUME m > 0 PROVE Towards(prog, left[m], pc)
    OBVIOUS
  <2>2. left[m] = IFIDs[N] /\ N \in Slots /\ IFIDs[N].valid
    BY <1>1, <1>3, <1>5, <1>6, <1>7, <2>1 DEF Slots
  <2>3. N = 8 \/ ~IFIDs[N + 1].valid
    BY <1>1, <2>2 DEF Slots
  <2>4. QED
    BY <2>2, <2>3 DEF FetchedInOrder, LastLeads
<1> HIDE DEF m
<1>11. Stretch(prog, left, m, pc)
  BY <1>5, <1>8, <1>9, <1>10 DEF Stretch
<1>12. QED
  BY <1>4, <1>6, <1>11

LEMMA NothingIsAStretch ==
  ASSUME NEW q
  PROVE  Stretch(prog, << >>, 0, q)
  BY DEF Stretch, IsSequence

\* Predicted again, the instructions are the same.
LEMMA PredictedAgainIs ==
  ASSUME NEW left, NEW m, NEW q, Stretch(prog, left, m, q), NEW g \in Predictors
  PROVE  /\ Stretch(prog, PredictedAgain(left, g), m, q)
         /\ \A k \in 1 .. m : Towards(prog, PredictedAgain(left, g)[k],
                                      PredictedAgain(left, g)[k].guess.next)
<1> DEFINE again == PredictedAgain(left, g)
<1>1. m \in Nat /\ IsSequence(left, m) /\ DOMAIN left = 1 .. m
  BY SequenceFacts DEF Stretch, IsSequence
<1>2. IsSequence(again, m)
  BY <1>1 DEF PredictedAgain, IsSequence
<1>3. \A k \in 1 .. m : again[k] = Fetched(left[k].pc, left[k].inst, Predict(g, left[k].pc))
  BY <1>1 DEF PredictedAgain
<1> HIDE DEF again
<1>4. \A k \in 1 .. m : /\ again[k].valid /\ again[k].pc = left[k].pc /\ again[k].inst = left[k].inst
                        /\ again[k].guess = Predict(g, left[k].pc)
  <2>1. ASSUME NEW k \in 1 .. m
        PROVE  /\ again[k].valid /\ again[k].pc = left[k].pc /\ again[k].inst = left[k].inst
               /\ again[k].guess = Predict(g, left[k].pc)
    <3> DEFINE x == Predict(g, left[k].pc)
    <3>1. again[k] = Fetched(left[k].pc, left[k].inst, x)
      BY <1>3
    <3> HIDE DEF x
    <3>2. again[k].valid /\ again[k].pc = left[k].pc /\ again[k].inst = left[k].inst
          /\ again[k].guess = x
      BY <3>1 DEF Fetched
    <3>3. QED
      BY <3>2 DEF x
  <2>2. QED
    BY <2>1
<1>5. \A k \in 1 .. m : left[k].inst = InstAt(prog, left[k].pc)
  BY DEF Stretch, InstructionOf
<1>6. \A k \in 1 .. m : InstructionOf(prog, again[k])
  BY <1>4, <1>5 DEF InstructionOf
<1>7. \A k \in 2 .. m : Behind(prog, again[k - 1], again[k])
  <2>1. ASSUME NEW k \in 2 .. m PROVE Behind(prog, again[k - 1], again[k])
    <3>1. k \in 1 .. m /\ k - 1 \in 1 .. m
      BY <1>1
    <3>2. Behind(prog, left[k - 1], left[k])
      BY DEF Stretch
    <3>3. QED
      BY <1>4, <3>1, <3>2 DEF Behind
  <2>2. QED
    BY <2>1
<1>8. m > 0 => Towards(prog, again[m], q)
  <2>1. SUFFICES ASSUME m > 0 PROVE Towards(prog, again[m], q)
    OBVIOUS
  <2>2. Towards(prog, left[m], q) /\ m \in 1 .. m
    BY <1>1, <2>1 DEF Stretch
  <2>3. again[m].pc = left[m].pc /\ again[m].inst = left[m].inst
    BY <1>4, <2>2
  <2>4. QED
    BY <2>2, <2>3 DEF Towards
<1>9. \A k \in 1 .. m : Towards(prog, again[k], again[k].guess.next)
  <2>1. ASSUME NEW k \in 1 .. m PROVE Towards(prog, again[k], again[k].guess.next)
    <3>1. again[k].guess \in Guesses(left[k].pc, left[k].inst)
      BY <1>4, <1>5, Predicts
    <3>2. QED
      BY <1>4, <3>1, GuessesLead
  <2>2. QED
    BY <2>1
<1>10. Stretch(prog, again, m, q)
  BY <1>2, <1>6, <1>7, <1>8 DEF Stretch
<1>11. QED
  BY <1>9, <1>10 DEF again

\* The first slots of a stretch are one, which goes on where its last instruction does.
LEMMA FirstOfStretch ==
  ASSUME NEW s, NEW m, NEW q, Stretch(prog, s, m, q), NEW n \in 0 .. m, NEW r,
         n > 0 => Towards(prog, s[n], r)
  PROVE  Stretch(prog, Cut(s, 0, n), n, r)
<1> DEFINE a == 0
           t == Cut(s, a, n)
<1>1. m \in Nat /\ n \in Nat /\ IsSequence(s, m) /\ n <= m
  BY DEF Stretch, IsSequence
<1>2. IsSequence(t, n) /\ \A k \in 1 .. n : t[k] = s[k]
  <2>1. a \in Nat /\ n \in 0 .. m /\ (a <= n) /\ n - a = n /\ \A k \in 1 .. n : a + k = k
    BY <1>1
  <2> HIDE DEF a
  <2>2. /\ IsSequence(Cut(s, a, n), IF a <= n THEN n - a ELSE 0)
        /\ \A k \in 1 .. n - a : Cut(s, a, n)[k] = s[a + k]
    BY <1>1, <2>1, CutIs
  <2>3. QED
    BY <2>1, <2>2
<1> HIDE DEF t
<1>3. \A k \in 1 .. n : InstructionOf(prog, t[k])
  BY <1>1, <1>2 DEF Stretch
<1>4. \A k \in 2 .. n : Behind(prog, t[k - 1], t[k])
  <2>1. ASSUME NEW k \in 2 .. n PROVE Behind(prog, t[k - 1], t[k])
    <3>1. k \in 1 .. n /\ k - 1 \in 1 .. n /\ k \in 2 .. m
      BY <1>1
    <3>2. Behind(prog, s[k - 1], s[k])
      BY <3>1 DEF Stretch
    <3>3. QED
      BY <1>2, <3>1, <3>2
  <2>2. QED
    BY <2>1
<1>5. n > 0 => Towards(prog, t[n], r)
  BY <1>1, <1>2
<1>6. QED
  BY <1>2, <1>3, <1>4, <1>5 DEF Stretch, t

LEMMA MovedIs ==
  ASSUME FetchedInOrder, Machine.width \in 0 .. 8, NEW g \in Predictors,
         NEW left, left = NotIssued(IssueCount), NEW again, again = PredictedAgain(left, g),
         NEW moved, moved = Moved(IssueCount, left, again)
  PROVE  /\ moved = [slots |-> moved.slots, pc |-> moved.pc, strays |-> moved.strays]
         /\ \E m \in Nat : m <= Machine.width /\ Stretch(prog, moved.slots, m, moved.pc)
<1> DEFINE leaves == LeavesPath(IssueCount)
           q == IF leaves THEN IFIDs[IssueCount].guess.target ELSE pc
           leaving == {n \in DOMAIN again : Redirects(again[n].guess)}
           kept == IF leaving = {} THEN Len(again) ELSE Min(leaving)
           strays == \E n \in 1 .. kept : Redirects(left[n].guess) /\ ~Redirects(again[n].guess)
           to == CASE leaving # {} -> again[kept].guess.next
                   [] leaving = {} /\ leaves -> IFIDs[IssueCount].guess.target
                   [] OTHER -> pc
<1>1. \E m \in Nat : m <= Machine.width /\ Stretch(prog, left, m, q)
  <2>1. CASE leaves
    <3>1. left = << >>
      BY <2>1 DEF NotIssued
    <3> HIDE DEF q, leaves
    <3>2. Stretch(prog, left, 0, q)
      BY <3>1, NothingIsAStretch
    <3>3. QED
      BY <3>2
  <2>2. CASE ~leaves
    BY <2>2, NotIssuedIs
  <2>3. QED
    BY <2>1, <2>2
<1>2. PICK m \in Nat : m <= Machine.width /\ Stretch(prog, left, m, q)
  BY <1>1
<1> DEFINE first == SubSeq(again, 1, kept)
<1>3. moved = [slots |-> first, pc |-> to, strays |-> strays]
  BY DEF Moved
<1> HIDE DEF strays, q
<1>4. /\ Stretch(prog, again, m, q)
      /\ \A k \in 1 .. m : Towards(prog, again[k], again[k].guess.next)
  BY <1>2, PredictedAgainIs
<1>5. DOMAIN again = 1 .. m /\ Len(again) = m
  BY <1>4, SequenceFacts DEF Stretch
<1>6. to = IF leaving # {} THEN again[kept].guess.next ELSE q
  BY DEF q
<1> HIDE DEF leaves, to
<1>7. kept \in 0 .. m /\ (leaving # {} => kept \in 1 .. m) /\ (leaving = {} => kept = m)
  <2>1. CASE leaving = {}
    BY <1>5, <2>1
  <2>2. CASE leaving # {}
    <3>1. leaving \in SUBSET Nat /\ \A n \in leaving : n \in 1 .. m
      BY <1>5
    <3> HIDE DEF leaving
    <3>2. Min(leaving) \in leaving
      BY <2>2, <3>1, MinIs
    <3>3. kept \in 1 .. m
      BY <2>2, <3>1, <3>2
    <3>4. QED
      BY <2>2, <3>3
  <2>3. QED
    BY <2>1, <2>2
<1> HIDE DEF leaving, kept
<1>8. kept > 0 => Towards(prog, again[kept], to)
  <2>1. CASE leaving = {}
    <3>1. to = q /\ kept = m
      BY <1>6, <1>7, <2>1
    <3>2. QED
      BY <1>4, <3>1 DEF Stretch
  <2>2. CASE leaving # {}
    BY <1>4, <1>6, <1>7, <2>2
  <2>3. QED
    BY <2>1, <2>2
<1>9. Stretch(prog, Cut(again, 0, kept), kept, to)
  BY <1>4, <1>7, <1>8, FirstOfStretch
<1>10. moved.slots = Cut(again, 0, kept) /\ moved.pc = to
  <2>1. 0 + 1 = 1
    OBVIOUS
  <2>2. Cut(again, 0, kept) = first
    BY <2>1, Zenon DEF Cut
  <2> HIDE DEF first
  <2>3. moved.slots = first /\ moved.pc = to
    BY <1>3
  <2>4. QED
    BY <2>2, <2>3
<1>11. kept \in Nat /\ kept <= Machine.width
  BY <1>2, <1>7
<1>12. moved = [slots |-> moved.slots, pc |-> moved.pc, strays |-> moved.strays]
  BY <1>3
<1>13. QED
  BY <1>9, <1>10, <1>11, <1>12

\* One step of Filled.
NextAt(f) == IF f.pc = Modulus THEN Modulus ELSE Follow(prog, f.pc)
FetchSlot(f, g) ==
  [slots |-> Append(f.slots, Fetched(NextAt(f), InstAt(prog, NextAt(f)), Predict(g, NextAt(f)))),
   pc |-> Predict(g, NextAt(f)).next]
FillSlot(f, g) ==
  IF Len(f.slots) = Machine.width THEN f
  ELSE IF NextAt(f) = Modulus THEN [f EXCEPT !.pc = Modulus]
  ELSE FetchSlot(f, g)
Moving(moved) == [slots |-> moved.slots, pc |-> moved.pc]
Filling(moved, g) ==
  CHOOSE f : f = [n \in 0 .. 8 |-> IF n = 0 THEN Moving(moved) ELSE FillSlot(f[n - 1], g)]
Padding == [k \in 1 .. 8 - Machine.width |-> Empty]

LEMMA FilledIs ==
  ASSUME NEW moved, NEW g
  PROVE  Filled(moved, g) = [Filling(moved, g)[8] EXCEPT !.slots = @ \o Padding]
  BY DEF Filled, Filling, FillSlot, FetchSlot, NextAt, Moving, Padding

LEMMA FillingIs ==
  ASSUME NEW moved, NEW g
  PROVE  /\ Filling(moved, g)[0] = Moving(moved)
         /\ \A n \in 1 .. 8 : Filling(moved, g)[n] = FillSlot(Filling(moved, g)[n - 1], g)
<1> DEFINE S(u) == FillSlot(u, g)
           b == Moving(moved)
           Is(f, m) == f = [k \in 0 .. m |-> IF k = 0 THEN b ELSE S(f[k - 1])]
           T == {m \in Nat : \E f : Is(f, m)}
           u == Filling(moved, g)
<1> HIDE DEF S, b
<1>1. T = Nat
  <2>1. 0 \in T
    <3>1. Is([k \in 0 .. 0 |-> b], 0)
      OBVIOUS
    <3>2. QED
      BY <3>1
  <2>2. ASSUME NEW m \in T PROVE m + 1 \in T
    <3>1. PICK f : Is(f, m)
      OBVIOUS
    <3> DEFINE h == [k \in 0 .. m + 1 |-> IF k = m + 1 THEN S(f[m]) ELSE f[k]]
    <3>2. Is(h, m + 1)
      BY <3>1
    <3> HIDE DEF h, Is
    <3>3. QED
      BY <3>2
  <2> HIDE DEF T
  <2>3. T \in SUBSET Nat
    BY DEF T
  <2>4. QED
    BY <2>1, <2>2, <2>3, Upwards
<1>2. \E f : Is(f, 8)
  BY <1>1
<1>3. Is(u, 8)
  BY <1>2 DEF Filling, S, b
<1> HIDE DEF u
<1>4. u[0] = b /\ \A n \in 1 .. 8 : u[n] = S(u[n - 1])
  BY <1>3
<1>5. QED
  BY <1>4 DEF u, b, S

\* A stretch of n slots or as many as the machine has, unless the program loops.
FilledTo(f, n) ==
  /\ f = [slots |-> f.slots, pc |-> f.pc]
  /\ \/ f.pc = Modulus
     \/ \E m \in Nat : /\ Stretch(prog, f.slots, m, f.pc)
                       /\ m <= Machine.width /\ (m = Machine.width \/ m >= n)

LEMMA LongerStretch ==
  ASSUME NEW s, NEW m, NEW q, Stretch(prog, s, m, q), NEW e, InstructionOf(prog, e),
         e.pc = Follow(prog, q), NEW r, Towards(prog, e, r)
  PROVE  Stretch(prog, Longer(s, e), m + 1, r)
<1> DEFINE t == Longer(s, e)
           n == m + 1
<1>1. m \in Nat /\ IsSequence(s, m)
  BY DEF Stretch, IsSequence
<1>2. IsSequence(t, n) /\ t[n] = e /\ \A k \in 1 .. m : t[k] = s[k]
  BY <1>1, LongerIs
<1>3. \A k \in 1 .. n : k = n \/ k \in 1 .. m
  BY <1>1
<1> HIDE DEF t
<1>4. \A k \in 1 .. n : InstructionOf(prog, t[k])
  BY <1>2, <1>3 DEF Stretch
<1>5. \A k \in 2 .. n : Behind(prog, t[k - 1], t[k])
  <2>1. ASSUME NEW k \in 2 .. n PROVE Behind(prog, t[k - 1], t[k])
    <3>1. CASE k = n
      <4>1. m \in 1 .. m /\ k - 1 = m /\ m > 0
        BY <1>1, <3>1
      <4>2. t[k - 1] = s[m] /\ t[k] = e
        BY <1>2, <3>1, <4>1
      <4>3. Towards(prog, s[m], q)
        BY <4>1 DEF Stretch
      <4>4. Behind(prog, s[m], e)
        BY <4>3, BehindNext
      <4>5. QED
        BY <4>2, <4>4
    <3>2. CASE k # n
      <4>1. k \in 2 .. m /\ k \in 1 .. m /\ k - 1 \in 1 .. m
        BY <1>1, <3>2
      <4>2. Behind(prog, s[k - 1], s[k])
        BY <4>1 DEF Stretch
      <4>3. QED
        BY <1>2, <4>1, <4>2
    <3>3. QED
      BY <3>1, <3>2
  <2>2. QED
    BY <2>1
<1>6. Towards(prog, t[n], r)
  BY <1>2
<1>7. QED
  BY <1>2, <1>4, <1>5, <1>6 DEF Stretch, t

LEMMA FillsOneMore ==
  ASSUME NEW g \in Predictors, Machine.width \in 0 .. 8, NEW n \in Nat, NEW f, FilledTo(f, n)
  PROVE  FilledTo(FillSlot(f, g), n + 1)
<1> DEFINE h == FillSlot(f, g)
           at == NextAt(f)
           w == Machine.width
<1>1. w \in Nat
  OBVIOUS
<1>2. CASE Len(f.slots) = w
  <2>1. h = f
    BY <1>2 DEF FillSlot
  <2>2. ASSUME NEW m \in Nat, Stretch(prog, f.slots, m, f.pc) PROVE m = w
    BY <1>2, <2>2, SequenceFacts DEF Stretch
  <2> HIDE DEF h, w
  <2>3. f.pc = Modulus \/ \E m \in Nat : Stretch(prog, f.slots, m, f.pc) /\ m = w
    BY <2>2 DEF FilledTo
  <2>4. QED
    BY <1>1, <2>1, <2>3 DEF FilledTo, h, w
<1>3. CASE Len(f.slots) # w /\ at = Modulus
  <2>1. h = [f EXCEPT !.pc = Modulus]
    BY <1>3 DEF FillSlot
  <2> HIDE DEF h
  <2>2. h = [slots |-> h.slots, pc |-> h.pc] /\ h.pc = Modulus
    BY <2>1 DEF FilledTo
  <2>3. QED
    BY <2>2 DEF FilledTo, h
<1>4. CASE Len(f.slots) # w /\ at # Modulus
  <2> DEFINE guess == Predict(g, at)
             i == InstAt(prog, at)
             e == Fetched(at, i, guess)
  <2>1. h = [slots |-> Longer(f.slots, e), pc |-> guess.next]
    BY <1>4 DEF FillSlot, FetchSlot, Longer
  <2>2. f.pc # Modulus /\ at = Follow(prog, f.pc)
    BY <1>4 DEF NextAt
  <2>3. PICK m \in Nat : Stretch(prog, f.slots, m, f.pc) /\ m <= w /\ (m = w \/ m >= n)
    BY <2>2 DEF FilledTo
  <2>4. m # w
    BY <1>4, <2>3, SequenceFacts DEF Stretch
  <2>5. guess \in Guesses(at, i)
    BY Predicts
  <2>6. e.valid /\ e.pc = at /\ e.inst = i
    BY DEF Fetched
  <2> HIDE DEF e, guess, h, at, w
  <2>7. InstructionOf(prog, e)
    BY <2>6 DEF InstructionOf
  <2>8. Towards(prog, e, guess.next)
    BY <2>5, <2>6, GuessesLead
  <2>9. Stretch(prog, Longer(f.slots, e), m + 1, guess.next)
    BY <2>2, <2>3, <2>6, <2>7, <2>8, LongerStretch
  <2>10. m + 1 \in Nat /\ m + 1 <= w /\ m + 1 >= n + 1
    BY <1>1, <2>3, <2>4
  <2>11. h = [slots |-> h.slots, pc |-> h.pc] /\ Stretch(prog, h.slots, m + 1, h.pc)
    BY <2>1, <2>9
  <2>12. QED
    BY <2>10, <2>11 DEF FilledTo, h, w
<1>5. QED
  BY <1>2, <1>3, <1>4

\* A stretch with empty slots behind it is a stage in order.
LEMMA Padded ==
  ASSUME NEW w \in 0 .. 8, NEW s, NEW q, Stretch(prog, s, w, q),
         NEW rest, IsSequence(rest, 8 - w), \A k \in 1 .. 8 - w : rest[k] = Empty
  PROVE  /\ InOrder(prog, Joint(s, rest)) /\ LastLeads(prog, Joint(s, rest), q)
         /\ \A k \in Slots : k > w => Joint(s, rest)[k] = Empty
<1> DEFINE t == Joint(s, rest)
           n == 8 - w
           all == w + n
<1>1. all = 8 /\ IsSequence(s, w) /\ IsSequence(rest, n)
  BY DEF Stretch
<1>2. IsSequence(t, all) /\ \A k \in 1 .. all : t[k] = IF k <= w THEN s[k] ELSE rest[k - w]
  <2> HIDE DEF n
  <2>1. QED
    BY <1>1, JointIs
<1> HIDE DEF t
<1>3. \A k \in Slots : IF k <= w THEN t[k] = s[k] ELSE t[k] = Empty
  <2>1. ASSUME NEW k \in Slots PROVE IF k <= w THEN t[k] = s[k] ELSE t[k] = Empty
    <3>1. CASE k <= w
      BY <1>1, <1>2, <3>1 DEF Slots
    <3>2. CASE ~(k <= w)
      <4>1. k - w \in 1 .. n /\ t[k] = rest[k - w]
        BY <1>1, <1>2, <3>2 DEF Slots
      <4>2. QED
        BY <3>2, <4>1
    <3>3. QED
      BY <3>1, <3>2
  <2>2. QED
    BY <2>1
<1>4. \A k \in 1 .. w : InstructionOf(prog, s[k]) /\ s[k].valid
  BY DEF Stretch, InstructionOf
<1>5. \A k \in Slots : Holds(prog, t[k])
  <2>1. ASSUME NEW k \in Slots PROVE Holds(prog, t[k])
    <3>1. CASE k <= w
      <4>1. k \in 1 .. w /\ t[k] = s[k]
        BY <1>3, <3>1 DEF Slots
      <4>2. QED
        BY <1>4, <4>1 DEF Holds, InstructionOf
    <3>2. CASE ~(k <= w)
      BY <1>3, <3>2 DEF Holds
    <3>3. QED
      BY <3>1, <3>2
  <2>2. QED
    BY <2>1
<1>6. ASSUME NEW k \in 2 .. 8, t[k].valid PROVE t[k - 1].valid /\ Behind(prog, t[k - 1], t[k])
  <2>1. k \in Slots /\ k - 1 \in Slots
    BY LaterSlots
  <2>2. k <= w
    <3>1. t[k] # Empty
      BY <1>6, EmptyIsNot
    <3>2. QED
      BY <1>3, <2>1, <3>1
  <2>3. k \in 2 .. w /\ k - 1 \in 1 .. w /\ k - 1 <= w
    BY <2>2
  <2>4. t[k] = s[k] /\ t[k - 1] = s[k - 1]
    BY <1>3, <2>1, <2>2, <2>3
  <2>5. Behind(prog, s[k - 1], s[k])
    BY <2>3 DEF Stretch
  <2>6. s[k - 1].valid
    BY <1>4, <2>3
  <2>7. QED
    BY <2>4, <2>5, <2>6
<1>7. LastLeads(prog, t, q)
  <2>1. SUFFICES ASSUME NEW k \in Slots, t[k].valid, k = 8 \/ ~t[k + 1].valid
                 PROVE  Towards(prog, t[k], q)
    BY DEF LastLeads
  <2>2. k <= w
    <3>1. t[k] # Empty
      BY <2>1, EmptyIsNot
    <3>2. QED
      BY <1>3, <3>1
  <2>3. k = w
    <3>1. CASE k < w
      <4>1. k + 1 \in 1 .. w /\ k + 1 \in Slots /\ k + 1 <= w /\ k # 8
        BY <3>1 DEF Slots
      <4>2. t[k + 1] = s[k + 1]
        BY <1>3, <4>1
      <4>3. s[k + 1].valid
        BY <1>4, <4>1
      <4>4. QED
        BY <2>1, <4>1, <4>2, <4>3
    <3>2. QED
      BY <2>2, <3>1 DEF Slots
  <2>4. Towards(prog, s[w], q)
    BY <2>3 DEF Stretch, Slots
  <2>5. t[k] = s[w]
    BY <1>3, <2>3
  <2>6. QED
    BY <2>4, <2>5
<1>8. \A k \in Slots : k > w => t[k] = Empty
  BY <1>3 DEF Slots
<1>9. InOrder(prog, t)
  BY <1>1, <1>2, <1>5, <1>6 DEF InOrder
<1>10. QED
  BY <1>7, <1>8, <1>9 DEF t

LEMMA FilledInOrder ==
  ASSUME NEW g \in Predictors, Machine.width \in 0 .. 8, NEW moved,
         NEW m \in Nat, m <= Machine.width, Stretch(prog, moved.slots, m, moved.pc),
         NEW filled, filled = Filled(moved, g), filled.pc # Modulus
  PROVE  /\ InOrder(prog, filled.slots) /\ LastLeads(prog, filled.slots, filled.pc)
         /\ \A k \in Slots : k > Machine.width => filled.slots[k] = Empty
<1> DEFINE f == Filling(moved, g)
           T == {n \in Nat : n <= 8 => FilledTo(f[n], n)}
           w == Machine.width
<1>1. f[0] = Moving(moved) /\ \A n \in 1 .. 8 : f[n] = FillSlot(f[n - 1], g)
  BY FillingIs
<1> HIDE DEF f
<1>2. FilledTo(f[0], 0)
  BY <1>1 DEF Moving, FilledTo
<1>3. ASSUME NEW n \in T PROVE n + 1 \in T
  <2>1. SUFFICES ASSUME n + 1 <= 8 PROVE FilledTo(f[n + 1], n + 1)
    OBVIOUS
  <2>2. n \in Nat /\ FilledTo(f[n], n)
    BY <2>1
  <2>3. f[n + 1] = FillSlot(f[n], g)
    <3>1. n + 1 \in 1 .. 8 /\ (n + 1) - 1 = n
      BY <2>1, <2>2
    <3>2. QED
      BY <1>1, <3>1
  <2>4. FilledTo(FillSlot(f[n], g), n + 1)
    BY <2>2, FillsOneMore
  <2>5. QED
    BY <2>3, <2>4
<1>4. 0 \in T /\ T \in SUBSET Nat
  BY <1>2
<1> HIDE DEF T
<1>5. T = Nat
  BY <1>3, <1>4, Upwards
<1>6. FilledTo(f[8], 8)
  <2>1. 8 \in T
    BY <1>5
  <2>2. QED
    BY <2>1 DEF T
<1> DEFINE u == f[8]
<1>7. filled = [u EXCEPT !.slots = Joint(@, Padding)]
  BY FilledIs DEF Joint, f
<1>8. u = [slots |-> u.slots, pc |-> u.pc]
  BY <1>6 DEF FilledTo
<1> HIDE DEF u
<1>9. filled.slots = Joint(u.slots, Padding) /\ filled.pc = u.pc
  BY <1>7, <1>8
<1>10. PICK x \in Nat : /\ Stretch(prog, u.slots, x, u.pc)
                        /\ x <= Machine.width /\ (x = Machine.width \/ x >= 8)
  BY <1>6, <1>9 DEF FilledTo, u
<1>11. Stretch(prog, u.slots, w, u.pc)
  <2>1. x = w
    BY <1>10
  <2>2. QED
    BY <1>10, <2>1
<1>12. IsSequence(Padding, 8 - w) /\ \A k \in 1 .. 8 - w : Padding[k] = Empty
  BY DEF Padding, IsSequence
<1> DEFINE slots == Joint(u.slots, Padding)
<1>13. /\ InOrder(prog, slots) /\ LastLeads(prog, slots, u.pc)
       /\ \A k \in Slots : k > w => slots[k] = Empty
  BY <1>11, <1>12, Padded
<1> HIDE DEF slots
<1>14. QED
  BY <1>9, <1>13 DEF slots

---------------------------------------------------------------------------
(* A tick of the wide machines.                                            *)

LEMMA StagesAreNext ==
  /\ IFIDs' = Stage(ifid', ifid2', ifids') /\ IDEXs' = Stage(idex', idex2', idexs')
  /\ EXMEMs' = Stage(exmem', exmem2', exmems') /\ MEMWBs' = Stage(memwb', memwb2', memwbs')
  /\ Latencies' = Stage(exLatency', exLatency2', exLatencies')
<1>1. (/\ IFIDs = Stage(ifid, ifid2, ifids) /\ IDEXs = Stage(idex, idex2, idexs)
       /\ EXMEMs = Stage(exmem, exmem2, exmems) /\ MEMWBs = Stage(memwb, memwb2, memwbs)
       /\ Latencies = Stage(exLatency, exLatency2, exLatencies))'
  BY StagesAre, PTL
<1>2. QED
  BY <1>1

LEMMA StageBecomes ==
  ASSUME NEW x, IsSequence(x, 8), NEW a, NEW b, NEW s, a = x[1], b = x[2], s = Back(x)
  PROVE  Stage(a, b, s) = x /\ IsSequence(s, 6)
<1>1. s = Cut(x, 2, 8)
  <2>1. 2 + 1 = 3
    OBVIOUS
  <2>2. QED
    BY <2>1, Zenon DEF Cut, Back
<1>2. IsSequence(Cut(x, 2, 8), 6) /\ Stage(x[1], x[2], Cut(x, 2, 8)) = x
  BY Rejoined
<1>3. QED
  BY <1>1, <1>2

Sized ==
  /\ IsSequence(ifids, 6) /\ IsSequence(idexs, 6) /\ IsSequence(exmems, 6) /\ IsSequence(memwbs, 6)
  /\ IsSequence(exLatencies, 6)

LEMMA StagesAreSized ==
  ASSUME Sized
  PROVE  /\ IsSequence(IFIDs, 8) /\ IsSequence(IDEXs, 8) /\ IsSequence(EXMEMs, 8)
         /\ IsSequence(MEMWBs, 8) /\ IsSequence(Latencies, 8)
         /\ IFIDs[1] = ifid /\ IFIDs[2] = ifid2 /\ IDEXs[1] = idex /\ IDEXs[2] = idex2
         /\ EXMEMs[1] = exmem /\ EXMEMs[2] = exmem2 /\ MEMWBs[1] = memwb /\ MEMWBs[2] = memwb2
         /\ Latencies[1] = exLatency /\ Latencies[2] = exLatency2
<1>1. IsSequence(IFIDs, 8) /\ IFIDs[1] = ifid /\ IFIDs[2] = ifid2
  BY StagesAre, StageIs DEF Sized
<1>2. IsSequence(IDEXs, 8) /\ IDEXs[1] = idex /\ IDEXs[2] = idex2
  BY StagesAre, StageIs DEF Sized
<1>3. IsSequence(EXMEMs, 8) /\ EXMEMs[1] = exmem /\ EXMEMs[2] = exmem2
  BY StagesAre, StageIs DEF Sized
<1>4. IsSequence(MEMWBs, 8) /\ MEMWBs[1] = memwb /\ MEMWBs[2] = memwb2
  BY StagesAre, StageIs DEF Sized
<1>5. IsSequence(Latencies, 8) /\ Latencies[1] = exLatency /\ Latencies[2] = exLatency2
  BY StagesAre, StageIs DEF Sized
<1>6. QED
  BY <1>1, <1>2, <1>3, <1>4, <1>5

\* What a cycle does to the stages behind IF, exec being what EX does and access what MEM.
Held(access) == access.stall \/ ExecStalls
Fetching(access, exec) == ~Held(access) /\ ~(exec.flush > 0) /\ ~LoadUses
NextDecoded(written, access, exec) ==
  CASE Held(access) -> IDEXs
    [] Fetching(access, exec) -> NextIDEXs(IssueCount, AfterCall(written))
    [] OTHER -> AllEmpty

LEMMA WideCycleStages ==
  ASSUME Sized, NEW written, NEW access,
         NEW exec, ExecutedTo(exec, 8, access.stall),
         WideCycle(written, access, exec, IssueCount)
  PROVE  /\ MEMWBs' = NextMEMWBs(access) /\ IsSequence(memwbs', 6)
         /\ Latencies' = exec.left /\ IsSequence(exLatencies', 6)
         /\ EXMEMs' = (IF Held(access) THEN EXMEMs ELSE exec.next) /\ IsSequence(exmems', 6)
         /\ IDEXs' = NextDecoded(written, access, exec) /\ IsSequence(idexs', 6)
         /\ retired' = retired + CountIn(MEMWBs)
         /\ executed' = executed + (IF Held(access) THEN 0 ELSE CountIn(exec.next))
         /\ WideHazards(exec, Held(access)) \cap Avoid = {}
         /\ setup' = setup /\ prog' = prog
<1> DEFINE ms == NextMEMWBs(access)
           left == exec.left
           into == IF Held(access) THEN EXMEMs ELSE exec.next
           d == NextDecoded(written, access, exec)
<1>1. memwb' = ms[1] /\ memwb2' = ms[2] /\ memwbs' = Back(ms)
  BY DEF WideCycle, Back
<1>2. exLatency' = left[1] /\ exLatency2' = left[2] /\ exLatencies' = Back(left)
  BY DEF WideCycle, Back
<1>3. exmem' = into[1] /\ exmem2' = into[2] /\ exmems' = Back(into)
  BY DEF WideCycle, Held, Back
<1>4. idex' = d[1] /\ idex2' = d[2] /\ idexs' = Back(d)
  BY DEF WideCycle, Held, Fetching, NextDecoded, Back
<1>5. /\ retired' = retired + CountIn(MEMWBs)
      /\ executed' = executed + (IF Held(access) THEN 0 ELSE CountIn(exec.next))
  BY DEF WideCycle, Held
<1>6. setup' = setup /\ prog' = prog
  BY DEF WideCycle
<1>7. WideHazards(exec, Held(access)) \cap Avoid = {}
  BY DEF WideCycle, Held
<1>8. IsSequence(ms, 8)
  BY DEF NextMEMWBs, IsSequence, Slots
<1>9. IsSequence(left, 8) /\ IsSequence(exec.next, 8)
  BY DEF ExecutedTo
<1>10. IsSequence(IDEXs, 8) /\ IsSequence(EXMEMs, 8)
  BY StagesAreSized
<1>11. IsSequence(into, 8)
  BY <1>9, <1>10
<1>12. IsSequence(d, 8)
  <2>1. IsSequence(NextIDEXs(IssueCount, AfterCall(written)), 8)
    BY DEF NextIDEXs, IsSequence, Slots
  <2>2. IsSequence(AllEmpty, 8)
    BY DEF AllEmpty, IsSequence, Slots
  <2>3. QED
    BY <1>10, <2>1, <2>2 DEF NextDecoded
<1> HIDE DEF ms, left, into, d
<1>13. /\ MEMWBs' = Stage(memwb', memwb2', memwbs')
       /\ Latencies' = Stage(exLatency', exLatency2', exLatencies')
       /\ EXMEMs' = Stage(exmem', exmem2', exmems')
       /\ IDEXs' = Stage(idex', idex2', idexs')
  BY StagesAreNext
<1>14. MEMWBs' = ms /\ IsSequence(memwbs', 6)
  BY <1>1, <1>8, <1>13, StageBecomes
<1>15. Latencies' = left /\ IsSequence(exLatencies', 6)
  BY <1>2, <1>9, <1>13, StageBecomes
<1>16. EXMEMs' = into /\ IsSequence(exmems', 6)
  <2>1. Stage(exmem', exmem2', exmems') = into /\ IsSequence(exmems', 6)
    BY <1>3, <1>11, StageBecomes
  <2>2. QED
    BY <1>13, <2>1
<1>17. IDEXs' = d /\ IsSequence(idexs', 6)
  <2>1. Stage(idex', idex2', idexs') = d /\ IsSequence(idexs', 6)
    BY <1>4, <1>12, StageBecomes
  <2>2. QED
    BY <1>13, <2>1
<1>18. QED
  BY <1>5, <1>6, <1>7, <1>14, <1>15, <1>16, <1>17 DEF ms, left, into, d

LEMMA WideCycleFetch ==
  ASSUME Sized, FetchedInOrder, Machine.width \in 0 .. 8, NEW written, NEW access, NEW exec,
         WideCycle(written, access, exec, IssueCount)
  PROVE  IsSequence(ifids', 6) /\ FetchedInOrder'
<1> DEFINE count == IssueCount
           fetches == Fetching(access, exec)
           flush == exec.flush > 0
           Ordered(slots, q) == /\ InOrder(prog, slots) /\ LastLeads(prog, slots, q)
                                /\ \A k \in Slots : k > Machine.width => slots[k] = Empty
<1>1. PICK g \in IF fetches THEN Predictors ELSE {<< >>}, left \in {NotIssued(count)} :
        \E again \in {IF fetches THEN PredictedAgain(left, g) ELSE << >>} :
        \E moved \in {Moved(count, left, again)} :
          \E filled \in {CASE fetches -> Filled(moved, g)
                           [] flush -> [slots |-> AllEmpty, pc |-> exec.to[exec.flush]]
                           [] OTHER -> [slots |-> IFIDs, pc |-> pc]} :
            /\ filled.pc # Modulus
            /\ ifid' = filled.slots[1] /\ ifid2' = filled.slots[2]
            /\ ifids' = SubSeq(filled.slots, 3, 8)
            /\ pc' = filled.pc
  BY DEF WideCycle, Fetching, Held
<1>0. fetches => ~flush
  BY DEF Fetching
<1> HIDE DEF count, flush, fetches
<1>2. PICK again, moved, filled :
        /\ again = IF fetches THEN PredictedAgain(left, g) ELSE << >>
        /\ moved = Moved(count, left, again)
        /\ filled = CASE fetches -> Filled(moved, g)
                      [] flush -> [slots |-> AllEmpty, pc |-> exec.to[exec.flush]]
                      [] OTHER -> [slots |-> IFIDs, pc |-> pc]
        /\ filled.pc # Modulus
        /\ ifid' = filled.slots[1] /\ ifid2' = filled.slots[2]
        /\ ifids' = SubSeq(filled.slots, 3, 8)
        /\ pc' = filled.pc
  BY <1>1
<1>3. Ordered(filled.slots, filled.pc)
  <2>1. CASE fetches
    <3>0. /\ g \in Predictors /\ left = NotIssued(count) /\ again = PredictedAgain(left, g)
          /\ moved = Moved(count, left, again) /\ filled = Filled(moved, g)
      <4>1. g \in Predictors /\ left = NotIssued(count)
        BY <2>1
      <4>2. QED
        BY <1>0, <1>2, <2>1, <4>1
    <3>1. /\ g \in Predictors /\ left = NotIssued(IssueCount) /\ again = PredictedAgain(left, g)
          /\ moved = Moved(IssueCount, left, again) /\ filled = Filled(moved, g)
      BY <3>0 DEF count
    <3>2. PICK m \in Nat : m <= Machine.width /\ Stretch(prog, moved.slots, m, moved.pc)
      BY <3>1, MovedIs
    <3>3. filled.pc # Modulus
      BY <1>2
    <3>4. QED
      BY <3>1, <3>2, <3>3, FilledInOrder
  <2>2. CASE ~fetches /\ flush
    <3>1. filled.slots = AllEmpty
      BY <1>2, <2>2
    <3>2. InOrder(prog, AllEmpty)
      BY AllEmptyInOrder
    <3>3. \A k \in Slots : AllEmpty[k] = Empty /\ ~AllEmpty[k].valid
      BY EmptyIsNot DEF AllEmpty
    <3>4. LastLeads(prog, AllEmpty, filled.pc)
      BY <3>3 DEF LastLeads
    <3>5. QED
      BY <3>1, <3>2, <3>3, <3>4
  <2>3. CASE ~fetches /\ ~flush
    <3>1. filled.slots = IFIDs /\ filled.pc = pc
      BY <1>2, <2>3
    <3>2. QED
      BY <3>1 DEF FetchedInOrder
  <2>4. QED
    BY <2>1, <2>2, <2>3
<1> DEFINE x == filled.slots
<1>4. IsSequence(x, 8)
  BY <1>3 DEF InOrder
<1>5. IFIDs' = Stage(ifid', ifid2', ifids')
  BY StagesAreNext
<1>6. ifid' = x[1] /\ ifid2' = x[2] /\ ifids' = Back(x) /\ pc' = filled.pc
  BY <1>2 DEF Back
<1> HIDE DEF x
<1>7. IFIDs' = x /\ IsSequence(ifids', 6)
  <2>1. Stage(ifid', ifid2', ifids') = x /\ IsSequence(ifids', 6)
    BY <1>4, <1>6, StageBecomes
  <2>2. QED
    BY <1>5, <2>1
<1>8. setup' = setup /\ prog' = prog
  BY DEF WideCycle
<1>9. Machine' = Machine
  BY <1>8 DEF Machine
<1>10. QED
  BY <1>3, <1>6, <1>7, <1>8, <1>9 DEF FetchedInOrder, x

---------------------------------------------------------------------------
(* What every register holds, and how the first stages of a wide machine are  *)
(* ordered: what the counts and the order of the later stages rest on.        *)

HoldsAll(p, stage) == \A k \in Slots : Holds(p, stage[k])

\* The registers a two-wide machine does not have.
RestEmpty ==
  /\ ifids = NoSlots /\ idexs = NoSlots /\ exmems = NoSlots /\ memwbs = NoSlots
  /\ exLatencies = [k \in 1 .. 6 |-> 0]
  /\ ~IsFused(exmem) /\ ~IsFused(memwb)

Arranged ==
  /\ setup \in DOMAIN Setups /\ prog \in Machine.programs
  /\ Sized
  /\ Holds(prog, ifid) /\ Holds(prog, ifid2)
  /\ HoldsAll(prog, IDEXs) /\ HoldsAll(prog, EXMEMs) /\ HoldsAll(prog, MEMWBs)
  /\ Machine.width > 2 => FetchedInOrder /\ InOrder(prog, IDEXs)
  /\ Machine.width = 2 => RestEmpty

LEMMA WidthIs ==
  ASSUME Arranged
  PROVE  Machine.width \in {2, 4, 6, 8}
  BY WideAssumption DEF Arranged, Machine

LEMMA WideTickIs ==
  ASSUME Arranged, WideTick
  PROVE  \E written, access, exec : /\ ExecutedTo(exec, 8, access.stall)
                                    /\ WideCycle(written, access, exec, IssueCount)
<1>1. PICK written, access, exec :
        /\ exec = ExecutedUpTo(NextMEMWBs(access), AfterCall(written), access.stall)
        /\ WideCycle(written, access, exec, IssueCount)
  BY DEF WideTick
<1>2. IDEXs[1] = idex /\ Latencies[1] = exLatency
  BY StagesAreSized DEF Arranged
<1>3. ExecutedTo(ExecutedUpTo(NextMEMWBs(access), AfterCall(written), access.stall), 8, access.stall)
  BY <1>2, ExecutedAll
<1>4. QED
  BY <1>1, <1>3

LEMMA NextMEMWBsHold ==
  ASSUME NEW p, HoldsAll(p, EXMEMs), NEW access
  PROVE  HoldsAll(p, NextMEMWBs(access))
<1> DEFINE ms == NextMEMWBs(access)
<1>1. ASSUME NEW k \in Slots PROVE Holds(p, ms[k])
  <2>1. ms[k] = Empty \/ (EXMEMs[k].valid /\ ms[k].valid
                          /\ ms[k].pc = EXMEMs[k].pc /\ ms[k].inst = EXMEMs[k].inst)
    BY DEF NextMEMWBs, Leaving
  <2> HIDE DEF ms
  <2>2. CASE ms[k] = Empty
    BY <2>2 DEF Holds
  <2>3. CASE ms[k] # Empty
    <3>1. EXMEMs[k].valid /\ ms[k].valid /\ ms[k].pc = EXMEMs[k].pc /\ ms[k].inst = EXMEMs[k].inst
      BY <2>1, <2>3
    <3>2. InstructionOf(p, EXMEMs[k])
      BY <3>1, HoldsInstruction DEF HoldsAll
    <3>3. QED
      BY <3>1, <3>2 DEF Holds, InstructionOf
  <2>4. QED
    BY <2>2, <2>3
<1>2. QED
  BY <1>1 DEF HoldsAll

LEMMA NextEXMEMsHold ==
  ASSUME NEW p, HoldsAll(p, IDEXs), NEW exec, NEW stalls, ExecutedTo(exec, 8, stalls)
  PROVE  HoldsAll(p, exec.next)
<1> DEFINE t == exec.next
<1>1. \A k \in Slots : t[k] = Empty \/ IsExecutionOf(t[k], k)
  BY DEF ExecutedTo, Slots
<1> HIDE DEF t
<1>2. ASSUME NEW k \in Slots PROVE Holds(p, t[k])
  <2>1. CASE t[k] = Empty
    BY <2>1 DEF Holds
  <2>2. CASE t[k] # Empty
    <3>1. IDEXs[k].valid /\ t[k].valid /\ t[k].pc = IDEXs[k].pc /\ t[k].inst = IDEXs[k].inst
      BY <1>1, <2>2 DEF IsExecutionOf
    <3>2. InstructionOf(p, IDEXs[k])
      BY <3>1, HoldsInstruction DEF HoldsAll
    <3>3. QED
      BY <3>1, <3>2 DEF Holds, InstructionOf
  <2>3. QED
    BY <2>1, <2>2
<1>3. QED
  BY <1>2 DEF HoldsAll, t

LEMMA WideTickArranged ==
  ASSUME Arranged, WideTick
  PROVE  Arranged'
<1>1. PICK written, access, exec : /\ ExecutedTo(exec, 8, access.stall)
                                   /\ WideCycle(written, access, exec, IssueCount)
  BY WideTickIs
<1>2. Machine.width > 2 /\ Machine.width \in 0 .. 8 /\ Sized
  BY WidthIs DEF WideTick, Arranged
<1>3. /\ MEMWBs' = NextMEMWBs(access) /\ IsSequence(memwbs', 6)
      /\ Latencies' = exec.left /\ IsSequence(exLatencies', 6)
      /\ EXMEMs' = (IF Held(access) THEN EXMEMs ELSE exec.next) /\ IsSequence(exmems', 6)
      /\ IDEXs' = NextDecoded(written, access, exec) /\ IsSequence(idexs', 6)
      /\ setup' = setup /\ prog' = prog
  BY <1>1, <1>2, WideCycleStages
<1>4. FetchedInOrder /\ InOrder(prog, IDEXs)
  BY <1>2 DEF Arranged
<1>5. IsSequence(ifids', 6) /\ FetchedInOrder'
  BY <1>1, <1>2, <1>4, WideCycleFetch
<1>6. Sized'
  BY <1>3, <1>5 DEF Sized
<1>7. Machine' = Machine
  BY <1>3 DEF Machine
<1>8. InOrder(prog, IDEXs')
  <2>1. IFIDs[1] = ifid /\ IFIDs[2] = ifid2
    BY <1>2, StagesAreSized
  <2>2. InOrder(prog, NextIDEXs(IssueCount, AfterCall(written)))
    BY <1>4, <2>1, NextIDEXsInOrder DEF FetchedInOrder
  <2>3. InOrder(prog, AllEmpty)
    BY AllEmptyInOrder
  <2>4. InOrder(prog, NextDecoded(written, access, exec))
    BY <1>4, <2>2, <2>3 DEF NextDecoded
  <2>5. QED
    BY <1>3, <2>4
<1>9. HoldsAll(prog, IDEXs')
  BY <1>8 DEF InOrder, HoldsAll
<1>10. HoldsAll(prog, EXMEMs')
  <2>1. HoldsAll(prog, exec.next)
    BY <1>1, NextEXMEMsHold DEF Arranged
  <2>2. QED
    BY <1>3, <2>1 DEF Arranged
<1>11. HoldsAll(prog, MEMWBs')
  <2>1. HoldsAll(prog, NextMEMWBs(access))
    BY NextMEMWBsHold DEF Arranged
  <2>2. QED
    BY <1>3, <2>1
<1>12. Holds(prog, ifid') /\ Holds(prog, ifid2')
  <2>1. InOrder(prog, IFIDs') /\ IFIDs'[1] = ifid' /\ IFIDs'[2] = ifid2'
    BY <1>3, <1>5 DEF FetchedInOrder
  <2>2. 1 \in Slots /\ 2 \in Slots
    BY DEF Slots
  <2>3. QED
    BY <2>1, <2>2 DEF InOrder
<1>13. QED
  BY <1>2, <1>3, <1>5, <1>6, <1>7, <1>8, <1>9, <1>10, <1>11, <1>12 DEF Arranged

\* A tick of a two-wide machine: what its cycle is given.
DualTickOf(acc, acc2, first, second, guess, guess2, file, done1, done2, flush, stall) ==
  /\ acc = Access(HitLatency) /\ acc2 = Access2(acc.view) /\ file = RegsNow2
  /\ done1 = (IF Executes THEN Executed1 ELSE Empty)
  /\ done2 = (IF Executes2 THEN Executed2(done1) ELSE Empty)
  /\ flush = Flush /\ stall = Stall
  /\ \E hit : first = Fetch(fport, pc, hit)
  /\ \E hit : second = IF MovesUp THEN first ELSE Fetch(first.port, SecondPC, hit)
  /\ guess \in IF Fetches /\ ~MovesUp THEN Guesses(pc, InstAt(prog, pc)) ELSE {NoGuess}
  /\ guess2 \in IF Fetches THEN Guesses2(SecondPC, InstAt(prog, SecondPC)) ELSE {NoGuess}
  /\ DualCycle(acc, acc2, first, second, guess, guess2, file, done1, done2, flush, stall)

LEMMA DualTickIs ==
  ASSUME DualTick
  PROVE  \E acc, acc2, first, second, guess, guess2, file, done1, done2, flush, stall :
           DualTickOf(acc, acc2, first, second, guess, guess2, file, done1, done2, flush, stall)
<1>1. PICK hit \in Answers(fport, pc), acc \in {Access(HitLatency)}, file \in {RegsNow2},
           done1 \in {IF Executes THEN Executed1 ELSE Empty}, flush \in {Flush}, stall \in {Stall} :
        \E first \in {Fetch(fport, pc, hit)}, acc2 \in {Access2(acc.view)},
           done2 \in {IF Executes2 THEN Executed2(done1) ELSE Empty} :
          /\ Hazards2(MemStall \/ ExecStall \/ (Fetches /\ first.stall)) \cap Avoid = {}
          /\ \E hit2 \in Answers(NoFetch, SecondPC) :
               \E second \in {IF MovesUp THEN first ELSE Fetch(first.port, SecondPC, hit2)},
                  guess \in IF Fetches /\ ~MovesUp THEN Guesses(pc, InstAt(prog, pc)) ELSE {NoGuess},
                  guess2 \in IF Fetches THEN Guesses2(SecondPC, InstAt(prog, SecondPC)) ELSE {NoGuess} :
                 DualCycle(acc, acc2, first, second, guess, guess2, file, done1, done2, flush, stall)
  BY Zenon DEF DualTick
<1>2. PICK first \in {Fetch(fport, pc, hit)}, acc2 \in {Access2(acc.view)},
           done2 \in {IF Executes2 THEN Executed2(done1) ELSE Empty} :
        \E hit2 \in Answers(NoFetch, SecondPC) :
          \E second \in {IF MovesUp THEN first ELSE Fetch(first.port, SecondPC, hit2)},
             guess \in IF Fetches /\ ~MovesUp THEN Guesses(pc, InstAt(prog, pc)) ELSE {NoGuess},
             guess2 \in IF Fetches THEN Guesses2(SecondPC, InstAt(prog, SecondPC)) ELSE {NoGuess} :
            DualCycle(acc, acc2, first, second, guess, guess2, file, done1, done2, flush, stall)
  BY <1>1, Zenon
<1>3. PICK hit2 \in Answers(NoFetch, SecondPC) :
        \E second \in {IF MovesUp THEN first ELSE Fetch(first.port, SecondPC, hit2)},
           guess \in IF Fetches /\ ~MovesUp THEN Guesses(pc, InstAt(prog, pc)) ELSE {NoGuess},
           guess2 \in IF Fetches THEN Guesses2(SecondPC, InstAt(prog, SecondPC)) ELSE {NoGuess} :
          DualCycle(acc, acc2, first, second, guess, guess2, file, done1, done2, flush, stall)
  BY <1>2, Zenon
<1>4. PICK second \in {IF MovesUp THEN first ELSE Fetch(first.port, SecondPC, hit2)},
           guess \in IF Fetches /\ ~MovesUp THEN Guesses(pc, InstAt(prog, pc)) ELSE {NoGuess},
           guess2 \in IF Fetches THEN Guesses2(SecondPC, InstAt(prog, SecondPC)) ELSE {NoGuess} :
        DualCycle(acc, acc2, first, second, guess, guess2, file, done1, done2, flush, stall)
  BY <1>3, Zenon
<1>5. acc = Access(HitLatency) /\ file = RegsNow2 /\ flush = Flush /\ stall = Stall
  OBVIOUS
<1>6. done1 = IF Executes THEN Executed1 ELSE Empty
  BY Zenon
<1>7. acc2 = Access2(acc.view) /\ first = Fetch(fport, pc, hit)
  OBVIOUS
<1>8. done2 = IF Executes2 THEN Executed2(done1) ELSE Empty
  BY Zenon
<1>9. second = IF MovesUp THEN first ELSE Fetch(first.port, SecondPC, hit2)
  BY Zenon
<1>10. \E h : first = Fetch(fport, pc, h)
  BY <1>7
<1>11. \E h : second = IF MovesUp THEN first ELSE Fetch(first.port, SecondPC, h)
  BY <1>9
<1>12. DualTickOf(acc, acc2, first, second, guess, guess2, file, done1, done2, flush, stall)
  BY <1>4, <1>5, <1>6, <1>7, <1>8, <1>10, <1>11, Zenon DEF DualTickOf
<1>13. QED
  BY <1>12

LEMMA DualStageHolds ==
  ASSUME NEW p, NEW a, NEW b, Holds(p, a), Holds(p, b)
  PROVE  HoldsAll(p, Stage(a, b, NoSlots)) /\ IsSequence(NoSlots, 6)
<1>1. IsSequence(NoSlots, 6) /\ \A k \in 1 .. 6 : NoSlots[k] = Empty
  BY DEF NoSlots, IsSequence
<1>2. /\ Stage(a, b, NoSlots)[1] = a /\ Stage(a, b, NoSlots)[2] = b
      /\ \A k \in 3 .. 8 : Stage(a, b, NoSlots)[k] = NoSlots[k - 2]
  BY <1>1, StageIs
<1>3. ASSUME NEW k \in Slots PROVE Holds(p, Stage(a, b, NoSlots)[k])
  <2>1. CASE k \in {1, 2}
    BY <1>2, <2>1
  <2>2. CASE k \notin {1, 2}
    <3>1. k \in 3 .. 8 /\ k - 2 \in 1 .. 6
      BY <2>2 DEF Slots
    <3>2. Stage(a, b, NoSlots)[k] = Empty
      BY <1>1, <1>2, <3>1
    <3>3. QED
      BY <3>2 DEF Holds
  <2>3. QED
    BY <2>1, <2>2
<1>4. QED
  BY <1>1, <1>3 DEF HoldsAll

\* What the registers of a two-wide machine hold after a tick.
From(s, t) == s = Empty \/ (t.valid /\ s.valid /\ s.pc = t.pc /\ s.inst = t.inst)

LEMMA FromHolds ==
  ASSUME NEW p, NEW s, NEW t, From(s, t), Holds(p, t)
  PROVE  Holds(p, s)
<1>1. CASE s = Empty
  BY <1>1 DEF Holds
<1>2. CASE s # Empty
  <2>1. t.valid /\ s.valid /\ s.pc = t.pc /\ s.inst = t.inst
    BY <1>2 DEF From
  <2>2. InstructionOf(p, t)
    BY <2>1, HoldsInstruction
  <2>3. QED
    BY <2>1, <2>2 DEF Holds, InstructionOf
<1>3. QED
  BY <1>1, <1>2

\* The slots and the pc fetch leaves, at most one of which is empty, when it goes on.
Fetches2(first, second, guess, guess2) ==
  LET one == Placed(pc, InstAt(prog, pc), guess)
      two == Placed(SecondPC, InstAt(prog, SecondPC), guess2)
  IN \/ ~MovesUp /\ ifid' = one.slot /\ ifid2' = Empty /\ pc' = one.pc
     \/ MovesUp /\ ifid' = ifid2 /\ ifid2' = Empty /\ pc' = pc
     \/ MovesUp /\ ifid' = ifid2 /\ ifid2' = two.slot /\ pc' = two.pc
     \/ /\ ~MovesUp /\ InstAt(prog, pc).op # "B" /\ ifid' = one.slot
        /\ \/ ifid2' = Empty /\ pc' = SecondPC
           \/ ifid2' = two.slot /\ pc' = two.pc

LEMMA DualFetchIs ==
  ASSUME NEW acc, NEW acc2, NEW first, NEW second, NEW guess, NEW guess2, NEW file, NEW done1,
         NEW done2, NEW flush, NEW stall,
         DualTickOf(acc, acc2, first, second, guess, guess2, file, done1, done2, flush, stall)
  PROVE  \/ ifid' = Empty /\ ifid2' = Empty /\ flush /\ pc' = RestartPC(idex, BranchFlags2, X1)
         \/ ifid' = ifid /\ ifid2' = ifid2 /\ pc' = pc
         \/ Fetches /\ Fetches2(first, second, guess, guess2)
<1> DEFINE one == Placed(pc, first.inst, guess)
           alone == ~MovesUp /\ (first.inst.op = "B" \/ Redirects(guess))
           place == Placed(SecondPC, second.inst, guess2)
           two == IF second.stall THEN [slot |-> Empty, pc |-> SecondPC] ELSE place
           fetches == ~stall /\ ~flush
           fetchStall == fetches /\ first.stall
           fetched == fetches /\ ~first.stall
<1>1. first.inst = InstAt(prog, pc) /\ second.inst = InstAt(prog, SecondPC)
  <2>1. first.inst = InstAt(prog, pc)
    BY DEF DualTickOf, Fetch
  <2>2. CASE MovesUp
    <3>1. second = first /\ SecondPC = pc
      BY <2>2 DEF DualTickOf, SecondPC
    <3>2. QED
      BY <2>1, <3>1
  <2>3. CASE ~MovesUp
    <3>1. \E h : second = Fetch(first.port, SecondPC, h)
      BY <2>3 DEF DualTickOf
    <3>2. QED
      BY <2>1, <3>1 DEF Fetch
  <2>4. QED
    BY <2>2, <2>3
<1>2. /\ pc' = CASE flush -> RestartPC(idex, BranchFlags2, X1)
             [] fetched /\ alone -> one.pc
             [] fetched /\ ~alone -> two.pc
             [] OTHER -> pc
      /\ ifid' = CASE flush -> Empty
                   [] ~flush /\ (stall \/ fetchStall) -> ifid
                   [] OTHER -> IF MovesUp THEN ifid2 ELSE one.slot
      /\ ifid2' = CASE flush \/ (fetched /\ alone) -> Empty
                    [] ~flush /\ (stall \/ fetchStall) -> ifid2
                    [] OTHER -> two.slot
  BY DEF DualTickOf, DualCycle
<1>3. /\ flush => ~fetched
      /\ fetched <=> ~flush /\ ~(stall \/ fetchStall)
  OBVIOUS
<1>4. fetched => Fetches
  BY DEF DualTickOf, Fetches
<1>5. two = [slot |-> Empty, pc |-> SecondPC] \/ two = place
  OBVIOUS
<1>6. [slot |-> Empty, pc |-> SecondPC].slot = Empty /\ [slot |-> Empty, pc |-> SecondPC].pc = SecondPC
  OBVIOUS
<1>7. MovesUp => SecondPC = pc
  BY DEF SecondPC
<1>8. one = Placed(pc, InstAt(prog, pc), guess) /\ place = Placed(SecondPC, InstAt(prog, SecondPC), guess2)
  BY <1>1
<1>9. ~MovesUp /\ ~alone => InstAt(prog, pc).op # "B"
  BY <1>1
<1>10. alone => ~MovesUp
  OBVIOUS
<1> HIDE DEF one, alone, place, two, fetched
<1>11. CASE flush
  BY <1>2, <1>3, <1>11
<1>12. CASE ~flush /\ ~fetched
  <2> HIDE DEF fetchStall
  <2>1. ~flush /\ (stall \/ fetchStall)
    BY <1>3, <1>12
  <2>2. QED
    BY <1>2, <1>12, <2>1
<1>13. CASE fetched
  <2> HIDE DEF fetchStall
  <2>1. ~flush /\ ~(stall \/ fetchStall)
    BY <1>3, <1>13
  <2>2. /\ pc' = IF alone THEN one.pc ELSE two.pc
        /\ ifid' = IF MovesUp THEN ifid2 ELSE one.slot
        /\ ifid2' = IF alone THEN Empty ELSE two.slot
    <3>1. CASE alone
      BY <1>2, <1>13, <2>1, <3>1
    <3>2. CASE ~alone
      BY <1>2, <1>13, <2>1, <3>2
    <3>3. QED
      BY <3>1, <3>2
  <2>3. Fetches2(first, second, guess, guess2)
    <3>1. CASE alone
      BY <1>8, <1>10, <2>2, <3>1 DEF Fetches2
    <3>2. CASE ~alone /\ MovesUp
      BY <1>5, <1>6, <1>7, <1>8, <2>2, <3>2 DEF Fetches2
    <3>3. CASE ~alone /\ ~MovesUp
      BY <1>5, <1>6, <1>8, <1>9, <2>2, <3>3 DEF Fetches2
    <3>4. QED
      BY <3>1, <3>2, <3>3
  <2>4. QED
    BY <1>4, <1>13, <2>3
<1>14. QED
  BY <1>11, <1>12, <1>13

LEMMA DualStagesAre ==
  ASSUME NEW acc, NEW acc2, NEW first, NEW second, NEW guess, NEW guess2, NEW file, NEW done1,
         NEW done2, NEW flush, NEW stall,
         DualTickOf(acc, acc2, first, second, guess, guess2, file, done1, done2, flush, stall)
  PROVE  /\ From(memwb', exmem) /\ From(memwb2', exmem2) /\ ~IsFused(memwb')
         /\ memwb2' # Empty /\ exmem.valid => memwb' # Empty
         /\ From(done1, idex) /\ From(done2, idex2) /\ ~IsFused(done1)
         /\ done2 # Empty => Executes2 /\ (idex.valid => done1 # Empty)
         /\ \/ exmem' = exmem /\ exmem2' = exmem2
            \/ exmem' = done1 /\ exmem2' = done2
         /\ \/ idex' = idex /\ idex2' = idex2
            \/ From(idex', ifid) /\ From(idex2', ifid2) /\ (idex2' # Empty => idex' # Empty)
         /\ setup' = setup /\ prog' = prog
<1> DEFINE fetches == ~stall /\ ~flush
           fetchStall == fetches /\ first.stall
           held == fetchStall \/ (idex.valid /\ ~done1.valid) \/ acc.stall
<1>1. /\ memwb' = NextMEMWB(acc, fetchStall) /\ memwb2' = NextMEMWB2(acc, acc2, fetchStall)
      /\ exmem' = (IF held THEN exmem ELSE done1) /\ exmem2' = (IF held THEN exmem2 ELSE done2)
      /\ idex' = CASE held -> idex
                   [] ~held /\ (flush \/ LoadUse \/ ~ifid.valid) -> Empty
                   [] OTHER -> Decoded(ifid, file)
      /\ idex2' = NextIDEX2(flush, held)
      /\ setup' = setup /\ prog' = prog
  BY DEF DualTickOf, DualCycle
<1>2. /\ done1 = IF Executes THEN Executed1 ELSE Empty
      /\ done2 = IF Executes2 THEN Executed2(done1) ELSE Empty
  BY DEF DualTickOf
<1> HIDE DEF fetches, fetchStall, held
<1>3. From(memwb', exmem) /\ ~IsFused(memwb')
  BY <1>1 DEF NextMEMWB, Leaving, From, IsFused, Empty
<1>4. From(memwb2', exmem2)
  BY <1>1 DEF NextMEMWB2, Leaving, From
<1>5. memwb2' # Empty /\ exmem.valid => memwb' # Empty
  BY <1>1 DEF NextMEMWB, NextMEMWB2, Leaving, Empty
<1>6. From(done1, idex) /\ ~IsFused(done1)
  <2>1. CASE Executes
    <3>1. idex.valid
      BY <2>1 DEF Executes
    <3>2. done1 = Executed1
      BY <1>2, <2>1
    <3>3. QED
      BY <3>1, <3>2 DEF Executed1, Result, From, IsFused
  <2>2. CASE ~Executes
    BY <1>2, <2>2 DEF From, IsFused, Empty
  <2>3. QED
    BY <2>1, <2>2
<1>7. From(done2, idex2) /\ (done2 # Empty => Executes2 /\ (idex.valid => done1 # Empty))
  <2>1. CASE Executes2
    <3>1. idex2.valid /\ ~MemStall /\ ~ExecStall
      BY <2>1 DEF Executes2, Begins2
    <3>2. done2 = Executed2(done1)
      BY <1>2, <2>1
    <3>3. From(done2, idex2)
      BY <3>1, <3>2 DEF Executed2, Result, From
    <3>4. idex.valid => done1 # Empty
      <4>1. SUFFICES ASSUME idex.valid PROVE done1 # Empty
        OBVIOUS
      <4>2. done1 = Executed1
        BY <1>2, <3>1, <4>1 DEF Executes
      <4>3. QED
        BY <4>2 DEF Executed1, Result, Empty
    <3>5. QED
      BY <2>1, <3>3, <3>4
  <2>2. CASE ~Executes2
    BY <1>2, <2>2 DEF From
  <2>3. QED
    BY <2>1, <2>2
<1>8. \/ idex' = idex /\ idex2' = idex2
      \/ From(idex', ifid) /\ From(idex2', ifid2) /\ (idex2' # Empty => idex' # Empty)
  <2>1. CASE held
    BY <1>1, <2>1 DEF NextIDEX2
  <2>2. CASE ~held
    <3>1. From(idex', ifid)
      BY <1>1, <2>2 DEF Decoded, From
    <3>2. idex2' = Empty \/ (Pairs /\ ~flush /\ ~LoadUse /\ idex2' = Decoded(ifid2, RegsNow2))
      BY <1>1, <2>2 DEF NextIDEX2
    <3>3. From(idex2', ifid2)
      BY <3>2 DEF Decoded, From, Pairs
    <3>4. idex2' # Empty => idex' # Empty
      <4>1. SUFFICES ASSUME idex2' # Empty PROVE idex' # Empty
        OBVIOUS
      <4>2. Pairs /\ ~flush /\ ~LoadUse
        BY <3>2, <4>1
      <4>3. idex' = Decoded(ifid, file)
        BY <1>1, <2>2, <4>2 DEF Pairs
      <4>4. QED
        BY <4>3 DEF Decoded, Empty
    <3>5. QED
      BY <3>1, <3>3, <3>4
  <2>3. QED
    BY <2>1, <2>2
<1>9. QED
  BY <1>1, <1>3, <1>4, <1>5, <1>6, <1>7, <1>8

LEMMA PlacedHolds ==
  ASSUME NEW p, NEW n, NEW g
  PROVE  Holds(p, Placed(n, InstAt(p, n), g).slot)
  BY DEF Placed, Fetched, Holds

LEMMA TickSuperscalarArranged ==
  ASSUME Arranged, TickSuperscalar
  PROVE  Arranged'
<1>1. Machine.width = 2 /\ RestEmpty /\ UNCHANGED restVars /\ DualTick
  BY DEF TickSuperscalar, Arranged
<1>2. PICK acc, acc2, first, second, guess, guess2, file, done1, done2, flush, stall :
        DualTickOf(acc, acc2, first, second, guess, guess2, file, done1, done2, flush, stall)
  BY <1>1, DualTickIs
<1>3. /\ From(memwb', exmem) /\ From(memwb2', exmem2) /\ ~IsFused(memwb')
      /\ From(done1, idex) /\ From(done2, idex2) /\ ~IsFused(done1)
      /\ \/ exmem' = exmem /\ exmem2' = exmem2
         \/ exmem' = done1 /\ exmem2' = done2
      /\ \/ idex' = idex /\ idex2' = idex2
         \/ From(idex', ifid) /\ From(idex2', ifid2)
      /\ setup' = setup /\ prog' = prog
  BY <1>2, DualStagesAre
<1>4. Sized
  BY DEF Arranged
<1>5. /\ Holds(prog, ifid) /\ Holds(prog, ifid2) /\ Holds(prog, idex) /\ Holds(prog, idex2)
      /\ Holds(prog, exmem) /\ Holds(prog, exmem2)
  <2>1. 1 \in Slots /\ 2 \in Slots
    BY DEF Slots
  <2>2. QED
    BY <1>4, <2>1, StagesAreSized DEF Arranged, HoldsAll
<1>6. Holds(prog, memwb') /\ Holds(prog, memwb2')
  BY <1>3, <1>5, FromHolds
<1>7. Holds(prog, exmem') /\ Holds(prog, exmem2')
  <2>1. Holds(prog, done1) /\ Holds(prog, done2)
    BY <1>3, <1>5, FromHolds
  <2>2. QED
    BY <1>3, <1>5, <2>1
<1>8. Holds(prog, idex') /\ Holds(prog, idex2')
  <2>1. CASE idex' = idex /\ idex2' = idex2
    BY <1>5, <2>1
  <2>2. CASE From(idex', ifid) /\ From(idex2', ifid2)
    BY <1>5, <2>2, FromHolds
  <2>3. QED
    BY <1>3, <2>1, <2>2
<1>9. Holds(prog, ifid') /\ Holds(prog, ifid2')
  <2>1. Holds(prog, Empty)
    BY DEF Holds
  <2>2. /\ Holds(prog, Placed(pc, InstAt(prog, pc), guess).slot)
        /\ Holds(prog, Placed(SecondPC, InstAt(prog, SecondPC), guess2).slot)
    BY PlacedHolds
  <2>3. \/ ifid' = Empty /\ ifid2' = Empty
        \/ ifid' = ifid /\ ifid2' = ifid2
        \/ Fetches2(first, second, guess, guess2)
    BY <1>2, DualFetchIs
  <2>4. CASE Fetches2(first, second, guess, guess2)
    <3>1. /\ ifid' \in {ifid2, Placed(pc, InstAt(prog, pc), guess).slot}
          /\ ifid2' \in {Empty, Placed(SecondPC, InstAt(prog, SecondPC), guess2).slot}
      BY <2>4 DEF Fetches2
    <3>2. QED
      BY <1>5, <2>1, <2>2, <3>1
  <2>5. QED
    BY <1>5, <2>1, <2>3, <2>4
<1>10. /\ ifids' = NoSlots /\ idexs' = NoSlots /\ exmems' = NoSlots /\ memwbs' = NoSlots
       /\ exLatencies' = [k \in 1 .. 6 |-> 0]
  BY <1>1 DEF RestEmpty, restVars
<1>11. HoldsAll(prog, IDEXs') /\ HoldsAll(prog, EXMEMs') /\ HoldsAll(prog, MEMWBs')
  BY <1>6, <1>7, <1>8, <1>10, StagesAreNext, DualStageHolds
<1>12. Sized'
  <2>1. IsSequence(NoSlots, 6) /\ IsSequence([k \in 1 .. 6 |-> 0], 6)
    BY DEF NoSlots, IsSequence
  <2>2. QED
    BY <1>10, <2>1 DEF Sized
<1>13. Machine' = Machine
  BY <1>3 DEF Machine
<1>14. RestEmpty'
  <2>1. ~IsFused(exmem')
    <3>1. CASE exmem' = exmem
      BY <1>1, <3>1 DEF RestEmpty
    <3>2. CASE exmem' = done1
      BY <1>3, <3>2
    <3>3. QED
      BY <1>3, <3>1, <3>2
  <2>2. QED
    BY <1>3, <1>10, <2>1 DEF RestEmpty
<1>15. QED
  BY <1>1, <1>3, <1>9, <1>11, <1>12, <1>13, <1>14 DEF Arranged

LEMMA InitArranged == WideInit => Arranged
<1> SUFFICES ASSUME WideInit PROVE Arranged
  OBVIOUS
<1>1. setup \in DOMAIN Setups /\ prog \in Machine.programs /\ pc = 0
  BY DEF WideInit, Init2, Init
<1>2. /\ ifid = Empty /\ ifid2 = Empty /\ idex = Empty /\ idex2 = Empty
      /\ exmem = Empty /\ exmem2 = Empty /\ memwb = Empty /\ memwb2 = Empty
  BY DEF WideInit, Init2, Init
<1>3. /\ ifids = NoSlots /\ idexs = NoSlots /\ exmems = NoSlots /\ memwbs = NoSlots
      /\ exLatencies = [k \in 1 .. 6 |-> 0]
  BY DEF WideInit
<1>4. Sized
  BY <1>3 DEF Sized, IsSequence, NoSlots
<1>5. Holds(prog, Empty)
  BY DEF Holds
<1>6. HoldsAll(prog, Stage(Empty, Empty, NoSlots))
  BY <1>5, DualStageHolds
<1>7. /\ IFIDs = Stage(Empty, Empty, NoSlots) /\ IDEXs = Stage(Empty, Empty, NoSlots)
      /\ EXMEMs = Stage(Empty, Empty, NoSlots) /\ MEMWBs = Stage(Empty, Empty, NoSlots)
  BY <1>2, <1>3, StagesAre
<1>8. Stage(Empty, Empty, NoSlots) = AllEmpty
  <2>1. IsSequence(AllEmpty, 8) /\ \A k \in 1 .. 8 : AllEmpty[k] = Empty
    BY DEF AllEmpty, IsSequence, Slots
  <2>2. IsSequence(NoSlots, 6) /\ \A k \in 1 .. 6 : NoSlots[k] = Empty
    BY DEF NoSlots, IsSequence
  <2> DEFINE x == Stage(Empty, Empty, NoSlots)
  <2>3. /\ IsSequence(x, 8) /\ x[1] = Empty /\ x[2] = Empty
        /\ \A k \in 3 .. 8 : x[k] = NoSlots[k - 2]
    BY <2>2, StageIs
  <2> HIDE DEF x
  <2>4. ASSUME NEW k \in 1 .. 8 PROVE x[k] = AllEmpty[k]
    <3>1. CASE k \in {1, 2}
      BY <2>1, <2>3, <3>1
    <3>2. CASE k \in 3 .. 8
      BY <2>1, <2>2, <2>3, <3>2
    <3>3. QED
      BY <3>1, <3>2
  <2>5. x = AllEmpty
    BY <2>1, <2>3, <2>4, SequencesEqual
  <2>6. QED
    BY <2>5 DEF x
<1>9. FetchedInOrder /\ InOrder(prog, IDEXs)
  <2>1. InOrder(prog, AllEmpty) /\ \A k \in Slots : AllEmpty[k] = Empty /\ ~AllEmpty[k].valid
    BY AllEmptyInOrder, EmptyIsNot DEF AllEmpty
  <2>2. LastLeads(prog, AllEmpty, pc)
    BY <2>1 DEF LastLeads
  <2>3. IFIDs[1] = ifid /\ IFIDs[2] = ifid2
    BY <1>4, StagesAreSized
  <2>4. QED
    BY <1>7, <1>8, <2>1, <2>2, <2>3 DEF FetchedInOrder
<1>10. ~IsFused(Empty)
  BY DEF IsFused, Empty
<1>11. RestEmpty
  BY <1>2, <1>3, <1>10 DEF RestEmpty
<1>12. QED
  BY <1>1, <1>2, <1>4, <1>5, <1>6, <1>7, <1>9, <1>11 DEF Arranged

LEMMA StutterArranged == Arranged /\ UNCHANGED wideVars => Arranged'
<1> SUFFICES ASSUME Arranged, UNCHANGED wideVars PROVE Arranged'
  OBVIOUS
<1>1. /\ UNCHANGED <<setup, prog, pc, ifid, idex, exmem, memwb, exLatency>>
      /\ UNCHANGED <<ifid2, idex2, exmem2, memwb2, exLatency2>>
      /\ UNCHANGED <<ifids, idexs, exmems, memwbs, exLatencies>>
  BY DEF wideVars, dualVars, vars, machine, restVars
<1>2. /\ IFIDs' = IFIDs /\ IDEXs' = IDEXs /\ EXMEMs' = EXMEMs /\ MEMWBs' = MEMWBs
      /\ Machine' = Machine /\ Sized' = Sized
  BY <1>1 DEF IFIDs, IDEXs, EXMEMs, MEMWBs, Machine, Sized
<1>3. FetchedInOrder' = FetchedInOrder /\ RestEmpty' = RestEmpty
  BY <1>1, <1>2 DEF FetchedInOrder, RestEmpty
<1>4. QED
  BY <1>1, <1>2, <1>3 DEF Arranged

(* Every register of every slot is empty or holds the instruction of the       *)
(* program at its address, and the first stages of a wide machine hold a path. *)
THEOREM AlwaysArranged == IssueSpec => []Arranged
<1>1. Arranged /\ [IssueTick]_wideVars => Arranged'
  BY WideTickArranged, TickSuperscalarArranged, StutterArranged DEF IssueTick
<1>2. QED
  BY InitArranged, <1>1, PTL DEF IssueSpec

---------------------------------------------------------------------------
(* Statistics.Instructions.                                                *)

\* Instructions counted, or yet to be counted when they leave MEM/WB.
GroupAccounted == retired + CountIn(EXMEMs) + CountIn(MEMWBs)

LEMMA CountInType ==
  ASSUME NEW s
  PROVE  CountIn(s) \in Nat
<1>1. IsFiniteSet(Slots)
  <2>1. 1 \in Int /\ 8 \in Int
    OBVIOUS
  <2>2. /\ IsFiniteSet(1 .. 8)
        /\ Cardinality(1 .. 8) = IF 1 > 8 THEN 0 ELSE 8 - 1 + 1
    BY <2>1, FS_Interval
  <2>3. QED
    BY <2>2, Zenon DEF Slots
<1>2. Occupied(s) \in SUBSET Slots
  BY DEF Occupied
<1>3. Cardinality(Occupied(s)) \in Nat
  BY <1>1, <1>2, FS_Subset, FS_CardinalityType
<1>4. QED
  BY <1>3 DEF CountIn

LEMMA CountOfNone ==
  ASSUME NEW s, \A k \in Slots : s[k] = Empty
  PROVE  CountIn(s) = 0
<1>1. Occupied(s) = {}
  BY EmptyIsNot DEF Occupied
<1>2. Cardinality(Occupied(s)) = 0
  BY <1>1, FS_EmptySet
<1>3. ~IsFused(s[1])
  BY DEF IsFused, Empty, Slots
<1>4. QED
  BY <1>2, <1>3 DEF CountIn

LEMMA CountOfSame ==
  ASSUME NEW s, NEW t, \A k \in Slots : s[k].valid <=> t[k].valid, IsFused(s[1]) <=> IsFused(t[1])
  PROVE  CountIn(s) = CountIn(t)
<1>1. Occupied(s) = Occupied(t)
  BY DEF Occupied
<1>2. QED
  BY <1>1 DEF CountIn

LEMMA CountOfTwo ==
  ASSUME NEW a, NEW b, ~IsFused(a)
  PROVE  CountIn(Stage(a, b, NoSlots))
           = (IF a.valid THEN 1 ELSE 0) + (IF b.valid THEN 1 ELSE 0)
<1> DEFINE s == Stage(a, b, NoSlots)
<1>1. IsSequence(NoSlots, 6) /\ \A k \in 1 .. 6 : NoSlots[k] = Empty
  BY DEF NoSlots, IsSequence
<1>2. s[1] = a /\ s[2] = b /\ \A k \in 3 .. 8 : s[k] = NoSlots[k - 2]
  BY <1>1, StageIs
<1>3. \A k \in 3 .. 8 : s[k] = Empty
  <2>1. \A k \in 3 .. 8 : k - 2 \in 1 .. 6
    OBVIOUS
  <2>2. QED
    BY <1>1, <1>2, <2>1
<1> HIDE DEF s
<1>4. Occupied(s) = (IF a.valid THEN {1} ELSE {}) \cup (IF b.valid THEN {2} ELSE {})
  <2>1. \A k \in 3 .. 8 : ~s[k].valid
    BY <1>3, EmptyIsNot
  <2>2. \A k : k \in Slots <=> k = 1 \/ k = 2 \/ k \in 3 .. 8
    BY DEF Slots
  <2>3. \A k : k \in Occupied(s) <=> (k = 1 /\ a.valid) \/ (k = 2 /\ b.valid)
    BY <1>2, <2>1, <2>2 DEF Occupied
  <2>4. QED
    BY <2>3
<1>5. Cardinality(Occupied(s)) = (IF a.valid THEN 1 ELSE 0) + (IF b.valid THEN 1 ELSE 0)
  <2>1. Cardinality({}) = 0 /\ Cardinality({1}) = 1 /\ Cardinality({2}) = 1
    BY FS_EmptySet, FS_Singleton
  <2>2. Cardinality({1} \cup {2}) = 2
    BY <2>1, FS_Singleton, FS_AddElement
  <2>3. CASE a.valid /\ b.valid
    <3>1. Occupied(s) = {1} \cup {2}
      BY <1>4, <2>3
    <3>2. QED
      BY <2>2, <2>3, <3>1
  <2>4. CASE a.valid /\ ~b.valid
    <3>1. Occupied(s) = {1}
      BY <1>4, <2>4
    <3>2. QED
      BY <2>1, <2>4, <3>1
  <2>5. CASE ~a.valid /\ b.valid
    <3>1. Occupied(s) = {2}
      BY <1>4, <2>5
    <3>2. QED
      BY <2>1, <2>5, <3>1
  <2>6. CASE ~a.valid /\ ~b.valid
    <3>1. Occupied(s) = {}
      BY <1>4, <2>6
    <3>2. QED
      BY <2>1, <2>6, <3>1
  <2>7. QED
    BY <2>3, <2>4, <2>5, <2>6
<1>6. QED
  BY <1>2, <1>5 DEF CountIn, s

\* What leaves EX/MEM is counted as it was there.
LEMMA CountOfNextMEMWBs ==
  ASSUME NEW p, HoldsAll(p, EXMEMs), NEW access
  PROVE  CountIn(NextMEMWBs(access)) = IF access.stall THEN 0 ELSE CountIn(EXMEMs)
<1> DEFINE ms == NextMEMWBs(access)
<1>1. CASE access.stall
  <2>1. \A k \in Slots : ms[k] = Empty
    BY <1>1 DEF NextMEMWBs
  <2>2. QED
    BY <1>1, <2>1, CountOfNone
<1>2. CASE ~access.stall
  <2>1. ASSUME NEW k \in Slots PROVE ms[k].valid <=> EXMEMs[k].valid
    BY <1>2, EmptyIsNot DEF NextMEMWBs, Leaving
  <2>2. IsFused(ms[1]) <=> IsFused(EXMEMs[1])
    <3>1. 1 \in Slots
      BY DEF Slots
    <3>2. CASE EXMEMs[1].valid
      BY <1>2, <3>1, <3>2 DEF NextMEMWBs, IsFused, Leaving
    <3>3. CASE ~EXMEMs[1].valid
      <4>1. EXMEMs[1] = Empty
        BY <3>1, <3>3 DEF HoldsAll, Holds
      <4>2. ms[1] = Empty
        BY <3>1, <3>3 DEF NextMEMWBs
      <4>3. QED
        BY <4>1, <4>2
    <3>4. QED
      BY <3>2, <3>3
  <2> HIDE DEF ms
  <2>3. CountIn(ms) = CountIn(EXMEMs)
    BY <2>1, <2>2, CountOfSame
  <2>4. QED
    BY <1>2, <2>3 DEF ms
<1>3. QED
  BY <1>1, <1>2

Numbers == retired \in Nat /\ executed \in Nat

LEMMA WideTickCounts ==
  ASSUME Arranged, Numbers, WideTick
  PROVE  /\ Numbers'
         /\ \/ GroupAccounted' - executed' = GroupAccounted - executed
            \/ ExecStalls /\ GroupAccounted' - executed' = GroupAccounted - executed + CountIn(EXMEMs)
         /\ AtOnce => \A k \in Slots : Latencies'[k] = 0
         /\ setup' = setup
<1>1. PICK written, access, exec : /\ ExecutedTo(exec, 8, access.stall)
                                   /\ WideCycle(written, access, exec, IssueCount)
  BY WideTickIs
<1>2. /\ MEMWBs' = NextMEMWBs(access) /\ Latencies' = exec.left
      /\ EXMEMs' = (IF Held(access) THEN EXMEMs ELSE exec.next)
      /\ retired' = retired + CountIn(MEMWBs)
      /\ executed' = executed + (IF Held(access) THEN 0 ELSE CountIn(exec.next))
      /\ setup' = setup
  BY <1>1, WideCycleStages DEF Arranged
<1> DEFINE m == CountIn(MEMWBs)
           e == CountIn(EXMEMs)
           n == CountIn(exec.next)
           stall == access.stall
           held == Held(access)
<1>3. m \in Nat /\ e \in Nat /\ n \in Nat
  BY CountInType
<1>4. CountIn(MEMWBs') = IF stall THEN 0 ELSE e
  BY <1>2, CountOfNextMEMWBs DEF Arranged
<1>5. CountIn(EXMEMs') = IF held THEN e ELSE n
  BY <1>2
<1>6. GroupAccounted = retired + e + m
  BY DEF GroupAccounted
<1>7. GroupAccounted' = retired' + (IF held THEN e ELSE n) + (IF stall THEN 0 ELSE e)
  <2>1. GroupAccounted' = retired' + CountIn(EXMEMs') + CountIn(MEMWBs')
    BY DEF GroupAccounted, CountIn, Occupied, IsFused, Slots
  <2>2. QED
    BY <1>4, <1>5, <2>1
<1>8. held <=> stall \/ ExecStalls
  BY DEF Held
<1>9. retired' = retired + m /\ executed' = executed + (IF held THEN 0 ELSE n)
  BY <1>2
<1>10. retired \in Nat /\ executed \in Nat
  BY DEF Numbers
<1> HIDE DEF m, e, n, stall, held
<1>11. \/ GroupAccounted' - executed' = GroupAccounted - executed
       \/ ExecStalls /\ GroupAccounted' - executed' = GroupAccounted - executed + e
  <2>1. CASE ~held
    BY <1>3, <1>6, <1>7, <1>8, <1>9, <1>10, <2>1
  <2>2. CASE held /\ stall
    BY <1>3, <1>6, <1>7, <1>9, <1>10, <2>2
  <2>3. CASE held /\ ~stall
    BY <1>3, <1>6, <1>7, <1>8, <1>9, <1>10, <2>3
  <2>4. QED
    BY <2>1, <2>2, <2>3
<1>12. Numbers'
  BY <1>3, <1>9, <1>10 DEF Numbers
<1>13. AtOnce => \A k \in Slots : Latencies'[k] = 0
  BY <1>1, <1>2 DEF ExecutedTo, Slots
<1>14. QED
  BY <1>2, <1>11, <1>12, <1>13 DEF e

\* Every operation of the machine takes one cycle.
LEMMA AllAtOnce ==
  ASSUME Arranged, InOneCycle, \A k \in Slots : Latencies[k] = 0
  PROVE  AtOnce
<1>1. ASSUME NEW k \in Slots, IDEXs[k].valid PROVE CyclesLeft(0, IDEXs[k]) = 1
  <2>1. InstructionOf(prog, IDEXs[k])
    BY <1>1, HoldsInstruction DEF Arranged, HoldsAll
  <2>2. prog \in Machine.programs /\ setup \in DOMAIN Setups
    BY DEF Arranged
  <2>3. \A a \in DOMAIN prog : prog[a] \in Inst
    BY <2>2, PipelineAssumption DEF Machine
  <2>4. IDEXs[k].inst \in Inst
    BY <2>1, <2>3, InstAtType DEF InstructionOf
  <2>5. IDEXs[k].inst.op \in Ops
    BY <2>4, InstFields
  <2>6. Machine.latency[IDEXs[k].inst.op] = 1
    BY <2>5 DEF InOneCycle
  <2>7. QED
    BY <2>6 DEF CyclesLeft
<1>2. QED
  BY <1>1 DEF AtOnce

LEMMA AtOnceFacts ==
  ASSUME Arranged, AtOnce
  PROVE  /\ exLatency = 0 /\ exLatency2 = 0
         /\ idex.valid => CyclesLeft(exLatency, idex) = 1
         /\ idex2.valid => CyclesLeft(exLatency2, idex2) = 1
         /\ ~ExecStalls /\ ~ExecStall
<1>1. 1 \in Slots /\ 2 \in Slots
  BY DEF Slots
<1>2. /\ Latencies[1] = exLatency /\ Latencies[2] = exLatency2
      /\ IDEXs[1] = idex /\ IDEXs[2] = idex2
  BY StagesAreSized DEF Arranged
<1>3. exLatency = 0 /\ exLatency2 = 0
  BY <1>1, <1>2 DEF AtOnce
<1>4. /\ idex.valid => CyclesLeft(exLatency, idex) = 1
      /\ idex2.valid => CyclesLeft(exLatency2, idex2) = 1
  BY <1>1, <1>2, <1>3 DEF AtOnce
<1>5. QED
  BY <1>3, <1>4 DEF ExecStalls, ExecStall

\* The instructions of a register, unless it holds a fused pair.
One(s) == IF s.valid THEN 1 ELSE 0

LEMMA OneIs ==
  /\ \A s : One(s) \in {0, 1}
  /\ One(Empty) = 0
  BY DEF One, Empty

LEMMA TwoSlotCounts ==
  Arranged /\ Machine.width = 2 =>
    GroupAccounted = retired + (One(exmem) + One(exmem2)) + (One(memwb) + One(memwb2))
<1> SUFFICES ASSUME Arranged, Machine.width = 2
             PROVE  /\ CountIn(EXMEMs) = One(exmem) + One(exmem2)
                    /\ CountIn(MEMWBs) = One(memwb) + One(memwb2)
  BY DEF GroupAccounted
<1>1. /\ exmems = NoSlots /\ memwbs = NoSlots /\ ~IsFused(exmem) /\ ~IsFused(memwb)
  BY DEF Arranged, RestEmpty
<1>2. EXMEMs = Stage(exmem, exmem2, NoSlots) /\ MEMWBs = Stage(memwb, memwb2, NoSlots)
  BY <1>1, StagesAre
<1>3. QED
  BY <1>1, <1>2, CountOfTwo DEF One

\* What a tick of two slots that each take one cycle counts and leaves.
LEMMA DualTickCounts ==
  ASSUME Arranged, Numbers, TickSuperscalar, AtOnce
  PROVE  /\ Numbers'
         /\ GroupAccounted' - executed' = GroupAccounted - executed
         /\ exLatency' = 0 /\ exLatency2' = 0 /\ setup' = setup
<1>1. Machine.width = 2 /\ DualTick
  BY DEF TickSuperscalar
<1>2. PICK acc, acc2, first, second, guess, guess2, file, done1, done2, flush, stall :
        DualTickOf(acc, acc2, first, second, guess, guess2, file, done1, done2, flush, stall)
  BY <1>1, DualTickIs
<1> DEFINE fetches == ~stall /\ ~flush
           fetchStall == fetches /\ first.stall
           held == fetchStall \/ (idex.valid /\ ~done1.valid) \/ acc.stall
<1>3. /\ memwb' = NextMEMWB(acc, fetchStall) /\ memwb2' = NextMEMWB2(acc, acc2, fetchStall)
      /\ exmem' = (IF held THEN exmem ELSE done1) /\ exmem2' = (IF held THEN exmem2 ELSE done2)
      /\ retired' = retired + (IF memwb.valid THEN 1 ELSE 0) + (IF memwb2.valid THEN 1 ELSE 0)
      /\ executed' = executed + (IF done1.valid /\ ~fetchStall THEN 1 ELSE 0)
                              + (IF done2.valid /\ ~fetchStall THEN 1 ELSE 0)
      /\ exLatency' = (IF idex.valid /\ ~acc.stall THEN CyclesLeft(exLatency, idex) - 1 ELSE exLatency)
      /\ exLatency2' = (IF Begins2 THEN CyclesLeft(exLatency2, idex2) - 1 ELSE exLatency2)
      /\ setup' = setup
  BY <1>2 DEF DualTickOf, DualCycle
<1>4. /\ done1 = (IF Executes THEN Executed1 ELSE Empty)
      /\ done2 = (IF Executes2 THEN Executed2(done1) ELSE Empty)
      /\ acc.stall <=> MemStall
  BY <1>2 DEF DualTickOf, MemStall
<1>5. held <=> fetchStall \/ (idex.valid /\ ~done1.valid) \/ acc.stall
  OBVIOUS
<1> HIDE DEF fetches, fetchStall, held
<1>6. /\ exLatency = 0 /\ exLatency2 = 0
      /\ idex.valid => CyclesLeft(exLatency, idex) = 1
      /\ idex2.valid => CyclesLeft(exLatency2, idex2) = 1
      /\ ~ExecStall
  BY AtOnceFacts
<1>7. acc.stall => done1 = Empty /\ done2 = Empty
  BY <1>4 DEF Executes, Executes2, Begins2
<1>8. ~acc.stall /\ idex.valid => done1.valid
  <2>1. SUFFICES ASSUME ~acc.stall, idex.valid PROVE done1.valid
    OBVIOUS
  <2>2. done1 = Executed1
    BY <1>4, <1>6, <2>1 DEF Executes
  <2>3. QED
    BY <2>2 DEF Executed1, Result
<1>9. One(memwb') = (IF acc.stall \/ fetchStall THEN 0 ELSE One(exmem))
  BY <1>3 DEF NextMEMWB, Leaving, One, Empty
<1>10. One(memwb2') = (IF acc.stall \/ fetchStall THEN 0 ELSE One(exmem2))
  BY <1>3 DEF NextMEMWB2, Leaving, One, Empty
<1>11. /\ One(exmem') = (IF held THEN One(exmem) ELSE One(done1))
       /\ One(exmem2') = (IF held THEN One(exmem2) ELSE One(done2))
  BY <1>3
<1>12. /\ retired' = retired + One(memwb) + One(memwb2)
       /\ executed' = executed + (IF fetchStall THEN 0 ELSE One(done1))
                               + (IF fetchStall THEN 0 ELSE One(done2))
  BY <1>3 DEF One
<1>13. held <=> fetchStall \/ acc.stall
  BY <1>5, <1>8
<1>14. acc.stall => One(done1) = 0 /\ One(done2) = 0
  BY <1>7, OneIs
<1>15. GroupAccounted = retired + (One(exmem) + One(exmem2)) + (One(memwb) + One(memwb2))
  BY <1>1, TwoSlotCounts
<1>16. GroupAccounted' = retired' + (One(exmem') + One(exmem2')) + (One(memwb') + One(memwb2'))
  <2>1. (Arranged /\ Machine.width = 2 =>
           GroupAccounted = retired + (One(exmem) + One(exmem2)) + (One(memwb) + One(memwb2)))'
    BY TwoSlotCounts, PTL
  <2>2. Arranged'
    BY TickSuperscalarArranged
  <2>3. Machine'.width = 2
    BY <1>1, <1>3 DEF Machine
  <2>4. QED
    BY <2>1, <2>2, <2>3 DEF One
<1>17. retired \in Nat /\ executed \in Nat
  BY DEF Numbers
<1> DEFINE e1 == One(exmem)
           e2 == One(exmem2)
           m1 == One(memwb)
           m2 == One(memwb2)
           d1 == One(done1)
           d2 == One(done2)
<1>18. {e1, e2, m1, m2, d1, d2} \subseteq {0, 1}
  BY OneIs
<1>19. GroupAccounted = retired + (e1 + e2) + (m1 + m2)
  BY <1>15
<1>20. GroupAccounted' = retired + m1 + m2
         + ((IF held THEN e1 ELSE d1) + (IF held THEN e2 ELSE d2))
         + ((IF acc.stall \/ fetchStall THEN 0 ELSE e1) + (IF acc.stall \/ fetchStall THEN 0 ELSE e2))
  BY <1>9, <1>10, <1>11, <1>12, <1>16
<1>21. /\ retired' = retired + m1 + m2
       /\ executed' = executed + (IF fetchStall THEN 0 ELSE d1) + (IF fetchStall THEN 0 ELSE d2)
       /\ acc.stall => d1 = 0 /\ d2 = 0
  BY <1>12, <1>14
<1> HIDE DEF e1, e2, m1, m2, d1, d2
<1>22. GroupAccounted' - executed' = GroupAccounted - executed
  <2>1. CASE fetchStall
    BY <1>13, <1>17, <1>18, <1>19, <1>20, <1>21, <2>1
  <2>2. CASE ~fetchStall /\ acc.stall
    BY <1>13, <1>17, <1>18, <1>19, <1>20, <1>21, <2>2
  <2>3. CASE ~fetchStall /\ ~acc.stall
    BY <1>13, <1>17, <1>18, <1>19, <1>20, <1>21, <2>3
  <2>4. QED
    BY <2>1, <2>2, <2>3
<1>23. Numbers'
  BY <1>17, <1>18, <1>21 DEF Numbers
<1>24. exLatency' = 0
  BY <1>3, <1>6
<1>25. exLatency2' = 0
  BY <1>3, <1>6 DEF Begins2
<1>26. QED
  BY <1>3, <1>22, <1>23, <1>24, <1>25

LEMMA GroupAccountedType == Numbers => GroupAccounted \in Int
<1>1. CountIn(EXMEMs) \in Nat /\ CountIn(MEMWBs) \in Nat
  BY CountInType
<1>2. QED
  BY <1>1 DEF GroupAccounted, Numbers

\* The invariant behind the count: no slot of EX is left busy.
NoneBusy == \A k \in Slots : Latencies[k] = 0
GroupCounted == InOneCycle => Numbers /\ NoneBusy /\ executed = GroupAccounted

LEMMA IssueTickCounts ==
  ASSUME Arranged, InOneCycle, GroupCounted, IssueTick
  PROVE  /\ Numbers' /\ NoneBusy' /\ executed' = GroupAccounted'
         /\ setup' = setup
<1>1. Numbers /\ NoneBusy /\ executed = GroupAccounted
  BY DEF GroupCounted
<1>2. AtOnce
  BY <1>1, AllAtOnce DEF NoneBusy
<1>3. GroupAccounted \in Int /\ executed \in Int
  BY <1>1, GroupAccountedType DEF Numbers
<1>4. CASE WideTick
  <2>1. /\ Numbers' /\ setup' = setup /\ \A k \in Slots : Latencies'[k] = 0
        /\ \/ GroupAccounted' - executed' = GroupAccounted - executed
           \/ ExecStalls
    BY <1>1, <1>2, <1>4, WideTickCounts
  <2>2. ~ExecStalls
    BY <1>2, AtOnceFacts
  <2>3. NoneBusy'
    BY <2>1 DEF NoneBusy, Slots
  <2>4. GroupAccounted' - executed' = GroupAccounted - executed
    BY <2>1, <2>2
  <2>5. GroupAccounted' \in Int /\ executed' \in Int
    <3>1. (Numbers => GroupAccounted \in Int)'
      BY GroupAccountedType, PTL
    <3>2. QED
      BY <2>1, <3>1 DEF Numbers
  <2>6. executed' = GroupAccounted'
    BY <1>1, <1>3, <2>4, <2>5, DifferenceKept, Zenon
  <2>7. QED
    BY <2>1, <2>3, <2>6
<1>5. CASE TickSuperscalar
  <2>1. /\ Numbers' /\ setup' = setup /\ exLatency' = 0 /\ exLatency2' = 0
        /\ GroupAccounted' - executed' = GroupAccounted - executed
    BY <1>1, <1>2, <1>5, DualTickCounts
  <2>2. NoneBusy'
    <3>1. exLatencies' = [k \in 1 .. 6 |-> 0]
      BY <1>5 DEF TickSuperscalar, restVars, Arranged, RestEmpty
    <3>2. IsSequence([k \in 1 .. 6 |-> 0], 6)
      BY DEF IsSequence
    <3> DEFINE n == [k \in 1 .. 6 |-> 0]
               l == Stage(0, 0, n)
    <3>3. \A k \in 1 .. 6 : n[k] = 0
      OBVIOUS
    <3> HIDE DEF n
    <3>4. Latencies' = l
      BY <2>1, <3>1, StagesAreNext DEF n
    <3>5. IsSequence(n, 6)
      BY <3>2 DEF n
    <3>6. l[1] = 0 /\ l[2] = 0 /\ \A k \in 3 .. 8 : l[k] = n[k - 2]
      BY <3>5, StageIs
    <3> HIDE DEF l
    <3>7. \A k \in Slots : l[k] = 0
      <4>1. \A k \in 3 .. 8 : k - 2 \in 1 .. 6
        OBVIOUS
      <4>2. \A k \in Slots : k = 1 \/ k = 2 \/ k \in 3 .. 8
        BY DEF Slots
      <4>3. QED
        BY <3>3, <3>6, <4>1, <4>2
    <3>8. QED
      BY <3>4, <3>7 DEF NoneBusy, Slots
  <2>3. GroupAccounted' \in Int /\ executed' \in Int
    <3>1. (Numbers => GroupAccounted \in Int)'
      BY GroupAccountedType, PTL
    <3>2. QED
      BY <2>1, <3>1 DEF Numbers
  <2>4. executed' = GroupAccounted'
    BY <1>1, <1>3, <2>1, <2>3, DifferenceKept, Zenon
  <2>5. QED
    BY <2>1, <2>2, <2>4
<1>6. QED
  BY <1>4, <1>5 DEF IssueTick

LEMMA SetupKept ==
  ASSUME Arranged, IssueTick
  PROVE  setup' = setup
<1>1. CASE WideTick
  BY <1>1, WideTickIs, WideCycleStages DEF Arranged
<1>2. CASE TickSuperscalar
  BY <1>2, DualTickIs, DualStagesAre DEF TickSuperscalar
<1>3. QED
  BY <1>1, <1>2 DEF IssueTick

LEMMA InitCounted == WideInit => GroupCounted
<1> SUFFICES ASSUME WideInit PROVE Numbers /\ NoneBusy /\ executed = GroupAccounted
  BY DEF GroupCounted
<1>1. retired = 0 /\ executed = 0
  BY DEF WideInit, Init2, Init
<1>2. /\ exmem = Empty /\ exmem2 = Empty /\ memwb = Empty /\ memwb2 = Empty
      /\ exmems = NoSlots /\ memwbs = NoSlots
  BY DEF WideInit, Init2, Init
<1>3. EXMEMs = Stage(Empty, Empty, NoSlots) /\ MEMWBs = Stage(Empty, Empty, NoSlots)
  BY <1>2, StagesAre
<1>4. CountIn(EXMEMs) = 0 /\ CountIn(MEMWBs) = 0
  <2>1. ~IsFused(Empty) /\ ~Empty.valid
    BY DEF IsFused, Empty
  <2>2. QED
    BY <1>3, <2>1, CountOfTwo
<1>5. Numbers /\ executed = GroupAccounted
  BY <1>1, <1>4 DEF Numbers, GroupAccounted
<1>6. NoneBusy
  <2> DEFINE n == [k \in 1 .. 6 |-> 0]
             l == Stage(0, 0, n)
  <2>1. IsSequence(n, 6) /\ \A k \in 1 .. 6 : n[k] = 0
    BY DEF IsSequence
  <2>2. exLatency = 0 /\ exLatency2 = 0 /\ exLatencies = n
    BY DEF WideInit, Init2, Init
  <2> HIDE DEF n
  <2>3. Latencies = l
    BY <2>2, StagesAre
  <2>4. l[1] = 0 /\ l[2] = 0 /\ \A k \in 3 .. 8 : l[k] = n[k - 2]
    BY <2>1, StageIs
  <2> HIDE DEF l
  <2>5. \A k \in 3 .. 8 : k - 2 \in 1 .. 6
    OBVIOUS
  <2>6. \A k \in Slots : k = 1 \/ k = 2 \/ k \in 3 .. 8
    BY DEF Slots
  <2>7. QED
    BY <2>1, <2>3, <2>4, <2>5, <2>6 DEF NoneBusy
<1>7. QED
  BY <1>5, <1>6

\* Statistics.Instructions counts every instruction of every slot once, a fused pair as two,
\* on a machine of any width whose operations take one cycle, whatever waits for memory or
\* fetch, is mispredicted, issued together or moved up.
THEOREM AlwaysCountedOnce == IssueSpec => []GroupsCountedOnce
<1>1. Arranged /\ GroupCounted /\ [IssueTick]_wideVars => GroupCounted'
  <2> SUFFICES ASSUME Arranged, GroupCounted, [IssueTick]_wideVars PROVE GroupCounted'
    OBVIOUS
  <2>1. CASE IssueTick
    <3>1. SUFFICES ASSUME InOneCycle' PROVE Numbers' /\ NoneBusy' /\ executed' = GroupAccounted'
      BY DEF GroupCounted
    <3>2. setup' = setup
      BY <2>1, SetupKept
    <3>3. InOneCycle
      BY <3>1, <3>2 DEF InOneCycle, Machine
    <3>4. QED
      BY <2>1, <3>3, IssueTickCounts
  <2>2. CASE UNCHANGED wideVars
    <3>1. /\ UNCHANGED <<setup, retired, executed, exmem, memwb, exLatency>>
          /\ UNCHANGED <<exmem2, memwb2, exLatency2, exmems, memwbs, exLatencies>>
      BY <2>2 DEF wideVars, dualVars, vars, machine, restVars
    <3>2. /\ Latencies' = Latencies /\ GroupAccounted' = GroupAccounted
          /\ InOneCycle' = InOneCycle
      BY <3>1 DEF Latencies, GroupAccounted, CountIn, Occupied, EXMEMs, MEMWBs, InOneCycle, Machine
    <3>3. QED
      BY <3>1, <3>2 DEF GroupCounted, Numbers, NoneBusy
  <2>3. QED
    BY <2>1, <2>2
<1>2. GroupCounted => GroupsCountedOnce
  BY DEF GroupCounted, GroupsCountedOnce, GroupAccounted, InOneCycle
<1>3. QED
  BY <1>1, <1>2, InitCounted, AlwaysArranged, PTL DEF IssueSpec

---------------------------------------------------------------------------
(* Types of the two-wide machine.                                          *)

Latched2 ==
  /\ ifid2 \in FetchRegister \cup {Empty}
  /\ idex2 \in DecodeRegister \cup {Empty}
  /\ exmem2 \in ExecuteRegister \cup {Empty}
  /\ memwb2 \in MemoryRegister \cup {Empty}
  /\ exLatency2 \in Nat

TypedPair == Typed /\ Latched2

LEMMA ValidRegisters2 ==
  ASSUME Latched2
  PROVE  /\ ifid2.valid \in BOOLEAN /\ (ifid2.valid => ifid2 \in FetchRegister)
         /\ idex2.valid \in BOOLEAN /\ (idex2.valid => idex2 \in DecodeRegister)
         /\ exmem2.valid \in BOOLEAN /\ (exmem2.valid => exmem2 \in ExecuteRegister)
         /\ memwb2.valid \in BOOLEAN /\ (memwb2.valid => memwb2 \in MemoryRegister)
<1>1. Empty.valid = FALSE
  BY DEF Empty
<1>2. \A e \in FetchRegister \cup DecodeRegister \cup ExecuteRegister \cup MemoryRegister : e.valid = TRUE
  BY DEF FetchRegister, DecodeRegister, ExecuteRegister, MemoryRegister
<1>3. QED
  BY <1>1, <1>2, Zenon DEF Latched2

LEMMA WrittenType ==
  ASSUME TypedPair
  PROVE  Written \in [Regs -> Val] /\ RegsNow2 \in [Regs -> Val]
<1>1. AfterMEMWB \in [Regs -> Val]
  BY RegsNowType DEF TypedPair
<1>2. Written \in [Regs -> Val]
  <2>1. CASE memwb2.valid
    BY <1>1, <2>1, ValidRegisters2, WritebackType DEF TypedPair, Written
  <2>2. CASE ~memwb2.valid
    BY <1>1, <2>2 DEF Written, WritebackSlot
  <2>3. QED
    BY <2>1, <2>2
<1>3. QED
  BY <1>2, RegisterFacts DEF RegsNow2

LEMMA Operand1Type ==
  ASSUME TypedPair, NEW r \in Regs \cup {XZR}, NEW v \in Val
  PROVE  Operand1(r, v) \in Val
<1>1. exmem2.valid => exmem2.alu \in Val
  BY ValidRegisters2 DEF TypedPair, ExecuteRegister
<1>2. memwb2.valid => memwb2.alu \in Val
  BY ValidRegisters2 DEF TypedPair, MemoryRegister
<1>3. GetForwardedValue(r, v) \in Val
  BY ForwardType DEF TypedPair
<1>4. QED
  BY <1>1, <1>2, <1>3 DEF Operand1, Writes

LEMMA Operand2Type ==
  ASSUME TypedPair, NEW r \in Regs \cup {XZR}, NEW v \in Val,
         NEW first \in ExecuteRegister \cup {Empty}
  PROVE  Operand2(r, v, first) \in Val
<1>1. exmem2.valid => exmem2.alu \in Val
  BY ValidRegisters2 DEF TypedPair, ExecuteRegister
<1>2. memwb2.valid => memwb2.alu \in Val
  BY ValidRegisters2 DEF TypedPair, MemoryRegister
<1>3. first.valid => first.alu \in Val
  BY EmptyIsNot DEF ExecuteRegister
<1> DEFINE w == IF Writes(memwb2, r) THEN memwb2.alu ELSE v
<1>4. w \in Val
  BY <1>2 DEF Writes
<1> HIDE DEF w
<1>5. GetForwardedValue(r, w) \in Val
  BY <1>4, ForwardType DEF TypedPair
<1>6. QED
  BY <1>1, <1>3, <1>5 DEF Operand2, Writes, w

LEMMA MaxOfTwo ==
  ASSUME NEW T \in SUBSET {1, 2}, T # {}
  PROVE  Max(T) \in T
<1>1. \E m \in T : \A y \in T : m >= y
  <2>1. CASE 2 \in T
    BY <2>1
  <2>2. CASE 2 \notin T
    <3>1. T = {1}
      BY <2>2
    <3>2. QED
      BY <3>1
  <2>3. QED
    BY <2>1, <2>2
<1>2. QED
  BY <1>1 DEF Max

\* What is forwarded from all the registers of the two slots.
LEMMA ForwardPairType ==
  ASSUME TypedPair, NEW r, NEW v \in Val
  PROVE  ForwardFromAllSlots(<<exmem, exmem2>>, <<memwb, memwb2>>, r, v) \in Val
<1> DEFINE xs == <<exmem, exmem2>>
           ms == <<memwb, memwb2>>
           pairs(s) == s.valid /\ s.inst.op = "LDP" /\ RegWrite(s.inst) /\ s.inst.rt2 = r
           value(s) == IF Writes(s, r) THEN SlotValue(s) ELSE s.data2
           computed == {k \in {1, 2} : Writes(xs[k], r) /\ ~IsLoad(xs[k].inst)}
           retiring == {k \in {1, 2} : Writes(ms[k], r) \/ pairs(ms[k])}
<1>1. DOMAIN xs = {1, 2} /\ DOMAIN ms = {1, 2}
  OBVIOUS
<1>2. \A k \in {1, 2} : xs[k].valid => xs[k].alu \in Val
  <2>1. xs[1] = exmem /\ xs[2] = exmem2
    OBVIOUS
  <2>2. QED
    BY <2>1, ValidRegisters, ValidRegisters2 DEF TypedPair, Typed, ExecuteRegister
<1>3. \A k \in {1, 2} : ms[k].valid => ms[k].alu \in Val /\ ms[k].data \in Val /\ ms[k].data2 \in Val
  <2>1. ms[1] = memwb /\ ms[2] = memwb2
    OBVIOUS
  <2>2. QED
    BY <2>1, ValidRegisters, ValidRegisters2 DEF TypedPair, Typed, MemoryRegister
<1>4. ForwardFromAllSlots(xs, ms, r, v)
        = IF r = XZR THEN v
          ELSE IF computed # {} THEN xs[Max(computed)].alu
          ELSE IF retiring # {} THEN value(ms[Max(retiring)])
          ELSE v
  BY <1>1 DEF ForwardFromAllSlots
<1> HIDE DEF xs, ms
<1>5. computed # {} => xs[Max(computed)].alu \in Val
  <2>1. SUFFICES ASSUME computed # {} PROVE xs[Max(computed)].alu \in Val
    OBVIOUS
  <2>2. Max(computed) \in computed
    BY <2>1, MaxOfTwo
  <2>3. QED
    BY <1>2, <2>2 DEF Writes
<1>6. retiring # {} => value(ms[Max(retiring)]) \in Val
  <2>1. SUFFICES ASSUME retiring # {} PROVE value(ms[Max(retiring)]) \in Val
    OBVIOUS
  <2>2. Max(retiring) \in retiring
    BY <2>1, MaxOfTwo
  <2>3. ms[Max(retiring)].valid /\ Max(retiring) \in {1, 2}
    BY <2>2 DEF Writes
  <2>4. QED
    BY <1>3, <2>3 DEF SlotValue
<1> HIDE DEF computed, retiring, value
<1>7. QED
  BY <1>4, <1>5, <1>6 DEF xs, ms

LEMMA ResultType ==
  ASSUME NEW e \in DecodeRegister, NEW x \in Val, NEW y \in Val, NEW st \in Val, NEW st2 \in Val,
         NEW file \in [Regs -> Val]
  PROVE  Result(e, x, y, st, st2, file) \in ExecuteRegister
<1>1. e.inst \in Inst /\ e.pc \in Val
  BY DEF DecodeRegister
<1>2. ALUResult(e, x, y, file) \in Val
  BY ALUResultType
<1>3. FlagsOf(e.inst, x, y) \in Flags
  BY DEF FlagsOf, SubFlags, Flags
<1>4. QED
  BY <1>1, <1>2, <1>3, RegisterFacts DEF Result, ExecuteRegister, Flags

LEMMA FirstSlotTypes ==
  ASSUME TypedPair, idex.valid
  PROVE  idex \in DecodeRegister /\ X1 \in Val /\ Executed1 \in ExecuteRegister
<1>1. idex \in DecodeRegister
  BY ValidRegisters DEF TypedPair, Typed
<1>2. idex.rn \in Val /\ idex.rm \in Val /\ idex.inst \in Inst
  BY <1>1 DEF DecodeRegister
<1>3. X1 \in Val /\ Y1 \in Val
  BY <1>2, InstFields, Operand1Type DEF X1, Y1
<1>4. RegsNow2 \in [Regs -> Val]
  BY WrittenType
<1>5. StoreData(RegsNow2, idex.inst.rd) \in Val /\ StoreData(RegsNow2, idex.inst.rt2) \in Val
  BY <1>2, <1>4, InstFields, ReadRegType, ForwardType DEF StoreData, TypedPair
<1>6. QED
  BY <1>1, <1>3, <1>4, <1>5, ResultType DEF Executed1

LEMMA SecondSlotTypes ==
  ASSUME TypedPair, idex2.valid, NEW first \in ExecuteRegister \cup {Empty}
  PROVE  Executed2(first) \in ExecuteRegister
<1>1. idex2 \in DecodeRegister
  BY ValidRegisters2 DEF TypedPair
<1>2. idex2.rn \in Val /\ idex2.rm \in Val /\ idex2.inst \in Inst
  BY <1>1 DEF DecodeRegister
<1>3. X2(first) \in Val /\ Y2(first) \in Val
  BY <1>2, InstFields, Operand2Type DEF X2, Y2
<1>4. RegsNow2 \in [Regs -> Val]
  BY WrittenType
<1> DEFINE rt2 == idex2.inst.rt2
           st2 == ForwardFromAllSlots(<<exmem, exmem2>>, <<memwb, memwb2>>, rt2, ReadReg(RegsNow2, rt2))
<1>5. st2 \in Val
  <2>1. ReadReg(RegsNow2, rt2) \in Val
    BY <1>2, <1>4, InstFields, ReadRegType
  <2>2. QED
    BY <2>1, ForwardPairType
<1>6. Executed2(first) = Result(idex2, X2(first), Y2(first), Y2(first), st2, RegsNow2)
  BY DEF Executed2
<1> HIDE DEF st2, rt2
<1>7. QED
  BY <1>1, <1>3, <1>4, <1>5, <1>6, ResultType

LEMMA Access2Type ==
  ASSUME TypedPair, NEW v \in [Val -> Val]
  PROVE  Access2(v).data \in Val /\ Access2(v).data2 \in Val /\ Access2(v).view \in [Val -> Val]
<1>1. CASE exmem2.valid
  BY <1>1, ValidRegisters2, AccessMemoryType DEF TypedPair, Access2
<1>2. CASE ~exmem2.valid
  BY <1>2, RegisterFacts DEF Access2
<1>3. QED
  BY <1>1, <1>2

LEMMA CyclesLeft2Type ==
  ASSUME TypedPair, idex2.valid
  PROVE  CyclesLeft(exLatency2, idex2) \in Nat \ {0}
<1>1. idex2.inst.op \in Ops
  BY ValidRegisters2, InstFields DEF TypedPair, DecodeRegister
<1>2. Machine.latency[idex2.inst.op] \in Nat \ {0}
  BY <1>1, PipelineAssumption DEF Machine, TypedPair, Typed, Chosen
<1>3. QED
  BY <1>2 DEF CyclesLeft, TypedPair, Latched2

LEMMA FetchesType ==
  ASSUME Typed, NEW port \in FetchPort, NEW n \in Val, NEW hit
  PROVE  Fetch(port, n, hit).port \in FetchPort
<1> DEFINE waited == port.pending /\ port.pc = n
           left == IF waited THEN port.left - 1 ELSE IF hit THEN 0 ELSE MissLatency - 1
<1>1. left \in Int
  <2>1. port.left \in Int /\ MissLatency \in Int
    BY PipelineAssumption DEF FetchPort
  <2>2. QED
    BY <2>1
<1> HIDE DEF left
<1>2. (IF left > 0 THEN [pending |-> TRUE, pc |-> n, left |-> left] ELSE NoFetch) \in FetchPort
  BY <1>1, RegisterFacts DEF FetchPort, NoFetch
<1>3. QED
  BY <1>2 DEF Fetch, left

LEMMA Guess2Type ==
  ASSUME NEW n \in Val, NEW i \in Inst, NEW g \in Guesses2(n, i)
  PROVE  g \in Prediction
<1>1. Wrap(n + 1) \in Val /\ 0 \in Val
  BY WrapSums, RegisterFacts
<1>2. [taken |-> TRUE, target |-> 0, early |-> FALSE, next |-> Wrap(n + 1)] \in Prediction
  BY <1>1 DEF Prediction
<1>3. QED
  BY <1>2, GuessType DEF Guesses2

LEMMA PlacedType ==
  ASSUME NEW n \in Val, NEW i \in Inst, NEW g \in Prediction
  PROVE  Placed(n, i, g).slot \in FetchRegister \cup {Empty} /\ Placed(n, i, g).pc \in Val
<1>1. i.imm \in Val /\ g.next \in Val
  BY InstFields DEF Prediction
<1>2. Fetched(n, i, g) \in FetchRegister
  BY DEF Fetched, FetchRegister
<1>3. QED
  BY <1>1, <1>2 DEF Placed

LEMMA DecodedType ==
  ASSUME NEW f \in FetchRegister, NEW file \in [Regs -> Val]
  PROVE  Decoded(f, file) \in DecodeRegister
<1>1. f.pc \in Val /\ f.inst \in Inst /\ f.guess \in Prediction
  BY DEF FetchRegister
<1>2. ReadReg(file, f.inst.rn) \in Val /\ ReadReg(file, f.inst.rm) \in Val
  BY <1>1, InstFields, ReadRegType
<1>3. QED
  BY <1>1, <1>2 DEF Decoded, DecodeRegister

LEMMA LeavingType ==
  ASSUME NEW m \in ExecuteRegister, NEW acc, acc.data \in Val, acc.data2 \in Val
  PROVE  Leaving(m, acc) \in MemoryRegister
  BY DEF ExecuteRegister, MemoryRegister, Leaving

\* What a cycle of two slots may make of each variable, whatever stalls or flushes.
LEMMA DualOutcomes ==
  ASSUME NEW acc, NEW acc2, NEW first, NEW second, NEW guess, NEW guess2, NEW file, NEW done1,
         NEW done2, NEW flush, NEW stall,
         DualTickOf(acc, acc2, first, second, guess, guess2, file, done1, done2, flush, stall)
  PROVE  /\ regs' = file /\ view' = acc2.view /\ mem' = acc2.view /\ dport' = acc.port
         /\ halted' = Exits /\ code' \in {Written[0], code}
         /\ fl' = fl \/ (done1.valid /\ fl' = done1.fl) \/ (done2.valid /\ fl' = done2.fl)
         /\ memwb' = Empty \/ (exmem.valid /\ memwb' = Leaving(exmem, acc))
         /\ memwb2' = Empty \/ (exmem2.valid /\ memwb2' = Leaving(exmem2, acc2))
         /\ exmem' \in {exmem, done1} /\ exmem2' \in {exmem2, done2}
         /\ idex' = idex \/ idex' = Empty \/ (ifid.valid /\ idex' = Decoded(ifid, file))
         /\ idex2' = idex2 \/ idex2' = Empty \/ (ifid2.valid /\ idex2' = Decoded(ifid2, RegsNow2))
         /\ exLatency' = exLatency \/ (idex.valid /\ exLatency' = CyclesLeft(exLatency, idex) - 1)
         /\ exLatency2' = exLatency2 \/ (idex2.valid /\ exLatency2' = CyclesLeft(exLatency2, idex2) - 1)
         /\ fport' \in {fport, first.port, second.port}
         /\ retired' = retired + (IF memwb.valid THEN 1 ELSE 0) + (IF memwb2.valid THEN 1 ELSE 0)
         /\ \E a, b \in {0, 1} : executed' = executed + a + b
         /\ setup' = setup /\ prog' = prog
<1> DEFINE C == DualCycle(acc, acc2, first, second, guess, guess2, file, done1, done2, flush, stall)
<1>0. C
  BY DEF DualTickOf
<1>1. /\ regs' = file /\ view' = acc2.view /\ mem' = acc2.view /\ dport' = acc.port
      /\ halted' = Exits /\ setup' = setup /\ prog' = prog
      /\ retired' = retired + (IF memwb.valid THEN 1 ELSE 0) + (IF memwb2.valid THEN 1 ELSE 0)
  BY <1>0 DEF DualCycle
<1>2. code' \in {Written[0], code}
  BY <1>0 DEF DualCycle
<1>3. fl' = fl \/ (done1.valid /\ fl' = done1.fl) \/ (done2.valid /\ fl' = done2.fl)
  BY <1>0 DEF DualCycle
<1>4. memwb' = Empty \/ (exmem.valid /\ memwb' = Leaving(exmem, acc))
  BY <1>0 DEF DualCycle, NextMEMWB
<1>5. memwb2' = Empty \/ (exmem2.valid /\ memwb2' = Leaving(exmem2, acc2))
  BY <1>0 DEF DualCycle, NextMEMWB2
<1>6. exmem' \in {exmem, done1} /\ exmem2' \in {exmem2, done2}
  BY <1>0 DEF DualCycle
<1>7. idex' = idex \/ idex' = Empty \/ (ifid.valid /\ idex' = Decoded(ifid, file))
  BY <1>0 DEF DualCycle
<1>8. idex2' = idex2 \/ idex2' = Empty \/ (ifid2.valid /\ idex2' = Decoded(ifid2, RegsNow2))
  BY <1>0 DEF DualCycle, NextIDEX2, Pairs
<1>9. /\ exLatency' = exLatency \/ (idex.valid /\ exLatency' = CyclesLeft(exLatency, idex) - 1)
      /\ exLatency2' = exLatency2 \/ (idex2.valid /\ exLatency2' = CyclesLeft(exLatency2, idex2) - 1)
  BY <1>0 DEF DualCycle, Begins2
<1>10. fport' \in {fport, first.port, second.port}
  BY <1>0 DEF DualCycle
<1>11. \E a, b \in {0, 1} : executed' = executed + a + b
  <2>1. \E p, q : executed' = executed + (IF p THEN 1 ELSE 0) + (IF q THEN 1 ELSE 0)
    BY <1>0, Zenon DEF DualCycle
  <2>2. PICK p, q : executed' = executed + (IF p THEN 1 ELSE 0) + (IF q THEN 1 ELSE 0)
    BY <2>1
  <2>3. (IF p THEN 1 ELSE 0) \in {0, 1} /\ (IF q THEN 1 ELSE 0) \in {0, 1}
    OBVIOUS
  <2>4. QED
    BY <2>2, <2>3
<1>12. QED
  BY <1>1, <1>2, <1>3, <1>4, <1>5, <1>6, <1>7, <1>8, <1>9, <1>10, <1>11

LEMMA DualFetchType ==
  ASSUME TypedPair, NEW acc, NEW acc2, NEW first, NEW second, NEW guess, NEW guess2, NEW file,
         NEW done1, NEW done2, NEW flush, NEW stall,
         DualTickOf(acc, acc2, first, second, guess, guess2, file, done1, done2, flush, stall)
  PROVE  /\ ifid' \in FetchRegister \cup {Empty} /\ ifid2' \in FetchRegister \cup {Empty}
         /\ pc' \in Val
<1> DEFINE i == InstAt(prog, pc)
           j == InstAt(prog, SecondPC)
           one == Placed(pc, i, guess)
           two == Placed(SecondPC, j, guess2)
<1>1. /\ pc \in Val /\ ifid \in FetchRegister \cup {Empty} /\ ifid2 \in FetchRegister \cup {Empty}
      /\ SecondPC \in Val
  <2>1. pc \in Val /\ ifid \in FetchRegister \cup {Empty} /\ ifid2 \in FetchRegister \cup {Empty}
    BY DEF TypedPair, Typed, Scalars, Latched, Latched2
  <2>2. QED
    BY <2>1, WrapSums DEF SecondPC
<1>2. i \in Inst /\ j \in Inst
  BY InstAtType DEF TypedPair, Typed, Chosen
<1>3. flush => RestartPC(idex, BranchFlags2, X1) \in Val
  <2>1. SUFFICES ASSUME flush PROVE RestartPC(idex, BranchFlags2, X1) \in Val
    OBVIOUS
  <2>2. idex.valid
    BY <2>1 DEF DualTickOf, Flush, Executes
  <2>3. idex \in DecodeRegister /\ X1 \in Val
    BY <2>2, FirstSlotTypes
  <2>4. idex.pc \in Val /\ idex.inst.imm \in Val
    BY <2>3, InstFields DEF DecodeRegister
  <2>5. QED
    BY <2>3, <2>4, WrapSums DEF RestartPC, Target
<1>4. /\ guess \in IF Fetches /\ ~MovesUp THEN Guesses(pc, i) ELSE {NoGuess}
      /\ guess2 \in IF Fetches THEN Guesses2(SecondPC, j) ELSE {NoGuess}
  BY DEF DualTickOf
<1>5. \/ ifid' = Empty /\ ifid2' = Empty /\ flush /\ pc' = RestartPC(idex, BranchFlags2, X1)
      \/ ifid' = ifid /\ ifid2' = ifid2 /\ pc' = pc
      \/ Fetches /\ Fetches2(first, second, guess, guess2)
  BY DualFetchIs
<1>6. CASE Fetches /\ Fetches2(first, second, guess, guess2)
  <2>1. two.slot \in FetchRegister \cup {Empty} /\ two.pc \in Val
    <3>1. guess2 \in Prediction
      BY <1>1, <1>2, <1>4, <1>6, Guess2Type
    <3>2. QED
      BY <1>1, <1>2, <3>1, PlacedType
  <2>2. ~MovesUp => one.slot \in FetchRegister \cup {Empty} /\ one.pc \in Val
    <3>1. SUFFICES ASSUME ~MovesUp PROVE one.slot \in FetchRegister \cup {Empty} /\ one.pc \in Val
      OBVIOUS
    <3>2. guess \in Prediction
      BY <1>1, <1>2, <1>4, <1>6, <3>1, GuessType
    <3>3. QED
      BY <1>1, <1>2, <3>2, PlacedType
  <2>3. \/ ~MovesUp /\ ifid' = one.slot /\ ifid2' = Empty /\ pc' = one.pc
        \/ MovesUp /\ ifid' = ifid2 /\ ifid2' = Empty /\ pc' = pc
        \/ MovesUp /\ ifid' = ifid2 /\ ifid2' = two.slot /\ pc' = two.pc
        \/ /\ ~MovesUp /\ i.op # "B" /\ ifid' = one.slot
           /\ \/ ifid2' = Empty /\ pc' = SecondPC
              \/ ifid2' = two.slot /\ pc' = two.pc
    BY <1>6 DEF Fetches2
  <2> HIDE DEF one, two
  <2>4. QED
    BY <1>1, <2>1, <2>2, <2>3
<1>7. QED
  BY <1>1, <1>3, <1>5, <1>6

LEMMA DualTickTyped ==
  ASSUME TypedPair, NEW acc, NEW acc2, NEW first, NEW second, NEW guess, NEW guess2, NEW file,
         NEW done1, NEW done2, NEW flush, NEW stall,
         DualTickOf(acc, acc2, first, second, guess, guess2, file, done1, done2, flush, stall)
  PROVE  TypedPair'
<1> USE DualOutcomes
<1>1. acc.port \in AccessPort /\ acc.data \in Val /\ acc.data2 \in Val /\ acc.view \in [Val -> Val]
  <2>1. acc \in MemoryAnswer
    BY PipelineAssumption, AccessType DEF DualTickOf, TypedPair
  <2>2. QED
    BY <2>1 DEF MemoryAnswer
<1>2. acc2.view \in [Val -> Val] /\ acc2.data \in Val /\ acc2.data2 \in Val
  BY <1>1, Access2Type DEF DualTickOf
<1>3. file \in [Regs -> Val] /\ RegsNow2 \in [Regs -> Val]
  BY WrittenType DEF DualTickOf
<1>4. done1 \in ExecuteRegister \cup {Empty}
  BY FirstSlotTypes DEF DualTickOf, Executes
<1>5. done2 \in ExecuteRegister \cup {Empty}
  BY <1>4, SecondSlotTypes DEF DualTickOf, Executes2, Begins2
<1>6. first.port \in FetchPort /\ second.port \in FetchPort
  <2>1. Typed /\ fport \in FetchPort /\ pc \in Val /\ SecondPC \in Val
    <3>1. Typed /\ fport \in FetchPort /\ pc \in Val
      BY DEF TypedPair, Typed, Ports, Scalars
    <3>2. QED
      BY <3>1, WrapSums DEF SecondPC
  <2>2. first.port \in FetchPort
    BY <2>1, FetchesType DEF DualTickOf
  <2>3. second = first \/ \E hit : second = Fetch(first.port, SecondPC, hit)
    BY DEF DualTickOf
  <2>4. QED
    BY <2>1, <2>2, <2>3, FetchesType
<1>7. /\ ifid' \in FetchRegister \cup {Empty} /\ ifid2' \in FetchRegister \cup {Empty}
      /\ pc' \in Val
  BY DualFetchType
<1>8. Stored'
  BY <1>2, <1>3 DEF Stored
<1>9. Chosen'
  BY DEF Chosen, TypedPair, Typed
<1>10. Scalars'
  <2>1. fl' \in Flags
    <3>1. fl \in Flags
      BY DEF TypedPair, Typed, Scalars
    <3>2. \A s \in ExecuteRegister \cup {Empty} : s.valid => s.fl \in Flags
      BY EmptyIsNot DEF ExecuteRegister
    <3>3. QED
      BY <1>4, <1>5, <3>1, <3>2
  <2>2. code' \in Val /\ halted' \in BOOLEAN
    <3>1. Written[0] \in Val
      BY WrittenType, RegisterFacts
    <3>2. Exits \in BOOLEAN
      BY ValidRegisters DEF Exits, EndsProgram, TypedPair, Typed
    <3>3. QED
      BY <3>1, <3>2 DEF TypedPair, Typed, Scalars
  <2>3. exLatency' \in Nat
    BY CyclesLeftType DEF TypedPair, Typed, Scalars
  <2>4. QED
    BY <1>7, <2>1, <2>2, <2>3 DEF Scalars
<1>11. Latched'
  <2>1. idex' \in DecodeRegister \cup {Empty}
    BY <1>3, ValidRegisters, DecodedType DEF TypedPair, Typed, Latched
  <2>2. exmem' \in ExecuteRegister \cup {Empty}
    BY <1>4 DEF TypedPair, Typed, Latched
  <2>3. memwb' \in MemoryRegister \cup {Empty}
    BY <1>1, ValidRegisters, LeavingType DEF TypedPair, Typed
  <2>4. QED
    BY <1>7, <2>1, <2>2, <2>3 DEF Latched
<1>12. Latched2'
  <2>1. idex2' \in DecodeRegister \cup {Empty}
    BY <1>3, ValidRegisters2, DecodedType DEF TypedPair, Latched2
  <2>2. exmem2' \in ExecuteRegister \cup {Empty}
    BY <1>5 DEF TypedPair, Latched2
  <2>3. memwb2' \in MemoryRegister \cup {Empty}
    BY <1>2, ValidRegisters2, LeavingType DEF TypedPair
  <2>4. exLatency2' \in Nat
    BY CyclesLeft2Type DEF TypedPair, Latched2
  <2>5. QED
    BY <1>7, <2>1, <2>2, <2>3, <2>4 DEF Latched2
<1>13. Ports'
  BY <1>1, <1>6 DEF Ports, TypedPair, Typed
<1>14. Counts'
  <2>1. retired' \in Nat
    BY DEF Counts, TypedPair, Typed
  <2>2. executed' \in Nat
    <3>1. PICK a, b \in {0, 1} : executed' = executed + a + b
      OBVIOUS
    <3>2. QED
      BY <3>1 DEF Counts, TypedPair, Typed
  <2>3. QED
    BY <2>1, <2>2 DEF Counts
<1>15. QED
  BY <1>8, <1>9, <1>10, <1>11, <1>12, <1>13, <1>14 DEF TypedPair, Typed

\* The machine as it is, for every width; a two-wide one has its types.
PairTyped == Machine.width = 2 => TypedPair

\* No value of a two-wide machine leaves the word, no register or address its range, however
\* it was computed, forwarded between slots, loaded, written back or predicted.
THEOREM TwoWideTypeCorrect == IssueSpec => [](Machine.width = 2 => TypedPair)
<1>1. WideInit => PairTyped
  <2> SUFFICES ASSUME WideInit PROVE TypedPair
    BY DEF PairTyped
  <2>1. Typed
    BY InitTyped DEF WideInit, Init2
  <2>2. Latched2
    BY DEF WideInit, Init2, Latched2
  <2>3. QED
    BY <2>1, <2>2 DEF TypedPair
<1>2. Arranged /\ PairTyped /\ [IssueTick]_wideVars => PairTyped'
  <2> SUFFICES ASSUME Arranged, PairTyped, [IssueTick]_wideVars, Machine'.width = 2
               PROVE  TypedPair'
    BY DEF PairTyped
  <2>1. CASE IssueTick
    <3>1. Machine.width = 2
      BY <2>1, SetupKept DEF Machine
    <3>2. DualTick
      BY <2>1, <3>1 DEF IssueTick, WideTick, TickSuperscalar
    <3>3. QED
      BY <3>1, <3>2, DualTickIs, DualTickTyped DEF PairTyped
  <2>2. CASE UNCHANGED wideVars
    <3>1. Machine.width = 2
      BY <2>2 DEF Machine, wideVars, dualVars, vars
    <3>2. Typed'
      BY <2>2, <3>1 DEF wideVars, dualVars, vars, machine, PairTyped, TypedPair, Typed, Chosen, Stored,
                        Scalars, Latched, Ports, Counts
    <3>3. Latched2'
      BY <2>2, <3>1 DEF wideVars, dualVars, PairTyped, TypedPair, Latched2
    <3>4. QED
      BY <3>2, <3>3 DEF TypedPair
  <2>3. QED
    BY <2>1, <2>2
<1>3. PairTyped <=> (Machine.width = 2 => TypedPair)
  BY DEF PairTyped
<1>4. QED
  BY <1>1, <1>2, <1>3, AlwaysArranged, PTL DEF IssueSpec

---------------------------------------------------------------------------
(* The order of the two-wide machine.                                      *)

\* Two slots hold a stretch of a path that goes on at q.
PairInOrder(p, a, b) == Holds(p, a) /\ Holds(p, b) /\ (b.valid => a.valid /\ Behind(p, a, b))
PairLeads(p, a, b, q) ==
  /\ a.valid /\ ~b.valid => Towards(p, a, q)
  /\ b.valid => Towards(p, b, q)

LEMMA PairFromPair ==
  ASSUME NEW p, NEW a, NEW b, PairInOrder(p, a, b), NEW s, NEW t, From(s, a), From(t, b),
         t # Empty /\ a.valid => s # Empty
  PROVE  PairInOrder(p, s, t)
<1>1. Holds(p, s) /\ Holds(p, t)
  BY FromHolds DEF PairInOrder
<1>2. ASSUME t.valid PROVE s.valid /\ Behind(p, s, t)
  <2>1. t # Empty
    BY <1>2, EmptyIsNot
  <2>2. b.valid /\ t.pc = b.pc
    BY <2>1 DEF From
  <2>3. a.valid /\ Behind(p, a, b)
    BY <2>2 DEF PairInOrder
  <2>4. s # Empty
    BY <2>1, <2>3
  <2>5. s.valid /\ s.pc = a.pc /\ s.inst = a.inst
    BY <2>4 DEF From
  <2>6. QED
    BY <2>2, <2>3, <2>5 DEF Behind
<1>3. QED
  BY <1>1, <1>2 DEF PairInOrder

\* A stage of two slots only.
LEMMA PairStage ==
  ASSUME NEW p, NEW a, NEW b
  PROVE  /\ InOrder(p, Stage(a, b, NoSlots)) <=> PairInOrder(p, a, b)
         /\ \A q : PairLeads(p, a, b, q) => LastLeads(p, Stage(a, b, NoSlots), q)
         /\ \A q : LastLeads(p, Stage(a, b, NoSlots), q) => PairLeads(p, a, b, q)
         /\ \A k \in Slots : k > 2 => Stage(a, b, NoSlots)[k] = Empty
         /\ Stage(a, b, NoSlots)[1] = a /\ Stage(a, b, NoSlots)[2] = b
<1> DEFINE s == Stage(a, b, NoSlots)
<1>1. IsSequence(NoSlots, 6) /\ \A k \in 1 .. 6 : NoSlots[k] = Empty
  BY DEF NoSlots, IsSequence
<1>2. IsSequence(s, 8) /\ s[1] = a /\ s[2] = b /\ \A k \in 3 .. 8 : s[k] = NoSlots[k - 2]
  BY <1>1, StageIs
<1> HIDE DEF s
<1>3. \A k \in 3 .. 8 : s[k] = Empty
  <2>1. \A k \in 3 .. 8 : k - 2 \in 1 .. 6
    OBVIOUS
  <2>2. QED
    BY <1>1, <1>2, <2>1
<1>4. \A k \in 3 .. 8 : ~s[k].valid
  BY <1>3, EmptyIsNot
<1>5. \A k \in Slots : k = 1 \/ k = 2 \/ k \in 3 .. 8
  BY DEF Slots
<1>6. 1 \in Slots /\ 2 \in Slots /\ 1 + 1 = 2 /\ 2 + 1 \in 3 .. 8 /\ 2 \in 2 .. 8 /\ 2 - 1 = 1
  BY DEF Slots
<1>7. InOrder(p, s) => PairInOrder(p, a, b)
  <2>1. SUFFICES ASSUME InOrder(p, s) PROVE PairInOrder(p, a, b)
    OBVIOUS
  <2>2. Holds(p, s[1]) /\ Holds(p, s[2])
    BY <1>6, <2>1 DEF InOrder
  <2>3. s[2].valid => s[2 - 1].valid /\ Behind(p, s[2 - 1], s[2])
    BY <1>6, <2>1 DEF InOrder
  <2>4. QED
    BY <1>2, <1>6, <2>2, <2>3 DEF PairInOrder
<1>8. PairInOrder(p, a, b) => InOrder(p, s)
  <2>1. SUFFICES ASSUME PairInOrder(p, a, b) PROVE InOrder(p, s)
    OBVIOUS
  <2>2. \A k \in Slots : Holds(p, s[k])
    <3>1. Holds(p, Empty)
      BY DEF Holds
    <3>2. QED
      BY <1>2, <1>3, <1>5, <2>1, <3>1 DEF PairInOrder
  <2>3. ASSUME NEW k \in 2 .. 8, s[k].valid PROVE s[k - 1].valid /\ Behind(p, s[k - 1], s[k])
    <3>1. k = 2 /\ k - 1 = 1
      BY <1>4, <2>3
    <3>2. QED
      BY <1>2, <2>1, <2>3, <3>1 DEF PairInOrder
  <2>4. QED
    BY <1>2, <2>2, <2>3 DEF InOrder
<1>9. ASSUME NEW q, PairLeads(p, a, b, q) PROVE LastLeads(p, s, q)
  <2>1. ASSUME NEW k \in Slots, s[k].valid, k = 8 \/ ~s[k + 1].valid PROVE Towards(p, s[k], q)
    <3>1. k = 1 \/ k = 2
      BY <1>4, <1>5, <2>1
    <3>2. CASE k = 1
      BY <1>2, <1>6, <1>9, <2>1, <3>2 DEF PairLeads
    <3>3. CASE k = 2
      BY <1>2, <1>9, <2>1, <3>3 DEF PairLeads
    <3>4. QED
      BY <3>1, <3>2, <3>3
  <2>2. QED
    BY <2>1 DEF LastLeads
<1>10. ASSUME NEW q, LastLeads(p, s, q) PROVE PairLeads(p, a, b, q)
  <2>1. s[1].valid /\ ~s[2].valid => Towards(p, s[1], q)
    BY <1>6, <1>10 DEF LastLeads
  <2>2. s[2].valid => Towards(p, s[2], q)
    <3>1. ~s[2 + 1].valid
      BY <1>4, <1>6
    <3>2. QED
      BY <1>6, <1>10, <3>1 DEF LastLeads
  <2>3. QED
    BY <1>2, <2>1, <2>2 DEF PairLeads
<1>11. QED
  <2>1. \A k \in Slots : k > 2 => s[k] = Empty
    BY <1>3, <1>5
  <2>2. QED
    BY <1>2, <1>7, <1>8, <1>9, <1>10, <2>1 DEF s

LEMMA SecondGuessesLead ==
  ASSUME NEW p, NEW n, NEW i, NEW g \in Guesses2(n, i), NEW s, s.pc = n, s.inst = i
  PROVE  Towards(p, s, g.next)
<1>1. CASE g \in Guesses(n, i)
  BY <1>1, GuessesLead
<1>2. CASE g \notin Guesses(n, i)
  <2>1. g.next = Wrap(n + 1)
    BY <1>2 DEF Guesses2
  <2>2. QED
    BY <2>1 DEF Towards
<1>3. QED
  BY <1>1, <1>2

\* What is fetched second goes on behind what is in the slot before it, B's followed.
LEMMA SecondFollows ==
  ASSUME NEW p, IsProgram(p), NEW n \in Val, NEW s, Towards(p, s, n),
         NEW g \in Guesses2(n, InstAt(p, n)), NEW t, t = Placed(n, InstAt(p, n), g)
  PROVE  /\ Holds(p, t.slot)
         /\ t.slot.valid => Behind(p, s, t.slot) /\ Towards(p, t.slot, t.pc)
         /\ ~t.slot.valid => Towards(p, s, t.pc)
<1>1. Holds(p, t.slot)
  BY PlacedHolds
<1>2. CASE IsB(p, n)
  <2>1. t.slot = Empty /\ t.pc = InstAt(p, n).imm
    BY <1>2 DEF IsB, Placed
  <2>2. Follow(p, n) = Follow(p, t.pc)
    BY <1>2, <2>1, FollowStep
  <2>3. Towards(p, s, t.pc)
    BY <2>2 DEF Towards
  <2>4. QED
    BY <1>1, <2>1, <2>3, EmptyIsNot
<1>3. CASE ~IsB(p, n)
  <2> DEFINE u == Fetched(n, InstAt(p, n), g)
  <2>1. t.slot = u /\ t.pc = g.next
    BY <1>3 DEF IsB, Placed
  <2>2. u.valid /\ u.pc = n /\ u.inst = InstAt(p, n)
    BY DEF Fetched
  <2>3. Follow(p, n) = n
    BY <1>3, FollowHere
  <2> HIDE DEF u
  <2>4. Behind(p, s, u)
    BY <2>2, <2>3, BehindNext
  <2>5. Towards(p, u, g.next)
    BY <2>2, SecondGuessesLead
  <2>6. QED
    BY <1>1, <2>1, <2>2, <2>4, <2>5
<1>4. QED
  BY <1>2, <1>3

LEMMA DualFetchOrdered ==
  ASSUME TypedPair, PairInOrder(prog, ifid, ifid2), PairLeads(prog, ifid, ifid2, pc),
         NEW acc, NEW acc2, NEW first, NEW second, NEW guess, NEW guess2, NEW file,
         NEW done1, NEW done2, NEW flush, NEW stall,
         DualTickOf(acc, acc2, first, second, guess, guess2, file, done1, done2, flush, stall)
  PROVE  PairInOrder(prog, ifid', ifid2') /\ PairLeads(prog, ifid', ifid2', pc')
<1> DEFINE i == InstAt(prog, pc)
           j == InstAt(prog, SecondPC)
           one == Placed(pc, i, guess)
           two == Placed(SecondPC, j, guess2)
<1>1. pc \in Val /\ SecondPC \in Val /\ IsProgram(prog)
  <2>1. pc \in Val /\ IsProgram(prog)
    BY DEF TypedPair, Typed, Scalars, Chosen, IsProgram
  <2>2. QED
    BY <2>1, WrapSums DEF SecondPC
<1>2. Holds(prog, Empty) /\ ~Empty.valid
  BY EmptyIsNot DEF Holds
<1>3. \/ ifid' = Empty /\ ifid2' = Empty
      \/ ifid' = ifid /\ ifid2' = ifid2 /\ pc' = pc
      \/ Fetches /\ Fetches2(first, second, guess, guess2)
  BY DualFetchIs
<1>4. CASE ifid' = Empty /\ ifid2' = Empty
  BY <1>2, <1>4 DEF PairInOrder, PairLeads
<1>5. CASE ifid' = ifid /\ ifid2' = ifid2 /\ pc' = pc
  BY <1>5
<1>6. CASE Fetches /\ Fetches2(first, second, guess, guess2)
  <2>1. guess2 \in Guesses2(SecondPC, j) /\ (~MovesUp => guess \in Guesses(pc, i))
    BY <1>6 DEF DualTickOf
  <2>2. ASSUME NEW s, s.valid, Holds(prog, s), Towards(prog, s, SecondPC)
        PROVE  PairInOrder(prog, s, two.slot) /\ PairLeads(prog, s, two.slot, two.pc)
    <3>1. /\ Holds(prog, two.slot)
          /\ two.slot.valid => Behind(prog, s, two.slot) /\ Towards(prog, two.slot, two.pc)
          /\ ~two.slot.valid => Towards(prog, s, two.pc)
      BY <1>1, <2>1, <2>2, SecondFollows
    <3> HIDE DEF two
    <3>2. QED
      BY <2>2, <3>1 DEF PairInOrder, PairLeads
  <2>3. MovesUp => ifid2.valid /\ Holds(prog, ifid2) /\ Towards(prog, ifid2, pc) /\ SecondPC = pc
    BY DEF MovesUp, SecondPC, PairInOrder, PairLeads
  <2>4. i.op = "B" => one.slot = Empty
    BY DEF Placed
  <2>5. ~MovesUp /\ i.op # "B" =>
          /\ one.slot.valid /\ Holds(prog, one.slot)
          /\ Towards(prog, one.slot, one.pc) /\ Towards(prog, one.slot, SecondPC)
    <3>1. SUFFICES ASSUME ~MovesUp, i.op # "B"
                   PROVE  /\ one.slot.valid /\ Holds(prog, one.slot)
                          /\ Towards(prog, one.slot, one.pc) /\ Towards(prog, one.slot, SecondPC)
      OBVIOUS
    <3> DEFINE s == Fetched(pc, i, guess)
    <3>2. one.slot = s /\ one.pc = guess.next
      BY <3>1 DEF Placed
    <3>3. s.valid /\ s.pc = pc /\ s.inst = i
      BY DEF Fetched
    <3> HIDE DEF s
    <3>4. Towards(prog, s, guess.next)
      BY <2>1, <3>1, <3>3, GuessesLead
    <3>5. Towards(prog, s, SecondPC)
      BY <3>1, <3>3 DEF SecondPC, Towards
    <3>6. Holds(prog, s)
      BY <3>3 DEF Holds
    <3>7. QED
      BY <3>2, <3>3, <3>4, <3>5, <3>6
  <2>6. \/ ~MovesUp /\ ifid' = one.slot /\ ifid2' = Empty /\ pc' = one.pc
        \/ MovesUp /\ ifid' = ifid2 /\ ifid2' = Empty /\ pc' = pc
        \/ MovesUp /\ ifid' = ifid2 /\ ifid2' = two.slot /\ pc' = two.pc
        \/ /\ ~MovesUp /\ i.op # "B" /\ ifid' = one.slot
           /\ \/ ifid2' = Empty /\ pc' = SecondPC
              \/ ifid2' = two.slot /\ pc' = two.pc
    BY <1>6 DEF Fetches2
  <2> HIDE DEF one, two
  <2>7. CASE ~MovesUp /\ ifid' = one.slot /\ ifid2' = Empty /\ pc' = one.pc
    <3>1. CASE i.op = "B"
      BY <1>2, <2>4, <2>7, <3>1 DEF PairInOrder, PairLeads
    <3>2. CASE i.op # "B"
      BY <1>2, <2>5, <2>7, <3>2 DEF PairInOrder, PairLeads
    <3>3. QED
      BY <3>1, <3>2
  <2>8. CASE MovesUp /\ ifid' = ifid2 /\ ifid2' = Empty /\ pc' = pc
    BY <1>2, <2>3, <2>8 DEF PairInOrder, PairLeads
  <2>9. CASE MovesUp /\ ifid' = ifid2 /\ ifid2' = two.slot /\ pc' = two.pc
    BY <2>2, <2>3, <2>9
  <2>10. CASE ~MovesUp /\ i.op # "B" /\ ifid' = one.slot /\ ifid2' = Empty /\ pc' = SecondPC
    BY <1>2, <2>5, <2>10 DEF PairInOrder, PairLeads
  <2>11. CASE ~MovesUp /\ i.op # "B" /\ ifid' = one.slot /\ ifid2' = two.slot /\ pc' = two.pc
    BY <2>2, <2>5, <2>11
  <2>12. QED
    BY <2>6, <2>7, <2>8, <2>9, <2>10, <2>11
<1>7. QED
  BY <1>3, <1>4, <1>5, <1>6

---------------------------------------------------------------------------
(* The order of all stages of all machines.                                *)

\* What is left to say of the order once Arranged has the first stages of the wide machines.
Ordered ==
  /\ InOrder(prog, EXMEMs) /\ InOrder(prog, MEMWBs)
  /\ Machine.width = 2 => FetchedInOrder /\ InOrder(prog, IDEXs)

LEMMA WideTickOrdered ==
  ASSUME NoSlotIsLost, Arranged, Ordered, WideTick
  PROVE  Ordered'
<1>1. PICK written, access, exec : /\ ExecutedTo(exec, 8, access.stall)
                                   /\ WideCycle(written, access, exec, IssueCount)
  BY WideTickIs
<1>2. /\ MEMWBs' = NextMEMWBs(access)
      /\ EXMEMs' = (IF Held(access) THEN EXMEMs ELSE exec.next)
      /\ WideHazards(exec, Held(access)) \cap Avoid = {}
      /\ setup' = setup /\ prog' = prog
  BY <1>1, WideCycleStages DEF Arranged
<1>3. Machine.width > 2 /\ Machine' = Machine
  BY <1>2 DEF WideTick, Machine
<1>4. InOrder(prog, MEMWBs')
  BY <1>2, NextMEMWBsInOrder DEF Ordered
<1>5. InOrder(prog, EXMEMs')
  <2>1. CASE Held(access)
    BY <1>2, <2>1 DEF Ordered
  <2>2. CASE ~Held(access)
    <3>1. ~access.stall /\ ~ExecStalls
      BY <2>2 DEF Held
    <3>2. InOrder(prog, IDEXs) /\ IDEXs[1] = idex
      BY <1>3, StagesAreSized DEF Arranged
    <3>3. NoneDropped(exec)
      <4> DEFINE held == Held(access)
      <4>1. ~held /\ WideHazards(exec, held) \cap Avoid = {}
        BY <1>2, <2>2
      <4> HIDE DEF held
      <4>2. QED
        BY <4>1, NoneLost
    <3>4. InOrder(prog, exec.next)
      <4> DEFINE stalls == access.stall
      <4>1. ~stalls /\ ExecutedTo(exec, 8, stalls)
        BY <1>1, <3>1
      <4> HIDE DEF stalls
      <4>2. QED
        BY <3>1, <3>2, <3>3, <4>1, NextEXMEMsInOrder
    <3>5. QED
      BY <1>2, <2>2, <3>4
  <2>3. QED
    BY <2>1, <2>2
<1>6. ~(Machine'.width = 2)
  <2>1. \A w : w = 2 => ~(w > 2)
    OBVIOUS
  <2>2. QED
    BY <1>3, <2>1
<1>7. QED
  BY <1>2, <1>4, <1>5, <1>6 DEF Ordered

LEMMA TwoSlotStages ==
  RestEmpty =>
    /\ IFIDs = Stage(ifid, ifid2, NoSlots) /\ IDEXs = Stage(idex, idex2, NoSlots)
    /\ EXMEMs = Stage(exmem, exmem2, NoSlots) /\ MEMWBs = Stage(memwb, memwb2, NoSlots)
  BY StagesAre DEF RestEmpty

LEMMA DualTickOrdered ==
  ASSUME Arranged, TypedPair, Ordered, TickSuperscalar
  PROVE  Ordered'
<1>1. Machine.width = 2 /\ RestEmpty /\ UNCHANGED restVars /\ DualTick
  BY DEF TickSuperscalar, Arranged
<1>2. PICK acc, acc2, first, second, guess, guess2, file, done1, done2, flush, stall :
        DualTickOf(acc, acc2, first, second, guess, guess2, file, done1, done2, flush, stall)
  BY <1>1, DualTickIs
<1>3. /\ PairInOrder(prog, ifid, ifid2) /\ PairLeads(prog, ifid, ifid2, pc)
      /\ PairInOrder(prog, idex, idex2) /\ PairInOrder(prog, exmem, exmem2)
  <2>1. /\ IFIDs = Stage(ifid, ifid2, NoSlots) /\ IDEXs = Stage(idex, idex2, NoSlots)
        /\ EXMEMs = Stage(exmem, exmem2, NoSlots)
    BY <1>1, TwoSlotStages
  <2>2. /\ InOrder(prog, IFIDs) /\ LastLeads(prog, IFIDs, pc)
        /\ InOrder(prog, IDEXs) /\ InOrder(prog, EXMEMs)
    BY <1>1 DEF Ordered, FetchedInOrder
  <2>3. QED
    BY <2>1, <2>2, PairStage
<1>4. /\ From(memwb', exmem) /\ From(memwb2', exmem2)
      /\ memwb2' # Empty /\ exmem.valid => memwb' # Empty
      /\ From(done1, idex) /\ From(done2, idex2)
      /\ done2 # Empty => (idex.valid => done1 # Empty)
      /\ \/ exmem' = exmem /\ exmem2' = exmem2
         \/ exmem' = done1 /\ exmem2' = done2
      /\ \/ idex' = idex /\ idex2' = idex2
         \/ From(idex', ifid) /\ From(idex2', ifid2) /\ (idex2' # Empty => idex' # Empty)
      /\ setup' = setup /\ prog' = prog
  BY <1>2, DualStagesAre
<1>5. PairInOrder(prog, memwb', memwb2')
  BY <1>3, <1>4, PairFromPair
<1>6. PairInOrder(prog, exmem', exmem2')
  <2>1. PairInOrder(prog, done1, done2)
    BY <1>3, <1>4, PairFromPair
  <2>2. QED
    BY <1>3, <1>4, <2>1
<1>7. PairInOrder(prog, idex', idex2')
  BY <1>3, <1>4, PairFromPair
<1>8. PairInOrder(prog, ifid', ifid2') /\ PairLeads(prog, ifid', ifid2', pc')
  BY <1>2, <1>3, DualFetchOrdered
<1>9. Machine' = Machine
  BY <1>4 DEF Machine
<1>10. /\ IFIDs' = Stage(ifid', ifid2', NoSlots) /\ IDEXs' = Stage(idex', idex2', NoSlots)
       /\ EXMEMs' = Stage(exmem', exmem2', NoSlots) /\ MEMWBs' = Stage(memwb', memwb2', NoSlots)
  <2>1. ifids' = NoSlots /\ idexs' = NoSlots /\ exmems' = NoSlots /\ memwbs' = NoSlots
    BY <1>1 DEF RestEmpty, restVars
  <2>2. QED
    BY <2>1, StagesAreNext
<1>11. InOrder(prog, IDEXs') /\ InOrder(prog, EXMEMs') /\ InOrder(prog, MEMWBs')
  BY <1>5, <1>6, <1>7, <1>10, PairStage
<1>12. FetchedInOrder'
  <2>1. InOrder(prog, IFIDs') /\ LastLeads(prog, IFIDs', pc')
    BY <1>8, <1>10, PairStage
  <2>2. IFIDs'[1] = ifid' /\ IFIDs'[2] = ifid2'
    BY <1>10, PairStage
  <2>3. \A k \in Slots : k > Machine.width => IFIDs'[k] = Empty
    <3>1. \A k \in Slots : k > 2 => Stage(ifid', ifid2', NoSlots)[k] = Empty
      BY PairStage
    <3>2. QED
      BY <1>1, <1>10, <3>1
  <2>4. QED
    BY <1>4, <1>9, <2>1, <2>2, <2>3 DEF FetchedInOrder
<1>13. QED
  BY <1>4, <1>11, <1>12 DEF Ordered

LEMMA InitOrdered == WideInit => Ordered
<1> SUFFICES ASSUME WideInit PROVE Ordered
  OBVIOUS
<1>1. /\ ifid = Empty /\ ifid2 = Empty /\ idex = Empty /\ idex2 = Empty
      /\ exmem = Empty /\ exmem2 = Empty /\ memwb = Empty /\ memwb2 = Empty
  BY DEF WideInit, Init2, Init
<1>2. ifids = NoSlots /\ idexs = NoSlots /\ exmems = NoSlots /\ memwbs = NoSlots
  BY DEF WideInit
<1>3. /\ IFIDs = Stage(Empty, Empty, NoSlots) /\ IDEXs = Stage(Empty, Empty, NoSlots)
      /\ EXMEMs = Stage(Empty, Empty, NoSlots) /\ MEMWBs = Stage(Empty, Empty, NoSlots)
  BY <1>1, <1>2, StagesAre
<1>4. PairInOrder(prog, Empty, Empty) /\ PairLeads(prog, Empty, Empty, pc)
  BY EmptyIsNot DEF PairInOrder, PairLeads, Holds
<1>5. /\ InOrder(prog, IDEXs) /\ InOrder(prog, EXMEMs) /\ InOrder(prog, MEMWBs)
      /\ InOrder(prog, IFIDs) /\ LastLeads(prog, IFIDs, pc)
  BY <1>3, <1>4, PairStage
<1>6. Machine.width = 2 => FetchedInOrder
  <2>1. IFIDs[1] = ifid /\ IFIDs[2] = ifid2
    BY <1>1, <1>3, PairStage
  <2>2. Machine.width = 2 => \A k \in Slots : k > Machine.width => IFIDs[k] = Empty
    BY <1>3, PairStage
  <2>3. QED
    BY <1>5, <2>1, <2>2 DEF FetchedInOrder
<1>7. QED
  BY <1>5, <1>6 DEF Ordered

LEMMA StutterOrdered ==
  ASSUME Ordered, UNCHANGED wideVars
  PROVE  Ordered'
<1>1. /\ UNCHANGED <<setup, prog, pc, ifid, idex, exmem, memwb>>
      /\ UNCHANGED <<ifid2, idex2, exmem2, memwb2, ifids, idexs, exmems, memwbs>>
  BY DEF wideVars, dualVars, vars, machine, restVars
<1>2. /\ IFIDs' = IFIDs /\ IDEXs' = IDEXs /\ EXMEMs' = EXMEMs /\ MEMWBs' = MEMWBs
      /\ Machine' = Machine
  BY <1>1 DEF IFIDs, IDEXs, EXMEMs, MEMWBs, Machine
<1>3. FetchedInOrder' = FetchedInOrder
  BY <1>1, <1>2 DEF FetchedInOrder
<1>4. QED
  BY <1>1, <1>2, <1>3 DEF Ordered

LEMMA OrderedSlots ==
  ASSUME Arranged, Ordered
  PROVE  SlotsInOrder
<1>1. Machine.width > 2 \/ Machine.width = 2
  BY WidthIs
<1>2. /\ InOrder(prog, IFIDs) /\ InOrder(prog, IDEXs)
      /\ InOrder(prog, EXMEMs) /\ InOrder(prog, MEMWBs)
  BY <1>1 DEF Arranged, Ordered, FetchedInOrder
<1>3. ASSUME NEW stage, InOrder(prog, stage), NEW k \in Occupied(stage) \ {1}
      PROVE  stage[k - 1].valid /\ OnPath(stage[k - 1], stage[k])
  <2>1. k \in 2 .. 8 /\ stage[k].valid
    BY DEF Occupied, Slots
  <2>2. stage[k - 1].valid /\ Behind(prog, stage[k - 1], stage[k])
    BY <1>3, <2>1 DEF InOrder
  <2>3. QED
    BY <2>2 DEF OnPath, Behind
<1>4. QED
  BY <1>2, <1>3 DEF SlotsInOrder

\* On a machine of any width, the slots of every stage hold a stretch of a path through the
\* program, whatever stalls, flushes, bubbles, taken branches, fused pairs and moves of what
\* did not issue do to them, as long as no slot is lost for needing another cycle in EX.
THEOREM AlwaysInOrder ==
  ASSUME "slot lost" \in Avoid
  PROVE  IssueSpec => []SlotsInOrder
<1>1. /\ Arranged /\ (Machine.width = 2 => TypedPair) /\ Ordered /\ [IssueTick]_wideVars
      => Ordered'
  <2> SUFFICES ASSUME Arranged, Machine.width = 2 => TypedPair, Ordered, [IssueTick]_wideVars
               PROVE  Ordered'
    OBVIOUS
  <2>1. CASE WideTick
    BY <2>1, WideTickOrdered DEF NoSlotIsLost
  <2>2. CASE TickSuperscalar
    <3>1. Machine.width = 2
      BY <2>2 DEF TickSuperscalar
    <3>2. QED
      BY <2>2, <3>1, DualTickOrdered
  <2>3. CASE UNCHANGED wideVars
    BY <2>3, StutterOrdered
  <2>4. QED
    BY <2>1, <2>2, <2>3 DEF IssueTick
<1>2. Arranged /\ Ordered => SlotsInOrder
  BY OrderedSlots
<1>3. QED
  BY <1>1, <1>2, InitOrdered, AlwaysArranged, TwoWideTypeCorrect, PTL DEF IssueSpec

\* On a two-wide machine, the slots of every stage hold a stretch of a path whatever is or is
\* not avoided: nothing is behind the second slot that its loss could leave out of place.
THEOREM TwoWideInOrder == IssueSpec => [](Machine.width = 2 => SlotsInOrder)
<1> DEFINE Inv == Machine.width = 2 => Ordered
<1>1. WideInit => Inv
  BY InitOrdered
<1>2. /\ Arranged /\ (Machine.width = 2 => TypedPair) /\ Inv /\ [IssueTick]_wideVars
      => Inv'
  <2> SUFFICES ASSUME Arranged, Machine.width = 2 => TypedPair, Inv, [IssueTick]_wideVars,
                      Machine'.width = 2
               PROVE  Ordered'
    OBVIOUS
  <2>1. CASE WideTick
    <3>1. PICK written, access, exec : /\ ExecutedTo(exec, 8, access.stall)
                                       /\ WideCycle(written, access, exec, IssueCount)
      BY <2>1, WideTickIs
    <3>2. Machine' = Machine
      BY <3>1, WideCycleStages DEF Arranged, Machine
    <3>3. Machine.width > 2
      BY <2>1 DEF WideTick, Machine
    <3>4. \A w : w = 2 => ~(w > 2)
      OBVIOUS
    <3>5. QED
      BY <3>2, <3>3, <3>4
  <2>2. CASE TickSuperscalar
    <3>1. Machine.width = 2
      BY <2>2 DEF TickSuperscalar
    <3>2. QED
      BY <2>2, <3>1, DualTickOrdered
  <2>3. CASE UNCHANGED wideVars
    <3>1. Machine' = Machine
      BY <2>3 DEF wideVars, dualVars, vars, machine, Machine
    <3>2. QED
      BY <2>3, <3>1, StutterOrdered
  <2>4. QED
    BY <2>1, <2>2, <2>3 DEF IssueTick
<1>3. Arranged /\ Inv => (Machine.width = 2 => SlotsInOrder)
  BY OrderedSlots
<1>4. QED
  BY <1>1, <1>2, <1>3, AlwaysArranged, TwoWideTypeCorrect, PTL DEF IssueSpec
==========================================================================
