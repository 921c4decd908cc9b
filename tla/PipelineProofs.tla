------------------------- MODULE PipelineProofs -------------------------
(* Lemmas about the instructions, registers and words the processor models   *)
(* share, and theorems about SingleIssue, for every machine, program, word   *)
(* size and number of registers.                                            *)
EXTENDS SingleIssue, WellFoundedInduction, FiniteSetTheorems, TLAPS

---------------------------------------------------------------------------
(* Types of the operators of Insts.                                        *)

LEMMA WrapType ==
  ASSUME NEW n \in Int
  PROVE  Wrap(n) \in Val
  BY WordAssumption DEF Wrap, Val

LEMMA RegisterFacts ==
  /\ 0 \in Val /\ 1 \in Val /\ 0 \in Regs /\ LR \in Regs /\ XZR \notin Regs
  /\ Val \subseteq Int
  BY WordAssumption DEF Val, Regs, LR, XZR

LEMMA WrapSums ==
  ASSUME NEW x \in Val, NEW y \in Val, NEW z \in Val
  PROVE  /\ Wrap(x + y) \in Val /\ Wrap(x - y) \in Val /\ Wrap(x + 1) \in Val
         /\ Wrap(z + x * y) \in Val
<1>1. x \in Int /\ y \in Int /\ z \in Int
  BY RegisterFacts
<1>2. x + y \in Int /\ x - y \in Int /\ x + 1 \in Int /\ z + x * y \in Int
  BY <1>1
<1>3. QED
  BY <1>2, WrapType

LEMMA ReadRegType ==
  ASSUME NEW r \in [Regs -> Val], NEW i \in Regs \cup {XZR}
  PROVE  ReadReg(r, i) \in Val
  BY RegisterFacts DEF ReadReg

LEMMA WriteRegType ==
  ASSUME NEW r \in [Regs -> Val], NEW i \in Regs \cup {XZR}, NEW v \in Val
  PROVE  WriteReg(r, i, v) \in [Regs -> Val]
  BY DEF WriteReg

LEMMA ExitCallType == ExitCall \in Inst
  BY RegisterFacts DEF ExitCall, Inst, Encoding, Ops, Exit

LEMMA InstAtType ==
  ASSUME NEW p, \A a \in DOMAIN p : p[a] \in Inst, NEW n
  PROVE  InstAt(p, n) \in Inst
  BY ExitCallType DEF InstAt

LEMMA InstFields ==
  ASSUME NEW i \in Inst
  PROVE  /\ i.op \in Ops /\ i.imm \in Val
         /\ i.rd \in Regs \cup {XZR} /\ i.rn \in Regs \cup {XZR}
         /\ i.rm \in Regs \cup {XZR} /\ i.rt2 \in Regs \cup {XZR}
         /\ i.op \in {"CMP", "CMPI"} => i.rd = XZR
  BY DEF Inst, Encoding

---------------------------------------------------------------------------
(* Induction over numbers, from the well-founded order on them.            *)

LEMMA Least ==
  ASSUME NEW T \in SUBSET Nat, T # {}
  PROVE  \E x \in T : \A y \in T : x <= y
<1> DEFINE R == {ss \in Nat \X Nat : ss[1] < ss[2]}
<1>1. IsWellFoundedOn(R, Nat)
  BY NatLessThanWellFounded DEF OpToRel
<1>2. PICK x \in T : \A y \in T : ~ (<<y, x>> \in R)
  BY <1>1, WFMin
<1>3. \A y \in T : <<y, x>> \in Nat \X Nat
  OBVIOUS
<1>4. \A y \in T : ~ (y < x) /\ x \in Nat /\ y \in Nat
  BY <1>2, <1>3
<1>5. QED
  BY <1>4

LEMMA Upwards ==
  ASSUME NEW T \in SUBSET Nat, 0 \in T, \A k \in T : k + 1 \in T
  PROVE  T = Nat
<1> SUFFICES ASSUME Nat \ T # {} PROVE FALSE
  OBVIOUS
<1>1. PICK x \in Nat \ T : \A y \in Nat \ T : x <= y
  BY Least
<1>2. x - 1 \in Nat
  BY <1>1
<1>3. x - 1 \in T
  BY <1>1, <1>2
<1>4. QED
  BY <1>1, <1>3

---------------------------------------------------------------------------
(* Follow: a chain of B's is followed from any of its links.               *)

IsB(p, a) == InstAt(p, a).op = "B"

\* The function of addresses, and the sequence from n, that Follow defines locally.
Onward(p) == [a \in Val |-> IF InstAt(p, a).op = "B" THEN InstAt(p, a).imm ELSE a]
Hops(p, n) == CHOOSE f : f = [k \in 0 .. Modulus |-> IF k = 0 THEN n ELSE Onward(p)[f[k - 1]]]

LEMMA FollowAs ==
  ASSUME NEW p, NEW n
  PROVE  Follow(p, n) = IF ~IsB(p, n) THEN n
                        ELSE IF IsB(p, Hops(p, n)[Modulus]) THEN Modulus
                        ELSE Hops(p, n)[Modulus]
  BY DEF Follow, Hops, Onward, IsB

IsProgram(p) == \A a \in DOMAIN p : p[a] \in Inst

LEMMA OnwardFacts ==
  ASSUME NEW p, IsProgram(p)
  PROVE  /\ Onward(p) \in [Val -> Val]
         /\ \A a \in Val : ~IsB(p, a) => Onward(p)[a] = a
         /\ \A a \in Val : IsB(p, a) => Onward(p)[a] = InstAt(p, a).imm
<1>1. \A a \in Val : InstAt(p, a).imm \in Val
  BY InstAtType, InstFields DEF IsProgram
<1>2. QED
  BY <1>1 DEF Onward, IsB

LEMMA HopsFacts ==
  ASSUME NEW p, IsProgram(p), NEW n \in Val
  PROVE  /\ Hops(p, n) \in [0 .. Modulus -> Val]
         /\ Hops(p, n)[0] = n
         /\ \A k \in 0 .. Modulus - 1 : Hops(p, n)[k + 1] = Onward(p)[Hops(p, n)[k]]
<1> DEFINE o == Onward(p)
           Is(f, m) == f = [k \in 0 .. m |-> IF k = 0 THEN n ELSE o[f[k - 1]]]
           T == {m \in Nat : \E f : Is(f, m)}
           h == Hops(p, n)
<1>1. T = Nat
  <2>1. 0 \in T
    <3>1. Is([k \in 0 .. 0 |-> n], 0)
      OBVIOUS
    <3>2. QED
      BY <3>1
  <2>2. ASSUME NEW m \in T PROVE m + 1 \in T
    <3>1. PICK f : Is(f, m)
      OBVIOUS
    <3> DEFINE g == [k \in 0 .. m + 1 |-> IF k = m + 1 THEN o[f[m]] ELSE f[k]]
    <3>2. Is(g, m + 1)
      <4> HIDE DEF o
      <4>1. \A k \in 0 .. m : f[k] = IF k = 0 THEN n ELSE o[f[k - 1]]
        BY <3>1
      <4>2. m \in Nat /\ f[m] = g[m] /\ \A k \in 1 .. m : f[k - 1] = g[k - 1]
        OBVIOUS
      <4>3. \A k \in 0 .. m + 1 : g[k] = IF k = 0 THEN n ELSE o[g[k - 1]]
        <5> SUFFICES ASSUME NEW k \in 0 .. m + 1
                     PROVE  g[k] = IF k = 0 THEN n ELSE o[g[k - 1]]
          OBVIOUS
        <5>1. CASE k = m + 1
          <6>1. k # 0 /\ k - 1 = m /\ g[k] = o[f[m]]
            BY <4>2, <5>1
          <6>2. QED
            BY <4>2, <6>1
        <5>2. CASE k \in 0 .. m
          <6>1. g[k] = f[k] /\ (k # 0 => k \in 1 .. m)
            BY <4>2, <5>2
          <6>2. k # 0 => f[k - 1] = g[k - 1]
            BY <4>2, <6>1
          <6>3. QED
            BY <4>1, <5>2, <6>1, <6>2
        <5>3. k = m + 1 \/ k \in 0 .. m
          BY <4>2
        <5>4. QED
          BY <5>1, <5>2, <5>3
      <4>4. QED
        BY <4>3
    <3> HIDE DEF g, Is
    <3>3. QED
      BY <3>2
  <2> HIDE DEF T
  <2>3. T \in SUBSET Nat
    BY DEF T
  <2>4. QED
    BY <2>1, <2>2, <2>3, Upwards
<1>2. Modulus \in Nat
  BY WordAssumption
<1>3. \E f : Is(f, Modulus)
  BY <1>1, <1>2
<1>4. Is(h, Modulus)
  <2> HIDE DEF o
  <2>1. QED
    BY <1>3 DEF Hops, o
<1>5. /\ h[0] = n
      /\ \A k \in 0 .. Modulus - 1 : h[k + 1] = o[h[k]]
  <2> HIDE DEF o, h
  <2>1. h[0] = n
    BY <1>2, <1>4
  <2>2. ASSUME NEW k \in 0 .. Modulus - 1 PROVE h[k + 1] = o[h[k]]
    <3>1. k + 1 \in 0 .. Modulus /\ k + 1 # 0 /\ (k + 1) - 1 = k
      BY <1>2
    <3>2. QED
      BY <1>4, <3>1
  <2>3. QED
    BY <2>1, <2>2
<1>6. \A k \in 0 .. Modulus : h[k] \in Val
  <2> DEFINE V == {k \in Nat : k <= Modulus => h[k] \in Val}
  <2>1. 0 \in V
    BY <1>5
  <2>2. ASSUME NEW k \in V PROVE k + 1 \in V
    <3>1. ASSUME k + 1 <= Modulus PROVE h[k + 1] \in Val
      <4>1. k \in 0 .. Modulus - 1 /\ h[k] \in Val
        BY <1>2, <3>1
      <4>2. h[k + 1] = o[h[k]]
        BY <1>5, <4>1
      <4>3. QED
        BY <4>1, <4>2, OnwardFacts
    <3>2. QED
      BY <3>1
  <2> HIDE DEF V
  <2>3. V = Nat
    <3>1. V \in SUBSET Nat
      BY DEF V
    <3>2. QED
      BY <2>1, <2>2, <3>1, Upwards
  <2>4. QED
    BY <1>2, <2>3 DEF V
<1>7. h \in [0 .. Modulus -> Val]
  <2> HIDE DEF o, h
  <2>1. h = [k \in 0 .. Modulus |-> h[k]]
    BY <1>4
  <2>2. QED
    BY <1>6, <2>1
<1>8. QED
  BY <1>5, <1>7

\* Once the sequence meets another instruction it stays there.
LEMMA HopsSettle ==
  ASSUME NEW p, IsProgram(p), NEW n \in Val,
         NEW k \in 0 .. Modulus, NEW j \in 0 .. Modulus, k <= j, ~IsB(p, Hops(p, n)[k])
  PROVE  Hops(p, n)[j] = Hops(p, n)[k]
<1> DEFINE h == Hops(p, n)
           T == {d \in Nat : k + d <= Modulus => h[k + d] = h[k]}
<1>1. Modulus \in Nat /\ k \in Nat /\ j \in Nat /\ k <= Modulus /\ j <= Modulus
  BY WordAssumption
<1>2. 0 \in T
  BY <1>1
<1>3. ASSUME NEW d \in T PROVE d + 1 \in T
  <2>1. ASSUME k + (d + 1) <= Modulus PROVE h[k + (d + 1)] = h[k]
    <3>1. k + d \in 0 .. Modulus - 1 /\ h[k + d] = h[k] /\ (k + d) + 1 = k + (d + 1)
      BY <1>1, <2>1
    <3>2. h[k + (d + 1)] = Onward(p)[h[k]]
      BY <3>1, HopsFacts
    <3>3. h[k] \in Val
      <4>1. h \in [0 .. Modulus -> Val]
        BY HopsFacts
      <4>2. QED
        BY <4>1
    <3>4. QED
      BY <3>2, <3>3, OnwardFacts
  <2>2. QED
    BY <2>1
<1> HIDE DEF T
<1>4. T = Nat
  <2>1. T \in SUBSET Nat
    BY DEF T
  <2>2. QED
    BY <1>2, <1>3, <2>1, Upwards
<1>5. j - k \in T /\ k + (j - k) = j
  BY <1>1, <1>4
<1>6. QED
  BY <1>1, <1>5 DEF T

\* The sequence from the next link is the sequence without its first link.
LEMMA HopsShift ==
  ASSUME NEW p, IsProgram(p), NEW n \in Val, NEW k \in 0 .. Modulus - 1
  PROVE  Hops(p, n)[k + 1] = Hops(p, Onward(p)[n])[k]
<1> DEFINE m == Onward(p)[n]
           h == Hops(p, n)
           g == Hops(p, m)
           T == {d \in Nat : d < Modulus => h[d + 1] = g[d]}
<1>1. Modulus \in Nat \ {0} /\ m \in Val
  BY WordAssumption, OnwardFacts
<1>2. \A q \in 0 .. Modulus - 1 : g[q + 1] = Onward(p)[g[q]]
  <2> HIDE DEF m
  <2>1. QED
    BY <1>1, HopsFacts
<1>3. 0 \in T
  <2>1. h[0] = n /\ h[0 + 1] = Onward(p)[h[0]] /\ g[0] = m
    BY <1>1, HopsFacts
  <2>2. QED
    BY <2>1
<1>4. ASSUME NEW d \in T PROVE d + 1 \in T
  <2>1. ASSUME d + 1 < Modulus PROVE h[(d + 1) + 1] = g[d + 1]
    <3>1. d + 1 \in 0 .. Modulus - 1 /\ d \in 0 .. Modulus - 1 /\ h[d + 1] = g[d]
      BY <1>1, <2>1
    <3>2. h[(d + 1) + 1] = Onward(p)[h[d + 1]]
      BY <3>1, HopsFacts
    <3>3. g[d + 1] = Onward(p)[g[d]]
      BY <1>2, <3>1
    <3>4. QED
      BY <3>1, <3>2, <3>3
  <2>2. QED
    BY <2>1
<1> HIDE DEF T
<1>5. T = Nat
  <2>1. T \in SUBSET Nat
    BY DEF T
  <2>2. QED
    BY <1>3, <1>4, <2>1, Upwards
<1>6. k \in T /\ k < Modulus
  BY <1>1, <1>5
<1>7. QED
  BY <1>6 DEF T

\* There are fewer addresses than links, so some address is met twice.
LEMMA HopsRepeat ==
  ASSUME NEW p, IsProgram(p), NEW n \in Val
  PROVE  \E i, j \in 0 .. Modulus : i < j /\ Hops(p, n)[i] = Hops(p, n)[j]
<1> DEFINE S == 0 .. Modulus
<1>1. Modulus \in Nat \ {0}
  BY WordAssumption
<1>2. IsFiniteSet(S) /\ Cardinality(S) = Modulus + 1
  BY <1>1, FS_Interval
<1>3. IsFiniteSet(Val) /\ Cardinality(Val) = Modulus
  BY <1>1, FS_Interval DEF Val
<1>4. Cardinality(Val) < Cardinality(S)
  BY <1>1, <1>2, <1>3
<1>5. Hops(p, n) \in [S -> Val]
  BY HopsFacts
<1>6. PICK i \in S, j \in S : i # j /\ Hops(p, n)[i] = Hops(p, n)[j]
  <2> HIDE DEF S
  <2>1. QED
    BY <1>2, <1>3, <1>4, <1>5, FS_PigeonHole
<1>7. i < j \/ j < i
  BY <1>1, <1>6
<1>8. QED
  BY <1>6, <1>7

\* What has not settled by then never settles.
LEMMA HopsLast ==
  ASSUME NEW p, IsProgram(p), NEW n \in Val, IsB(p, Hops(p, n)[Modulus - 1])
  PROVE  IsB(p, Hops(p, n)[Modulus])
<1> DEFINE h == Hops(p, n)
<1>1. PICK i \in 0 .. Modulus, j \in 0 .. Modulus : i < j /\ h[i] = h[j]
  BY HopsRepeat
<1>2. Modulus \in Nat \ {0} /\ i \in Nat /\ j \in Nat /\ i < j /\ j <= Modulus
  BY <1>1, WordAssumption
<1> DEFINE T == {d \in Nat : j + d <= Modulus => h[i + d] = h[j + d]}
<1>3. 0 \in T
  BY <1>1, <1>2
<1>4. ASSUME NEW d \in T PROVE d + 1 \in T
  <2>1. ASSUME j + (d + 1) <= Modulus PROVE h[i + (d + 1)] = h[j + (d + 1)]
    <3>1. /\ i + d \in 0 .. Modulus - 1 /\ (i + d) + 1 = i + (d + 1)
          /\ j + d \in 0 .. Modulus - 1 /\ (j + d) + 1 = j + (d + 1)
          /\ h[i + d] = h[j + d]
      BY <1>2, <2>1
    <3>2. h[i + (d + 1)] = Onward(p)[h[i + d]] /\ h[j + (d + 1)] = Onward(p)[h[j + d]]
      BY <3>1, HopsFacts
    <3>3. QED
      BY <3>1, <3>2
  <2>2. QED
    BY <2>1
<1> HIDE DEF T
<1>5. T = Nat
  <2>1. T \in SUBSET Nat
    BY DEF T
  <2>2. QED
    BY <1>3, <1>4, <2>1, Upwards
<1> DEFINE e == i + (Modulus - j)
<1>6. h[e] = h[Modulus]
  <2>1. Modulus - j \in T /\ j + (Modulus - j) = Modulus
    BY <1>2, <1>5
  <2>2. QED
    BY <2>1 DEF T
<1>7. e \in 0 .. Modulus /\ Modulus - 1 \in 0 .. Modulus /\ e <= Modulus - 1
  BY <1>2
<1> HIDE DEF e
<1>8. SUFFICES ASSUME ~IsB(p, h[Modulus]) PROVE FALSE
  OBVIOUS
<1>9. h[Modulus - 1] = h[e]
  BY <1>6, <1>7, <1>8, HopsSettle
<1>10. QED
  BY <1>6, <1>8, <1>9

\* From a B, execution goes on where it goes on from the B's target.
LEMMA FollowStep ==
  ASSUME NEW p, IsProgram(p), NEW n \in Val, IsB(p, n)
  PROVE  Follow(p, n) = Follow(p, InstAt(p, n).imm)
<1> DEFINE m == Onward(p)[n]
           h == Hops(p, n)
           g == Hops(p, m)
<1>1. m \in Val /\ m = InstAt(p, n).imm
  BY OnwardFacts
<1>2. Modulus \in Nat \ {0} /\ Modulus - 1 \in 0 .. Modulus - 1 /\ (Modulus - 1) + 1 = Modulus
  BY WordAssumption
<1>3. h[Modulus] = g[Modulus - 1] /\ g[0] = m /\ g[Modulus] = Onward(p)[g[Modulus - 1]]
  BY <1>1, <1>2, HopsShift, HopsFacts
<1>4. g[Modulus - 1] \in Val /\ g[Modulus] \in Val
  <2>1. Modulus - 1 \in 0 .. Modulus /\ Modulus \in 0 .. Modulus
    BY <1>2
  <2>2. QED
    BY <1>1, <2>1, HopsFacts
<1>5. CASE ~IsB(p, m)
  <2>1. g[Modulus - 1] = m
    <3>1. 0 \in 0 .. Modulus /\ Modulus - 1 \in 0 .. Modulus /\ 0 <= Modulus - 1
      BY <1>2
    <3>2. QED
      BY <1>1, <1>3, <1>5, <3>1, HopsSettle
  <2>2. QED
    BY <1>1, <1>3, <1>5, <2>1, FollowAs
<1>6. CASE IsB(p, m) /\ IsB(p, g[Modulus - 1])
  <2>1. IsB(p, g[Modulus])
    BY <1>1, <1>6, HopsLast
  <2>2. QED
    BY <1>1, <1>3, <1>6, <2>1, FollowAs
<1>7. CASE IsB(p, m) /\ ~IsB(p, g[Modulus - 1])
  <2>1. g[Modulus] = g[Modulus - 1]
    BY <1>3, <1>4, <1>7, OnwardFacts
  <2>2. QED
    BY <1>1, <1>3, <1>7, <2>1, FollowAs
<1>8. QED
  BY <1>5, <1>6, <1>7

\* From any other instruction execution goes on there.
LEMMA FollowHere ==
  ASSUME NEW p, NEW n, ~IsB(p, n)
  PROVE  Follow(p, n) = n
  BY FollowAs


---------------------------------------------------------------------------
(* Types of the pipeline.                                                  *)

Prediction == [taken : BOOLEAN, target : Val, early : BOOLEAN, next : Val]
FetchRegister == [valid : {TRUE}, pc : Val, inst : Inst, guess : Prediction]
DecodeRegister == [valid : {TRUE}, pc : Val, inst : Inst, guess : Prediction, rn : Val, rm : Val]
ExecuteRegister == [valid : {TRUE}, pc : Val, inst : Inst, alu : Val, st : Val, st2 : Val, fl : Flags]
MemoryRegister == [valid : {TRUE}, pc : Val, inst : Inst, alu : Val, data : Val, data2 : Val]

FetchPort == [pending : BOOLEAN, pc : Val, left : Int]
AccessPort == [pending : BOOLEAN, pc : Val, addr : Val, left : Int, data : Val,
               issued : BOOLEAN, ipc : Val, iaddr : Val]
MemoryAnswer == [stall : BOOLEAN, port : AccessPort, data : Val, data2 : Val, view : [Val -> Val]]
FetchAnswer == [stall : BOOLEAN, inst : Inst, port : FetchPort]

\* What the typing invariant says of the parts of the machine, in the order of the stages.
Stored == regs \in [Regs -> Val] /\ mem \in [Val -> Val] /\ view \in [Val -> Val]
Chosen ==
  /\ setup \in DOMAIN Setups
  /\ \A a \in DOMAIN prog : prog[a] \in Inst
Scalars == fl \in Flags /\ pc \in Val /\ halted \in BOOLEAN /\ code \in Val /\ exLatency \in Nat
Latched ==
  /\ ifid \in FetchRegister \cup {Empty}
  /\ idex \in DecodeRegister \cup {Empty}
  /\ exmem \in ExecuteRegister \cup {Empty}
  /\ memwb \in MemoryRegister \cup {Empty}
Ports == fport \in FetchPort /\ dport \in AccessPort
Counts == retired \in Nat /\ executed \in Nat

\* The inductive typing invariant.  TypeOK alone is not inductive: it leaves out the
\* values latched in ID, the predictions, the ports and the program they come from.
Typed == Chosen /\ Stored /\ Scalars /\ Latched /\ Ports /\ Counts

LEMMA TypedImpliesTypeOK == Typed => TypeOK
<1> SUFFICES ASSUME Typed PROVE TypeOK
  OBVIOUS
<1>1. \A r \in {ifid, idex, exmem, memwb} : r # Empty => r.valid /\ r.pc \in Val /\ r.inst \in Inst
  <2>1. \A r \in FetchRegister \cup DecodeRegister \cup ExecuteRegister \cup MemoryRegister :
          r.valid = TRUE /\ r.pc \in Val /\ r.inst \in Inst
    BY DEF FetchRegister, DecodeRegister, ExecuteRegister, MemoryRegister
  <2>2. \A r \in {ifid, idex, exmem, memwb} :
          r # Empty => r \in FetchRegister \cup DecodeRegister \cup ExecuteRegister \cup MemoryRegister
    BY DEF Typed, Latched
  <2>3. QED
    BY <2>1, <2>2
<1>2. /\ exmem # Empty => {exmem.alu, exmem.st, exmem.st2} \subseteq Val
      /\ memwb # Empty => {memwb.alu, memwb.data, memwb.data2} \subseteq Val
  BY DEF Typed, Latched, ExecuteRegister, MemoryRegister
<1>3. QED
  BY <1>1, <1>2 DEF Typed, Stored, Scalars, TypeOK

LEMMA InitTyped == Init => Typed
<1> SUFFICES ASSUME Init PROVE Typed
  OBVIOUS
<1>1. Chosen
  BY PipelineAssumption DEF Init, Chosen, Machine
<1>2. Stored
  BY PipelineAssumption DEF Init, Stored, Machine
<1>3. Scalars
  BY RegisterFacts DEF Init, Scalars, Flags
<1>4. Latched
  BY DEF Init, Latched
<1>5. Ports
  BY RegisterFacts DEF Init, Ports, NoFetch, NoAccess, FetchPort, AccessPort
<1>6. Counts
  BY DEF Init, Counts
<1>7. QED
  BY <1>1, <1>2, <1>3, <1>4, <1>5, <1>6 DEF Typed

\* An invalid register is Empty.
LEMMA ValidRegisters ==
  ASSUME Latched
  PROVE  /\ ifid.valid \in BOOLEAN /\ (ifid.valid => ifid \in FetchRegister)
         /\ idex.valid \in BOOLEAN /\ (idex.valid => idex \in DecodeRegister)
         /\ exmem.valid \in BOOLEAN /\ (exmem.valid => exmem \in ExecuteRegister)
         /\ memwb.valid \in BOOLEAN /\ (memwb.valid => memwb \in MemoryRegister)
<1>1. Empty.valid = FALSE
  BY DEF Empty
<1>2. \A e \in FetchRegister \cup DecodeRegister \cup ExecuteRegister \cup MemoryRegister : e.valid = TRUE
  BY DEF FetchRegister, DecodeRegister, ExecuteRegister, MemoryRegister
<1>3. QED
  BY <1>1, <1>2, Zenon DEF Latched

---------------------------------------------------------------------------
(* Types of what the stages compute.                                       *)

LEMMA DestOfType ==
  ASSUME NEW i \in Inst
  PROVE  DestOf(i) \in Regs \cup {XZR}
  BY InstFields, RegisterFacts DEF DestOf

LEMMA ForwardType ==
  ASSUME Typed, NEW r \in Regs \cup {XZR}, NEW v \in Val
  PROVE  GetForwardedValue(r, v) \in Val
<1>1. CASE DetectForwardForReg(r) = "EXMEM"
  <2>1. exmem.valid
    BY <1>1 DEF DetectForwardForReg
  <2>2. exmem \in ExecuteRegister
    BY <2>1, ValidRegisters DEF Typed
  <2>3. GetForwardedValue(r, v) = exmem.alu
    BY <1>1 DEF GetForwardedValue
  <2>4. QED
    BY <2>2, <2>3 DEF ExecuteRegister
<1>2. CASE DetectForwardForReg(r) \in {"MEMWB", "MEMWBRt2"}
  <2>1. memwb.valid
    BY <1>2 DEF DetectForwardForReg
  <2>2. memwb \in MemoryRegister
    BY <2>1, ValidRegisters DEF Typed
  <2>3. GetForwardedValue(r, v) \in {SlotValue(memwb), memwb.data2}
    BY <1>2 DEF GetForwardedValue
  <2>4. QED
    BY <2>2, <2>3 DEF MemoryRegister, SlotValue
<1>3. CASE DetectForwardForReg(r) = "None"
  BY <1>3 DEF GetForwardedValue
<1>4. QED
  BY <1>1, <1>2, <1>3 DEF DetectForwardForReg

LEMMA WritebackType ==
  ASSUME NEW file \in [Regs -> Val], NEW s \in MemoryRegister
  PROVE  WritebackSlot(file, s) \in [Regs -> Val]
<1> DEFINE i == s.inst
           base == IF i.op = "LDRP" THEN WriteReg(file, i.rn, WritebackVal(s)) ELSE file
           first == IF RegWrite(i) THEN WriteReg(base, DestOf(i), SlotValue(s)) ELSE base
           second == IF RegWrite(i) /\ i.op = "LDP" THEN WriteReg(first, i.rt2, s.data2) ELSE first
<1>1. s.valid /\ i \in Inst /\ s.data2 \in Val
  BY DEF MemoryRegister
<1>2. WritebackVal(s) \in Val /\ SlotValue(s) \in Val
  <2>1. s.alu \in Val /\ s.data \in Val /\ i.imm \in Val
    BY <1>1, InstFields DEF MemoryRegister
  <2>2. QED
    BY <2>1, WrapSums DEF WritebackVal, SlotValue
<1>3. base \in [Regs -> Val]
  BY <1>1, <1>2, InstFields, WriteRegType
<1>4. first \in [Regs -> Val]
  <2> HIDE DEF base
  <2>1. QED
    BY <1>1, <1>2, <1>3, InstFields, DestOfType, WriteRegType
<1>5. second \in [Regs -> Val]
  <2> HIDE DEF first
  <2>1. QED
    BY <1>1, <1>4, InstFields, WriteRegType
<1>6. WritebackSlot(file, s) = second
  BY <1>1, Zenon DEF WritebackSlot
<1>7. QED
  BY <1>5, <1>6

LEMMA RegsNowType ==
  ASSUME Typed
  PROVE  AfterMEMWB \in [Regs -> Val] /\ RegsNow \in [Regs -> Val]
<1>1. AfterMEMWB \in [Regs -> Val]
  <2>1. CASE memwb.valid
    BY <2>1, ValidRegisters, WritebackType DEF Typed, Stored, AfterMEMWB
  <2>2. CASE ~memwb.valid
    BY <2>2 DEF Typed, Stored, AfterMEMWB, WritebackSlot
  <2>3. QED
    BY <2>1, <2>2
<1>2. QED
  BY <1>1, RegisterFacts DEF RegsNow

\* What a memory stage finds at an address and leaves.
LEMMA AccessMemoryType ==
  ASSUME NEW m \in ExecuteRegister, NEW v \in [Val -> Val]
  PROVE  LET done == AccessMemory(m, v)
         IN done.data \in Val /\ done.data2 \in Val /\ done.view \in [Val -> Val]
<1> DEFINE next == Wrap(m.alu + 1)
<1>1. m.alu \in Val /\ m.st \in Val /\ m.st2 \in Val
  BY DEF ExecuteRegister
<1>2. next \in Val
  BY <1>1, WrapSums
<1> HIDE DEF next
<1>3. (IF IsLoad(m.inst) THEN v[m.alu] ELSE 0) \in Val
  BY <1>1, RegisterFacts
<1>4. (IF m.inst.op = "LDP" THEN v[next] ELSE 0) \in Val
  BY <1>2, RegisterFacts
<1>5. (CASE m.inst.op = "STR" -> [v EXCEPT ![m.alu] = m.st]
         [] m.inst.op = "STP" -> [[v EXCEPT ![m.alu] = m.st] EXCEPT ![next] = m.st2]
         [] OTHER -> v) \in [Val -> Val]
  BY <1>1, <1>2
<1>6. QED
  BY <1>3, <1>4, <1>5 DEF AccessMemory, next

LEMMA AccessType ==
  ASSUME Typed, NEW lat \in Nat
  PROVE  Access(lat) \in MemoryAnswer
<1>1. dport \in AccessPort /\ view \in [Val -> Val]
  BY DEF Typed, Ports, Stored
<1>2. CASE ~exmem.valid
  BY <1>1, <1>2, RegisterFacts DEF Access, Idle, MemoryAnswer
<1>3. CASE exmem.valid /\ Machine.dcache
  <2>1. exmem.alu \in Val /\ exmem.pc \in Val /\ exmem.st \in Val
    BY <1>3, ValidRegisters DEF Typed, ExecuteRegister
  <2>2. dport.left \in Int /\ dport.data \in Val /\ view[exmem.alu] \in Val /\ dport.pending \in BOOLEAN
    BY <1>1, <2>1 DEF AccessPort
  <2>3. CachedAccess(lat) \in MemoryAnswer
    <3> DEFINE a == exmem.alu
               waited == dport.pending /\ dport.pc = exmem.pc /\ dport.addr = a
               left == IF waited THEN dport.left - 1 ELSE lat - 1
               data == IF waited THEN dport.data ELSE view[a]
    <3>1. left \in Int /\ data \in Val /\ (left > 0) \in BOOLEAN
      BY <2>2
    <3> HIDE DEF left, data
    <3>2. [stall |-> left > 0,
           port |-> [dport EXCEPT !.pending = left > 0, !.pc = exmem.pc, !.addr = a,
                                  !.left = left, !.data = data],
           data |-> IF left > 0 THEN 0 ELSE data, data2 |-> 0, view |-> view] \in MemoryAnswer
      BY <1>1, <2>1, <3>1, RegisterFacts DEF MemoryAnswer, AccessPort
    <3>3. [stall |-> FALSE,
           port |-> [dport EXCEPT !.pending = FALSE, !.issued = TRUE, !.ipc = exmem.pc,
                                  !.iaddr = a],
           data |-> 0, data2 |-> 0,
           view |-> IF Issued(a) THEN view ELSE [view EXCEPT ![a] = exmem.st]] \in MemoryAnswer
      BY <1>1, <2>1, RegisterFacts DEF MemoryAnswer, AccessPort
    <3>4. [stall |-> FALSE, port |-> [dport EXCEPT !.pending = FALSE],
           data |-> 0, data2 |-> 0, view |-> view] \in MemoryAnswer
      BY <1>1, RegisterFacts DEF MemoryAnswer, AccessPort
    <3>5. QED
      BY <3>2, <3>3, <3>4, Zenon DEF CachedAccess, left, data
  <2>4. QED
    BY <1>3, <2>3 DEF Access
<1>4. CASE exmem.valid /\ ~Machine.dcache
  <2>1. exmem \in ExecuteRegister
    BY <1>4, ValidRegisters DEF Typed
  <2> DEFINE done == AccessMemory(exmem, view)
  <2>2. done.data \in Val /\ done.data2 \in Val /\ done.view \in [Val -> Val]
    BY <1>1, <2>1, AccessMemoryType
  <2> HIDE DEF done
  <2>3. [stall |-> TRUE, port |-> [NoAccess EXCEPT !.pending = TRUE, !.pc = exmem.pc],
         data |-> 0, data2 |-> 0, view |-> view] \in MemoryAnswer
    BY <1>1, <2>1, RegisterFacts DEF MemoryAnswer, AccessPort, NoAccess, ExecuteRegister
  <2>4. [stall |-> FALSE, port |-> [dport EXCEPT !.pending = FALSE],
         data |-> done.data, data2 |-> done.data2, view |-> done.view] \in MemoryAnswer
    BY <1>1, <2>2 DEF MemoryAnswer, AccessPort
  <2>5. PlainAccess \in MemoryAnswer
    BY <2>3, <2>4, Zenon DEF PlainAccess, done
  <2>6. QED
    BY <1>4, <2>5 DEF Access
<1>5. QED
  BY <1>2, <1>3, <1>4

LEMMA CyclesLeftType ==
  ASSUME Typed, idex.valid
  PROVE  CyclesLeft(exLatency, idex) \in Nat \ {0}
<1>1. idex.inst.op \in Ops
  BY ValidRegisters, InstFields DEF Typed, DecodeRegister
<1>2. Machine.latency[idex.inst.op] \in Nat \ {0}
  BY <1>1, PipelineAssumption DEF Machine, Typed, Chosen
<1>3. QED
  BY <1>2 DEF CyclesLeft, Typed, Scalars

LEMMA OperandTypes ==
  ASSUME Typed, idex.valid
  PROVE  OperandRn \in Val /\ OperandRm \in Val /\ idex \in DecodeRegister
<1>1. idex \in DecodeRegister
  BY ValidRegisters DEF Typed
<1>2. idex.rn \in Val /\ idex.rm \in Val /\ idex.inst \in Inst
  BY <1>1 DEF DecodeRegister
<1>3. QED
  BY <1>1, <1>2, InstFields, ForwardType DEF OperandRn, OperandRm

LEMMA ALUResultType ==
  ASSUME NEW e \in DecodeRegister, NEW x \in Val, NEW y \in Val, NEW file \in [Regs -> Val]
  PROVE  ALUResult(e, x, y, file) \in Val
<1>1. e.inst \in Inst /\ e.rm \in Val /\ e.pc \in Val
  BY DEF DecodeRegister
<1>2. e.inst.imm \in Val /\ e.inst.rt2 \in Regs \cup {XZR}
  BY <1>1, InstFields
<1>3. (IF e.inst.rt2 = XZR THEN e.rm ELSE file[e.inst.rt2]) \in Val
  BY <1>1, <1>2
<1>4. /\ Wrap(x + y) \in Val /\ Wrap(x + e.inst.imm) \in Val /\ Wrap(x - y) \in Val
      /\ Wrap(x - e.inst.imm) \in Val /\ Wrap(e.pc + 1) \in Val
      /\ Wrap((IF e.inst.rt2 = XZR THEN e.rm ELSE file[e.inst.rt2]) + x * y) \in Val
  BY <1>1, <1>2, <1>3, WrapSums
<1>5. QED
  BY <1>4, RegisterFacts DEF ALUResult

LEMMA ExecutedType ==
  ASSUME Typed, idex.valid
  PROVE  Executed \in ExecuteRegister
<1>1. /\ idex \in DecodeRegister /\ OperandRn \in Val /\ OperandRm \in Val
      /\ RegsNow \in [Regs -> Val]
  BY OperandTypes, RegsNowType
<1>2. idex.inst \in Inst /\ idex.pc \in Val
  BY <1>1 DEF DecodeRegister
<1>3. StoreData(RegsNow, idex.inst.rd) \in Val /\ StoreData(RegsNow, idex.inst.rt2) \in Val
  BY <1>1, <1>2, InstFields, ReadRegType, ForwardType DEF StoreData
<1>4. ALUResult(idex, OperandRn, OperandRm, RegsNow) \in Val
  BY <1>1, ALUResultType
<1>5. FlagsOf(idex.inst, OperandRn, OperandRm) \in Flags
  BY DEF FlagsOf, SubFlags, Flags
<1>6. QED
  BY <1>2, <1>3, <1>4, <1>5, RegisterFacts DEF Executed, Result, ExecuteRegister, Flags

LEMMA GuessType ==
  ASSUME NEW n \in Val, NEW i \in Inst, NEW g \in Guesses(n, i)
  PROVE  g \in Prediction
<1>1. i.imm \in Val /\ Wrap(n + 1) \in Val /\ 0 \in Val
  BY InstFields, WrapSums, RegisterFacts
<1> DEFINE none == [taken |-> FALSE, target |-> 0, early |-> FALSE, next |-> Wrap(n + 1)]
           to(t) == [taken |-> TRUE, target |-> t, early |-> FALSE, next |-> t]
<1>2. none \in Prediction /\ \A t \in Val : to(t) \in Prediction
  BY <1>1 DEF Prediction
<1>3. [to(i.imm) EXCEPT !.early = TRUE] \in Prediction /\ [none EXCEPT !.taken = TRUE] \in Prediction
  BY <1>1 DEF Prediction
<1>4. Guesses(n, i) = CASE i.op = "BL" -> {[to(i.imm) EXCEPT !.early = TRUE]}
       [] i.op \in {"BEQ", "BCS", "CBZ"} -> {none, to(i.imm)}
       [] i.op = "RET" -> {none, [none EXCEPT !.taken = TRUE]} \cup {to(t) : t \in Val}
       [] OTHER -> {none}
  BY Zenon DEF Guesses
<1> HIDE DEF none, to
<1>5. \/ g \in {[to(i.imm) EXCEPT !.early = TRUE], [none EXCEPT !.taken = TRUE], none, to(i.imm)}
      \/ \E t \in Val : g = to(t)
  BY <1>4
<1>6. QED
  BY <1>1, <1>2, <1>3, <1>5

LEMMA FetchType ==
  ASSUME Typed, NEW hit \in BOOLEAN
  PROVE  Fetch(fport, pc, hit) \in FetchAnswer
<1> DEFINE waited == fport.pending /\ fport.pc = pc
           left == IF waited THEN fport.left - 1 ELSE IF hit THEN 0 ELSE MissLatency - 1
<1>1. left \in Int /\ (left > 0) \in BOOLEAN
  BY PipelineAssumption DEF Typed, Ports, FetchPort
<1>2. InstAt(prog, pc) \in Inst
  BY InstAtType DEF Typed, Chosen
<1> HIDE DEF left
<1>3. (IF left > 0 THEN [pending |-> TRUE, pc |-> pc, left |-> left] ELSE NoFetch) \in FetchPort
  BY <1>1, RegisterFacts DEF FetchPort, NoFetch, Typed, Scalars
<1>4. [stall |-> left > 0, inst |-> InstAt(prog, pc),
       port |-> IF left > 0 THEN [pending |-> TRUE, pc |-> pc, left |-> left] ELSE NoFetch]
         \in FetchAnswer
  BY <1>1, <1>2, <1>3 DEF FetchAnswer
<1>5. QED
  BY <1>4 DEF Fetch, left

---------------------------------------------------------------------------
(* One tick keeps the types.                                               *)

\* What a cycle may make of each variable, whatever stalls or flushes.
LEMMA CycleOutcomes ==
  ASSUME NEW acc, NEW fetch, NEW guess, NEW victim, NEW now, NEW result,
         Cycle(acc, fetch, guess, victim, now, result)
  PROVE  /\ regs' = now /\ view' = acc.view /\ dport' = acc.port
         /\ mem' \in {acc.view, [mem EXCEPT ![victim] = acc.view[victim]], mem}
         /\ halted' = Exits /\ code' \in {AfterMEMWB[0], code}
         /\ fl' = fl \/ (idex.valid /\ fl' = result.fl)
         /\ memwb' = Empty \/ (exmem.valid /\ memwb' = Leaving(exmem, acc))
         /\ exmem' = exmem \/ exmem' = Empty \/ (idex.valid /\ exmem' = result)
         /\ ifid' \in {Empty, ifid, Fetched(pc, fetch.inst, guess)}
         /\ idex' = idex \/ idex' = Empty \/ (ifid.valid /\ idex' = Decoded(ifid, now))
         /\ \/ idex.valid /\ pc' = RestartPC(idex, BranchFlags, OperandRn)
            \/ pc' \in {fetch.inst.imm, guess.next, pc}
         /\ exLatency' = exLatency \/ (idex.valid /\ exLatency' = CyclesLeft(exLatency, idex) - 1)
         /\ fport' \in {fetch.port, fport}
         /\ retired' = retired + (IF memwb.valid THEN 1 ELSE 0)
         /\ executed' = executed \/ (idex.valid /\ executed' = executed + 1)
         /\ setup' = setup /\ prog' = prog
<1>1. /\ regs' = now /\ view' = acc.view /\ dport' = acc.port
      /\ halted' = Exits /\ setup' = setup /\ prog' = prog
      /\ retired' = retired + (IF memwb.valid THEN 1 ELSE 0)
  BY DEF Cycle
<1>2. mem' \in {acc.view, [mem EXCEPT ![victim] = acc.view[victim]], mem}
  BY DEF Cycle
<1>3. code' \in {AfterMEMWB[0], code} /\ fport' \in {fetch.port, fport}
  BY DEF Cycle
<1>4. fl' = fl \/ (idex.valid /\ fl' = result.fl)
  BY DEF Cycle
<1>5. memwb' = Empty \/ (exmem.valid /\ memwb' = Leaving(exmem, acc))
  BY DEF Cycle, NextMEMWB
<1>6. exmem' = exmem \/ exmem' = Empty \/ (idex.valid /\ exmem' = result)
  BY DEF Cycle
<1>7. ifid' \in {Empty, ifid, Fetched(pc, fetch.inst, guess)}
  BY DEF Cycle
<1>8. idex' = idex \/ idex' = Empty \/ (ifid.valid /\ idex' = Decoded(ifid, now))
  BY DEF Cycle
<1>9. \/ idex.valid /\ pc' = RestartPC(idex, BranchFlags, OperandRn)
      \/ pc' \in {fetch.inst.imm, guess.next, pc}
  BY DEF Cycle
<1>10. exLatency' = exLatency \/ (idex.valid /\ exLatency' = CyclesLeft(exLatency, idex) - 1)
  BY DEF Cycle
<1>11. executed' = executed \/ (idex.valid /\ executed' = executed + 1)
  BY DEF Cycle
<1>12. QED
  BY <1>1, <1>2, <1>3, <1>4, <1>5, <1>6, <1>7, <1>8, <1>9, <1>10, <1>11

LEMMA CycleTyped ==
  ASSUME Typed, NEW acc \in MemoryAnswer, NEW fetch \in FetchAnswer, NEW guess \in Prediction,
         NEW victim \in Val, NEW now \in [Regs -> Val], NEW result,
         idex.valid => result \in ExecuteRegister,
         Cycle(acc, fetch, guess, victim, now, result)
  PROVE  Typed'
<1> USE CycleOutcomes
<1>1. acc.view \in [Val -> Val] /\ acc.port \in AccessPort /\ acc.data \in Val /\ acc.data2 \in Val
  BY DEF MemoryAnswer
<1>2. fetch.inst \in Inst /\ fetch.port \in FetchPort /\ fetch.inst.imm \in Val
  <2>1. fetch.inst \in Inst /\ fetch.port \in FetchPort
    BY DEF FetchAnswer
  <2>2. QED
    BY <2>1, InstFields
<1>3. Stored'
  BY <1>1 DEF Stored, Typed
<1>4. Chosen'
  BY DEF Chosen, Typed
<1>5. Scalars'
  <2>1. fl' \in Flags
    BY DEF Typed, Scalars, ExecuteRegister
  <2>2. code' \in Val /\ halted' \in BOOLEAN
    <3>1. AfterMEMWB[0] \in Val
      BY RegsNowType, RegisterFacts
    <3>2. Exits \in BOOLEAN
      BY ValidRegisters DEF Exits, EndsProgram, Typed
    <3>3. QED
      BY <3>1, <3>2 DEF Typed, Scalars
  <2>3. pc' \in Val
    <3>1. ASSUME idex.valid PROVE RestartPC(idex, BranchFlags, OperandRn) \in Val
      <4>1. idex \in DecodeRegister /\ OperandRn \in Val
        BY <3>1, OperandTypes
      <4>2. idex.pc \in Val /\ idex.inst.imm \in Val
        BY <4>1, InstFields DEF DecodeRegister
      <4>3. QED
        BY <4>1, <4>2, WrapSums DEF RestartPC, Target
    <3>2. guess.next \in Val
      BY DEF Prediction
    <3>3. QED
      BY <3>1, <3>2, <1>2 DEF Typed, Scalars
  <2>4. exLatency' \in Nat
    BY CyclesLeftType DEF Typed, Scalars
  <2>5. QED
    BY <2>1, <2>2, <2>3, <2>4 DEF Scalars
<1>6. Latched'
  <2>1. ifid' \in FetchRegister \cup {Empty}
    <3>1. Fetched(pc, fetch.inst, guess) \in FetchRegister
      BY <1>2 DEF Fetched, FetchRegister, Typed, Scalars
    <3>2. QED
      BY <3>1 DEF Typed, Latched
  <2>2. idex' \in DecodeRegister \cup {Empty}
    <3>1. ASSUME ifid.valid PROVE Decoded(ifid, now) \in DecodeRegister
      <4>1. ifid.pc \in Val /\ ifid.inst \in Inst /\ ifid.guess \in Prediction
        BY <3>1, ValidRegisters DEF Typed, FetchRegister
      <4>2. ReadReg(now, ifid.inst.rn) \in Val /\ ReadReg(now, ifid.inst.rm) \in Val
        BY <4>1, InstFields, ReadRegType
      <4>3. QED
        BY <4>1, <4>2 DEF Decoded, DecodeRegister
    <3>2. QED
      BY <3>1 DEF Typed, Latched
  <2>3. exmem' \in ExecuteRegister \cup {Empty}
    BY DEF Typed, Latched
  <2>4. memwb' \in MemoryRegister \cup {Empty}
    <3>1. ASSUME exmem.valid PROVE Leaving(exmem, acc) \in MemoryRegister
      BY <3>1, <1>1, ValidRegisters DEF Typed, ExecuteRegister, MemoryRegister, Leaving
    <3>2. QED
      BY <3>1
  <2>5. QED
    BY <2>1, <2>2, <2>3, <2>4 DEF Latched
<1>7. Ports'
  BY <1>1, <1>2 DEF Ports, Typed
<1>8. Counts'
  BY DEF Counts, Typed
<1>9. QED
  BY <1>3, <1>4, <1>5, <1>6, <1>7, <1>8 DEF Typed

\* A tick is a cycle over the answers the stages compute.
LEMMA TickIsACycle ==
  ASSUME Tick
  PROVE  \E lat \in AccessLatencies, hit \in BOOLEAN, victim \in Val :
           \E guess \in Guesses(pc, InstAt(prog, pc)) :
             Cycle(Access(lat), Fetch(fport, pc, hit), guess, victim, RegsNow,
                   IF idex.valid THEN Executed ELSE Empty)
<1> DEFINE result == IF idex.valid THEN Executed ELSE Empty
<1>1. PICK lat \in IF Accesses THEN AccessLatencies ELSE {HitLatency},
           hit \in IF Machine.icache THEN BOOLEAN ELSE {TRUE},
           victim \in IF Accesses THEN Val ELSE {0},
           guess \in Guesses(pc, InstAt(prog, pc)) :
             \E acc \in {Access(lat)}, fetch \in {Fetch(fport, pc, hit)}, now \in {RegsNow},
                chosen \in {result} : Cycle(acc, fetch, guess, victim, now, chosen)
  BY Zenon DEF Tick
<1>2. lat \in AccessLatencies /\ hit \in BOOLEAN /\ victim \in Val
  BY ONLY <1>1, RegisterFacts DEF AccessLatencies
<1> HIDE DEF result
<1>3. Cycle(Access(lat), Fetch(fport, pc, hit), guess, victim, RegsNow, result)
  BY ONLY <1>1, Zenon
<1>4. QED
  BY <1>2, <1>3, Zenon DEF result

LEMMA TickTyped ==
  ASSUME Typed, Tick
  PROVE  Typed'
<1>1. PICK lat \in AccessLatencies, hit \in BOOLEAN, victim \in Val :
        \E guess \in Guesses(pc, InstAt(prog, pc)) :
          Cycle(Access(lat), Fetch(fport, pc, hit), guess, victim, RegsNow,
                IF idex.valid THEN Executed ELSE Empty)
  BY TickIsACycle
<1>2. PICK guess \in Guesses(pc, InstAt(prog, pc)) :
        Cycle(Access(lat), Fetch(fport, pc, hit), guess, victim, RegsNow,
              IF idex.valid THEN Executed ELSE Empty)
  BY <1>1
<1>3. Access(lat) \in MemoryAnswer /\ Fetch(fport, pc, hit) \in FetchAnswer
  BY PipelineAssumption, AccessType, FetchType DEF AccessLatencies
<1>4. guess \in Prediction
  BY GuessType, InstAtType DEF Typed, Chosen, Scalars
<1>5. idex.valid => (IF idex.valid THEN Executed ELSE Empty) \in ExecuteRegister
  BY ExecutedType
<1>6. QED
  BY <1>2, <1>3, <1>4, <1>5, RegsNowType, CycleTyped, Zenon

\* The typing invariant of the whole machine, from which the other theorems start.
THEOREM AlwaysTyped == Spec => []Typed
<1>1. Init => Typed
  BY InitTyped
<1>2. Typed /\ [Next]_vars => Typed'
  <2> SUFFICES ASSUME Typed, [Next]_vars PROVE Typed'
    OBVIOUS
  <2>1. CASE Tick
    BY <2>1, TickTyped
  <2>2. CASE UNCHANGED vars
    BY <2>2 DEF vars, machine, Typed, Chosen, Stored, Scalars, Latched, Ports, Counts
  <2>3. QED
    BY <2>1, <2>2 DEF Next
<1>3. QED
  BY <1>1, <1>2, PTL DEF Spec

\* No value leaves the word, no register or address its range, however it was computed,
\* forwarded, loaded, written back or predicted, on any machine and any program.
THEOREM TypeCorrect == Spec => []TypeOK
  BY AlwaysTyped, TypedImpliesTypeOK, PTL

---------------------------------------------------------------------------
(* Statistics.Instructions.                                                *)

\* Instructions counted, or yet to be counted when they leave MEM/WB.
Accounted == retired + (IF exmem.valid THEN 1 ELSE 0) + (IF memwb.valid THEN 1 ELSE 0)

\* EX is not done with its instruction.
Computing == idex.valid /\ CyclesLeft(exLatency, idex) > 1

LEMMA DifferenceKept ==
  ASSUME NEW a \in Int, NEW e \in Int, NEW a1 \in Int, NEW e1 \in Int
  PROVE  /\ a1 - e1 = a - e /\ e = a => e1 = a1
         /\ a1 - e1 = a - e /\ e <= a => e1 <= a1
         /\ a1 - e1 = a - e + 1 /\ e <= a => e1 <= a1
  OBVIOUS

LEMMA CountTypes ==
  /\ Typed => executed \in Int /\ Accounted \in Int
  /\ Typed' => executed' \in Int /\ Accounted' \in Int
<1>1. \A r, x, m : r \in Nat => r + (IF x THEN 1 ELSE 0) + (IF m THEN 1 ELSE 0) \in Int
  OBVIOUS
<1>2. QED
  BY <1>1 DEF Typed, Counts, Accounted

\* A cycle accounts for what it executes; one that leaves EX computing while an
\* instruction is in EX/MEM, and is let into MEM/WB again, counts that one once more.
LEMMA CycleCounts ==
  ASSUME Typed, NEW acc \in MemoryAnswer, NEW fetch \in FetchAnswer, NEW guess, NEW victim,
         NEW now, NEW result, idex.valid => result \in ExecuteRegister,
         Cycle(acc, fetch, guess, victim, now, result)
  PROVE  \/ Accounted' - executed' = Accounted - executed
         \/ /\ Computing /\ exmem.valid
            /\ Accounted' - executed' = Accounted - executed + 1
<1> DEFINE memStall == acc.stall
           execStall == idex.valid /\ ~memStall /\ CyclesLeft(exLatency, idex) > 1
           executes == idex.valid /\ ~memStall /\ ~execStall
           flush == executes /\ Mispredicted(idex, BranchFlags, OperandRn)
           stall == LoadUse \/ execStall \/ memStall
           fetches == ~stall /\ ~flush
           fetchStall == fetches /\ fetch.stall
           held == memStall \/ execStall \/ fetchStall
<1>1. /\ retired' = retired + (IF memwb.valid THEN 1 ELSE 0)
      /\ executed' = IF executes /\ ~fetchStall THEN executed + 1 ELSE executed
      /\ exmem' = IF held THEN exmem ELSE IF executes THEN result ELSE Empty
      /\ memwb' = NextMEMWB(acc, fetchStall)
  BY Zenon DEF Cycle
<1>2. retired \in Nat /\ executed \in Nat
  BY DEF Typed, Counts
<1>3. /\ idex.valid \in BOOLEAN /\ exmem.valid \in BOOLEAN /\ memwb.valid \in BOOLEAN
      /\ acc.stall \in BOOLEAN /\ fetch.stall \in BOOLEAN
  BY ValidRegisters DEF Typed, MemoryAnswer, FetchAnswer
<1>4. fetchStall => ~memStall /\ ~execStall
  OBVIOUS
<1>5. memwb'.valid <=> exmem.valid /\ ~memStall /\ ~fetchStall
  <2>1. Empty.valid = FALSE /\ Leaving(exmem, acc).valid = TRUE
    BY DEF Empty, Leaving
  <2>2. QED
    BY <1>1, <2>1, Zenon DEF NextMEMWB
<1>6. exmem'.valid <=> IF held THEN exmem.valid ELSE executes
  <2>1. Empty.valid = FALSE /\ (idex.valid => result.valid = TRUE)
    BY DEF Empty, ExecuteRegister
  <2>2. QED
    BY <1>1, <2>1, Zenon
<1>7. Computing <=> idex.valid /\ CyclesLeft(exLatency, idex) > 1
  BY DEF Computing
<1> HIDE DEF memStall, execStall, executes, flush, stall, fetches, fetchStall, held
<1>8. held <=> memStall \/ execStall \/ fetchStall
  BY DEF held
<1>9. /\ execStall => Computing /\ ~memStall
      /\ executes <=> idex.valid /\ ~memStall /\ ~execStall
  BY <1>7 DEF execStall, executes
<1>10. QED
  BY <1>1, <1>2, <1>3, <1>4, <1>5, <1>6, <1>8, <1>9 DEF Accounted

\* A tick accounts for what it executes.
LEMMA TickCounts ==
  ASSUME Typed, Tick
  PROVE  /\ \/ Accounted' - executed' = Accounted - executed
            \/ /\ Computing /\ exmem.valid
               /\ Accounted' - executed' = Accounted - executed + 1
         /\ setup' = setup
         /\ exLatency' = exLatency \/ (idex.valid /\ exLatency' = CyclesLeft(exLatency, idex) - 1)
<1>1. PICK lat \in AccessLatencies, hit \in BOOLEAN, victim \in Val :
        \E guess \in Guesses(pc, InstAt(prog, pc)) :
          Cycle(Access(lat), Fetch(fport, pc, hit), guess, victim, RegsNow,
                IF idex.valid THEN Executed ELSE Empty)
  BY TickIsACycle
<1>2. PICK guess \in Guesses(pc, InstAt(prog, pc)) :
        Cycle(Access(lat), Fetch(fport, pc, hit), guess, victim, RegsNow,
              IF idex.valid THEN Executed ELSE Empty)
  BY <1>1
<1>3. Access(lat) \in MemoryAnswer /\ Fetch(fport, pc, hit) \in FetchAnswer
  BY PipelineAssumption, AccessType, FetchType DEF AccessLatencies
<1>4. idex.valid => (IF idex.valid THEN Executed ELSE Empty) \in ExecuteRegister
  BY ExecutedType
<1>5. QED
  BY <1>2, <1>3, <1>4, CycleCounts, CycleOutcomes, Zenon

\* The machine executes every operation in one cycle; what a load or a store waits for in
\* MEM, with or without caches, is not part of it.
InOneCycle == \A op \in Ops : Machine.latency[op] = 1

LEMMA InOneCycleFacts ==
  ASSUME Typed, InOneCycle, exLatency = 0, idex.valid
  PROVE  CyclesLeft(exLatency, idex) = 1
<1>1. idex.inst.op \in Ops
  BY ValidRegisters, InstFields DEF Typed, DecodeRegister
<1>2. QED
  BY <1>1 DEF CyclesLeft, InOneCycle

\* The invariant behind CountsOnce: EX is never left busy.
CountedOnce == InOneCycle => exLatency = 0 /\ RetireAccounting

\* On a machine of one-cycle operations, every instruction that completes is counted once,
\* whatever waits for the memory or the fetch.  retired_twice shows that a multi-cycle
\* operation in EX breaks this.
THEOREM CountsOnce == Spec => [](InOneCycle => RetireAccounting)
<1>1. Init => CountedOnce
  BY DEF Init, CountedOnce, RetireAccounting, Empty
<1>2. Typed /\ Typed' /\ CountedOnce /\ [Next]_vars => CountedOnce'
  <2> SUFFICES ASSUME Typed, Typed', CountedOnce, [Next]_vars, InOneCycle'
               PROVE  exLatency' = 0 /\ RetireAccounting'
    BY DEF CountedOnce
  <2>1. CASE UNCHANGED vars
    BY <2>1 DEF vars, machine, CountedOnce, InOneCycle, Machine, RetireAccounting
  <2>2. CASE Tick
    <3>1. InOneCycle
      BY <2>2, TickCounts DEF InOneCycle, Machine
    <3>2. exLatency = 0 /\ executed = Accounted
      BY <3>1 DEF CountedOnce, RetireAccounting, Accounted
    <3>3. idex.valid => CyclesLeft(exLatency, idex) = 1
      BY <3>1, <3>2, InOneCycleFacts
    <3>4. exLatency' = 0
      BY <2>2, <3>2, <3>3, TickCounts
    <3>5. Accounted' - executed' = Accounted - executed
      BY <2>2, <3>3, TickCounts DEF Computing
    <3>6. executed \in Int /\ Accounted \in Int /\ executed' \in Int /\ Accounted' \in Int
      BY CountTypes
    <3>7. executed' = Accounted'
      BY <3>2, <3>5, <3>6, DifferenceKept, Zenon
    <3>8. QED
      BY <3>4, <3>7 DEF RetireAccounting, Accounted
  <2>3. QED
    BY <2>1, <2>2 DEF Next
<1>3. CountedOnce => (InOneCycle => RetireAccounting)
  BY DEF CountedOnce
<1>4. QED
  BY <1>1, <1>2, <1>3, AlwaysTyped, PTL DEF Spec

\* No instruction is left out of the count, on any machine: it can only be too high.
THEOREM NoneUncounted == Spec => [](executed <= Accounted)
<1>1. Init => executed <= Accounted
  BY DEF Init, Accounted, Empty
<1>2. Typed /\ Typed' /\ executed <= Accounted /\ [Next]_vars => (executed <= Accounted)'
  <2> SUFFICES ASSUME Typed, Typed', executed <= Accounted, [Next]_vars
               PROVE  executed' <= Accounted'
    OBVIOUS
  <2>1. executed \in Int /\ Accounted \in Int /\ executed' \in Int /\ Accounted' \in Int
    BY CountTypes
  <2>2. CASE UNCHANGED vars
    BY <2>2 DEF vars, machine, Accounted
  <2>3. CASE Tick
    BY <2>1, <2>3, TickCounts, DifferenceKept, Zenon
  <2>4. QED
    BY <2>2, <2>3 DEF Next
<1>3. QED
  BY <1>1, <1>2, AlwaysTyped, PTL DEF Spec
===========================================================================
