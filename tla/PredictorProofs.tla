------------------------- MODULE PredictorProofs -------------------------
(* Theorems about BranchPredictor, for every size of its tables, every       *)
(* history length and any branches.                                          *)
EXTENDS BranchPredictor, TLAPS

---------------------------------------------------------------------------
(* Types.                                                                  *)

LEMMA BumpType ==
  ASSUME NEW c \in Counter, NEW up \in BOOLEAN
  PROVE  Bump(c, up) \in Counter
  BY DEF Bump, Counter

LEMMA IndexType ==
  ASSUME NEW pc, NEW h
  PROVE  /\ BimodalIndex(pc) \in SUBSET IndexMask /\ ChoiceIndex(pc) \in SUBSET IndexMask
         /\ GshareIndex(pc, h) \in SUBSET IndexMask /\ BTBIndex(pc) \in SUBSET BTBMask
  BY DEF BimodalIndex, ChoiceIndex, GshareIndex, BTBIndex

LEMMA BumpedTable ==
  ASSUME NEW t \in Table, NEW i \in SUBSET IndexMask, NEW up \in BOOLEAN
  PROVE  [t EXCEPT ![i] = Bump(@, up)] \in Table
  BY BumpType DEF Table

LEMMA UpdateType ==
  ASSUME TypeOK, NEW pc \in PCs, NEW taken \in BOOLEAN, NEW target \in Targets,
         Update(pc, taken, target)
  PROVE  /\ bimodal' \in Table /\ gshare' \in Table /\ choice' \in Table
         /\ globalHistory' \subseteq HistoryMask
         /\ btb' \in [SUBSET BTBMask -> BTBEntry]
<1>1. bimodal' \in Table /\ gshare' \in Table
  BY BumpedTable, IndexType DEF TypeOK, Update
<1>2. choice' \in Table
  <2> DEFINE right == GshareTaken(pc) <=> taken
  <2>1. right \in BOOLEAN
    OBVIOUS
  <2>2. \/ choice' = choice
        \/ choice' = [choice EXCEPT ![ChoiceIndex(pc)] = Bump(@, right)]
    <3>1. choice' = IF useTournament /\ ((BimodalTaken(pc) <=> taken) <=> ~right)
                      THEN [choice EXCEPT ![ChoiceIndex(pc)] = Bump(@, right)]
                      ELSE choice
      BY Zenon DEF Update
    <3> HIDE DEF right
    <3>2. QED
      BY <3>1, Zenon
  <2> HIDE DEF right
  <2>3. choice \in Table /\ ChoiceIndex(pc) \in SUBSET IndexMask
    BY IndexType DEF TypeOK
  <2>4. [choice EXCEPT ![ChoiceIndex(pc)] = Bump(@, right)] \in Table
    BY <2>1, <2>3, BumpedTable, Zenon
  <2>5. QED
    BY <2>2, <2>3, <2>4, Zenon
<1>3. globalHistory' \subseteq HistoryMask
  BY DEF Update, Shifted
<1>4. btb' \in [SUBSET BTBMask -> BTBEntry]
  <2>1. EntryOf(pc, target) \in BTBEntry
    BY DEF BTBEntry
  <2>2. QED
    BY <2>1, IndexType DEF TypeOK, Update
<1>5. QED
  BY <1>1, <1>2, <1>3, <1>4

LEMMA ClearedType ==
  /\ Counters(1) \in Table /\ Counters(2) \in Table
  /\ EmptyBTB \in [SUBSET BTBMask -> BTBEntry]
  /\ << >> \in Seq(Branch)
  /\ NoStreak \in [pc : PCs \cup {{}}, taken : BOOLEAN, n : 0 .. Learnt]
<1>1. Counters(1) \in Table /\ Counters(2) \in Table
  BY DEF Counters, Table, Counter
<1>2. EmptyBTB \in [SUBSET BTBMask -> BTBEntry]
  BY DEF EmptyBTB, BTBEntry
<1>3. NoStreak \in [pc : PCs \cup {{}}, taken : BOOLEAN, n : 0 .. Learnt]
  BY PredictorAssumption DEF NoStreak, Learnt
<1>4. << >> \in Seq(Branch)
  OBVIOUS
<1>5. QED
  BY <1>1, <1>2, <1>3, <1>4

LEMMA InitTypeOK == Init => TypeOK
<1> SUFFICES ASSUME Init PROVE TypeOK
  OBVIOUS
<1>1. globalHistory \subseteq HistoryMask
  BY DEF Init
<1>2. lastTarget \in [PCs -> Targets \cup {Never}]
  BY DEF Init
<1>3. QED
  BY <1>1, <1>2, ClearedType DEF Init, TypeOK

LEMMA NextTypeOK == TypeOK /\ [Next]_vars => TypeOK'
<1> SUFFICES ASSUME TypeOK, [Next]_vars PROVE TypeOK'
  OBVIOUS
<1>1. ASSUME NEW pc \in PCs, Predict(pc) PROVE TypeOK'
  <2>1. PredictTaken(pc) \in BOOLEAN
    <3>1. BimodalTaken(pc) \in BOOLEAN /\ GshareTaken(pc) \in BOOLEAN
      BY IndexType DEF TypeOK, Table, Counter, GshareTaken, BimodalTaken
    <3>2. QED
      BY <3>1 DEF PredictTaken
  <2>2. [pc |-> pc, taken |-> PredictTaken(pc), fresh |-> TRUE] \in Branch
    BY <2>1 DEF Branch
  <2>3. inflight' \in Seq(Branch)
    BY <1>1, <2>2 DEF TypeOK, Predict
  <2>4. QED
    BY <1>1, <2>3 DEF TypeOK, Predict, tables
<1>2. ASSUME NEW taken \in BOOLEAN, NEW wrongTarget \in BOOLEAN, NEW early \in BOOLEAN,
             NEW held \in BOOLEAN, NEW target \in Targets,
             Resolve(taken, target, wrongTarget, early, held)
      PROVE  TypeOK'
  <2>1. inflight \in Seq(Branch) /\ inflight # << >>
    BY <1>2 DEF TypeOK, Resolve
  <2>2. Head(inflight) \in Branch
    BY <2>1
  <2>3. Head(inflight).pc \in PCs
    BY <2>2 DEF Branch
  <2>4. Update(Head(inflight).pc, taken, target)
    BY <1>2 DEF Resolve
  <2>5. streak' \in [pc : PCs \cup {{}}, taken : BOOLEAN, n : 0 .. Learnt]
    <3>1. streak' = [pc |-> Head(inflight).pc, taken |-> taken, n |-> streak'.n]
      BY <1>2 DEF Resolve
    <3>2. streak.n \in 0 .. Learnt /\ Learnt \in Nat /\ Learnt >= 2
      BY PredictorAssumption DEF TypeOK, Learnt
    <3>3. streak'.n \in {1, Learnt} \/ (streak.n < Learnt /\ streak'.n = streak.n + 1)
      BY <1>2 DEF Resolve
    <3>4. streak'.n \in 0 .. Learnt
      BY <3>2, <3>3
    <3>5. QED
      BY <2>3, <3>1, <3>4
  <2>6. lastTarget' \in [PCs -> Targets \cup {Never}]
    BY <1>2, <2>3 DEF Resolve, TypeOK
  <2>7. inflight' \in Seq(Branch)
    <3>1. Tail(inflight) \in Seq(Branch)
      BY <2>1
    <3>2. ASSUME NEW s \in Seq(Branch)
          PROVE  [i \in DOMAIN s |-> [s[i] EXCEPT !.fresh = FALSE]] \in Seq(Branch)
      <4>1. DOMAIN s = 1 .. Len(s) /\ Len(s) \in Nat
        BY <3>2
      <4>2. \A i \in 1 .. Len(s) : s[i] \in Branch
        BY <3>2
      <4>3. \A i \in 1 .. Len(s) :
              [s[i] EXCEPT !.fresh = FALSE] \in Branch
        BY <4>2 DEF Branch
      <4>4. QED
        BY <4>1, <4>3
    <3>3. \/ inflight' = << >>
          \/ inflight' = [i \in DOMAIN inflight |-> [inflight[i] EXCEPT !.fresh = FALSE]]
          \/ inflight' = [i \in DOMAIN Tail(inflight) |->
                            [Tail(inflight)[i] EXCEPT !.fresh = FALSE]]
      BY <1>2 DEF Resolve
    <3>4. QED
      BY <2>1, <3>1, <3>2, <3>3, ClearedType
  <2>8. useTournament' = useTournament
    BY <1>2 DEF Resolve
  <2>9. QED
    BY <2>3, <2>4, <2>5, <2>6, <2>7, <2>8, UpdateType DEF TypeOK
<1>3. CASE Reset
  <2>1. globalHistory' \subseteq HistoryMask
    BY <1>3 DEF Reset
  <2>2. QED
    BY <1>3, <2>1, ClearedType DEF Reset, TypeOK
<1>4. CASE UNCHANGED vars
  BY <1>4 DEF TypeOK, vars, tables
<1>5. QED
  BY <1>1, <1>2, <1>3, <1>4 DEF Next

(* Every counter stays in its two bits and the history in its mask, for any    *)
(* sequence of predictions, trainings and resets.                             *)
THEOREM TypeCorrect == Spec => []TypeOK
  BY InitTypeOK, NextTypeOK, PTL DEF Spec

---------------------------------------------------------------------------
(* Learning.                                                               *)

\* k steps of Bump towards taken or not, from anywhere, have brought c here.
Leans(c, taken, k) ==
  /\ k >= 1 => IF taken THEN c >= 1 ELSE c <= 2
  /\ k >= 2 => IF taken THEN c >= 2 ELSE c <= 1

LEMMA BumpLeans ==
  ASSUME NEW c \in Counter, NEW taken \in BOOLEAN, NEW k \in Nat, Leans(c, taken, k)
  PROVE  Leans(Bump(c, taken), taken, k + 1)
  BY DEF Leans, Bump, Counter

\* The history a branch with one outcome leaves in the end.
Steady(taken) == IF taken THEN HistoryMask ELSE {}

(* What n trainings in a row with one PC and outcome leave behind in a history  *)
(* and two tables: the n lowest bits of the history, n steps of the bimodal     *)
(* counter, and, once the history is full, the steps of the gshare counter it   *)
(* then selects.                                                               *)
LearnedBy(history, bm, gs, pc, taken, n) ==
  /\ \A b \in HistoryMask : b < n => (b \in history <=> taken)
  /\ Leans(bm[BimodalIndex(pc)], taken, n)
  /\ n >= HistoryLength =>
       Leans(gs[GshareIndex(pc, Steady(taken))], taken, n - HistoryLength)

LearnInv ==
  /\ TypeOK
  /\ LearnedBy(globalHistory, bimodal, gshare, streak.pc, streak.taken, streak.n)

LEMMA LearnedParts ==
  ASSUME NEW history, NEW bm, NEW gs, NEW pc, NEW taken, NEW n,
         \A b \in HistoryMask : b < n => (b \in history <=> taken),
         Leans(bm[BimodalIndex(pc)], taken, n),
         n >= HistoryLength =>
           Leans(gs[GshareIndex(pc, Steady(taken))], taken, n - HistoryLength)
  PROVE  LearnedBy(history, bm, gs, pc, taken, n)
  BY Zenon DEF LearnedBy

LEMMA NothingLearned ==
  ASSUME NEW history, NEW bm, NEW gs, NEW pc, NEW taken
  PROVE  LearnedBy(history, bm, gs, pc, taken, 0)
<1>1. \A b \in HistoryMask : ~(b < 0)
  BY PredictorAssumption DEF HistoryMask
<1>2. \A c : Leans(c, taken, 0)
  BY DEF Leans
<1>3. 0 >= HistoryLength => 0 - HistoryLength = 0
  BY PredictorAssumption
<1>4. QED
  BY <1>1, <1>2, <1>3 DEF LearnedBy

(* One more training continues the streak. *)
LEMMA UpdateLearns ==
  ASSUME TypeOK, NEW pc \in PCs, NEW taken \in BOOLEAN, NEW target, NEW n \in Nat,
         LearnedBy(globalHistory, bimodal, gshare, pc, taken, n),
         Update(pc, taken, target)
  PROVE  LearnedBy(globalHistory', bimodal', gshare', pc, taken, n + 1)
<1>1. ASSUME NEW b \in HistoryMask, b < n + 1
      PROVE  b \in globalHistory' <=> taken
  <2>1. b \in globalHistory' <=> (\E x \in globalHistory : b = x + 1) \/ (taken /\ b = 0)
    BY <1>1 DEF Update, Shifted
  <2>2. globalHistory \subseteq Int /\ b \in Nat /\ HistoryLength \in Nat
    BY PredictorAssumption DEF TypeOK, HistoryMask
  <2>3. CASE b = 0
    <3>1. \A x \in globalHistory : x \in Nat
      BY PredictorAssumption DEF TypeOK, HistoryMask
    <3>2. QED
      BY <2>1, <2>3, <3>1
  <2>4. CASE b # 0
    <3>1. b - 1 \in HistoryMask /\ b - 1 < n
      BY <1>1, <2>2, <2>4 DEF HistoryMask
    <3>2. (\E x \in globalHistory : b = x + 1) <=> b - 1 \in globalHistory
      BY <2>2
    <3>3. b - 1 \in globalHistory <=> taken
      BY <3>1 DEF LearnedBy
    <3>4. QED
      BY <2>1, <2>4, <3>2, <3>3
  <2>5. QED
    BY <2>3, <2>4
<1>2. Leans(bimodal'[BimodalIndex(pc)], taken, n + 1)
  <2>1. bimodal'[BimodalIndex(pc)] = Bump(bimodal[BimodalIndex(pc)], taken)
    BY IndexType DEF Update, TypeOK, Table
  <2>2. bimodal[BimodalIndex(pc)] \in Counter
    BY IndexType DEF TypeOK, Table
  <2>3. QED
    BY <2>1, <2>2, BumpLeans DEF LearnedBy
<1>3. ASSUME n + 1 >= HistoryLength
      PROVE  Leans(gshare'[GshareIndex(pc, Steady(taken))], taken, n + 1 - HistoryLength)
  <2> DEFINE i == GshareIndex(pc, Steady(taken))
  <2>1. i \in SUBSET IndexMask /\ gshare[i] \in Counter
    BY IndexType DEF TypeOK, Table
  <2>2. CASE n >= HistoryLength
    <3>1. globalHistory = Steady(taken)
      <4>1. \A b \in HistoryMask : b < n
        BY <2>2, PredictorAssumption DEF HistoryMask
      <4>2. QED
        BY <4>1 DEF LearnedBy, Steady, TypeOK
    <3>2. gshare'[i] = Bump(gshare[i], taken)
      BY <2>1, <3>1 DEF Update, TypeOK, Table
    <3>3. Leans(gshare[i], taken, n - HistoryLength) /\ n - HistoryLength \in Nat
      BY <2>2, PredictorAssumption DEF LearnedBy
    <3>4. Leans(Bump(gshare[i], taken), taken, n - HistoryLength + 1)
      BY <2>1, <3>3, BumpLeans
    <3>5. n - HistoryLength + 1 = n + 1 - HistoryLength
      BY PredictorAssumption
    <3>6. QED
      BY <3>2, <3>4, <3>5
  <2>3. CASE ~(n >= HistoryLength)
    <3>1. n + 1 - HistoryLength = 0
      BY <1>3, <2>3, PredictorAssumption
    <3>2. QED
      BY <3>1 DEF Leans
  <2>4. QED
    BY <2>2, <2>3
<1>4. PICK m \in Nat : m = n + 1
  OBVIOUS
<1>5. m >= HistoryLength =>
        Leans(gshare'[GshareIndex(pc, Steady(taken))], taken, m - HistoryLength)
  BY <1>3, <1>4, PredictorAssumption
<1>6. \A b \in HistoryMask : b < m => (b \in globalHistory' <=> taken)
  BY <1>1, <1>4
<1>7. LearnedBy(globalHistory', bimodal', gshare', pc, taken, m)
  BY <1>2, <1>4, <1>5, <1>6, LearnedParts, Zenon
<1>8. QED
  BY <1>4, <1>7, Zenon

(* Having learned more is having learned less. *)
LEMMA LearnedLess ==
  ASSUME NEW history, NEW bm, NEW gs, NEW pc, NEW taken \in BOOLEAN,
         LearnedBy(history, bm, gs, pc, taken, Learnt + 1)
  PROVE  LearnedBy(history, bm, gs, pc, taken, Learnt)
<1>1. HistoryLength \in Nat /\ Learnt = HistoryLength + 2
  BY PredictorAssumption DEF Learnt
<1>2. \A b \in HistoryMask : b < Learnt => b < Learnt + 1
  BY <1>1 DEF HistoryMask
<1>3. \A c : Leans(c, taken, Learnt + 1) => Leans(c, taken, Learnt)
  BY <1>1 DEF Leans
<1>4. \A c : Leans(c, taken, Learnt + 1 - HistoryLength)
             => Leans(c, taken, Learnt - HistoryLength)
  BY <1>1 DEF Leans
<1>5. QED
  BY <1>1, <1>2, <1>3, <1>4 DEF LearnedBy

LEMMA NextLearnInv == LearnInv /\ [Next]_vars => LearnInv'
<1> SUFFICES ASSUME LearnInv, [Next]_vars PROVE LearnInv'
  OBVIOUS
<1>1. TypeOK /\ TypeOK'
  BY NextTypeOK DEF LearnInv
<1>2. ASSUME NEW taken \in BOOLEAN, NEW wrongTarget \in BOOLEAN, NEW early \in BOOLEAN,
             NEW held \in BOOLEAN, NEW target \in Targets,
             Resolve(taken, target, wrongTarget, early, held)
      PROVE  LearnInv'
  <2>1. PICK pc \in PCs : pc = Head(inflight).pc
    <3>1. inflight \in Seq(Branch) /\ inflight # << >>
      BY <1>1, <1>2 DEF TypeOK, Resolve
    <3>2. Head(inflight) \in Branch
      BY <3>1
    <3>3. QED
      BY <3>2 DEF Branch
  <2>2. Update(pc, taken, target)
    BY <1>2, <2>1 DEF Resolve
  <2>3. PICK n \in 0 .. Learnt : n = streak.n
    BY <1>1 DEF TypeOK
  <2>4. Learnt \in Nat
    BY PredictorAssumption DEF Learnt
  <2> DEFINE again == n > 0 /\ streak.pc = pc /\ streak.taken = taken
  <2>5. /\ streak'.pc = pc /\ streak'.taken = taken
        /\ streak'.n = IF ~again THEN 1 ELSE IF n < Learnt THEN n + 1 ELSE Learnt
    BY <1>2, <2>1, <2>3 DEF Resolve
  <2>6. LearnedBy(globalHistory', bimodal', gshare', pc, taken, streak'.n)
    <3>1. CASE ~again
      <4>1. LearnedBy(globalHistory, bimodal, gshare, pc, taken, 0)
        BY NothingLearned
      <4>2. LearnedBy(globalHistory', bimodal', gshare', pc, taken, 0 + 1)
        BY <1>1, <2>2, <4>1, UpdateLearns
      <4>3. streak'.n = 0 + 1
        BY <2>5, <3>1
      <4>4. QED
        BY <4>2, <4>3, Zenon
    <3>2. CASE again
      <4>1. LearnedBy(globalHistory, bimodal, gshare, pc, taken, n)
        BY <2>3, <3>2, Zenon DEF LearnInv
      <4>2. n \in Nat /\ n <= Learnt
        BY <2>3, <2>4
      <4>3. LearnedBy(globalHistory', bimodal', gshare', pc, taken, n + 1)
        BY <1>1, <2>2, <4>1, <4>2, UpdateLearns
      <4>4. CASE n < Learnt
        <5>1. streak'.n = n + 1
          BY <2>5, <3>2, <4>4
        <5>2. QED
          BY <4>3, <5>1, Zenon
      <4>5. CASE ~(n < Learnt)
        <5>1. n = Learnt /\ streak'.n = Learnt
          BY <2>4, <2>5, <3>2, <4>2, <4>5
        <5>2. LearnedBy(globalHistory', bimodal', gshare', pc, taken, Learnt + 1)
          BY <4>3, <5>1, Zenon
        <5>3. LearnedBy(globalHistory', bimodal', gshare', pc, taken, Learnt)
          BY <5>2, LearnedLess
        <5>4. QED
          BY <5>1, <5>3, Zenon
      <4>6. QED
        BY <4>4, <4>5
    <3>3. QED
      BY <3>1, <3>2
  <2>7. QED
    BY <1>1, <2>5, <2>6, Zenon DEF LearnInv
<1>3. CASE Reset
  <2>1. streak'.n = 0
    BY <1>3 DEF Reset, NoStreak
  <2>2. LearnedBy(globalHistory', bimodal', gshare', streak'.pc, streak'.taken, 0)
    BY NothingLearned
  <2>3. QED
    BY <1>1, <2>1, <2>2, Zenon DEF LearnInv
<1>4. CASE UNCHANGED <<tables, streak>>
  <2>1. /\ globalHistory' = globalHistory /\ bimodal' = bimodal
        /\ gshare' = gshare /\ streak' = streak
    BY <1>4 DEF tables
  <2>2. QED
    BY <1>1, <2>1, Zenon DEF LearnInv
<1>5. QED
  BY <1>2, <1>3, <1>4 DEF Next, Predict, vars

(* The history length plus two equal outcomes in a row are always enough for    *)
(* Predict to answer that outcome, whatever Update did before them.            *)
THEOREM Learns == Spec => []LearnsAStableBranch
<1>1. Init => LearnInv
  <2> SUFFICES ASSUME Init PROVE LearnInv
    OBVIOUS
  <2>1. TypeOK /\ streak.n = 0
    BY InitTypeOK DEF Init, NoStreak
  <2>2. LearnedBy(globalHistory, bimodal, gshare, streak.pc, streak.taken, 0)
    BY NothingLearned
  <2>3. QED
    BY <2>1, <2>2, Zenon DEF LearnInv
<1>2. LearnInv => LearnsAStableBranch
  <2> SUFFICES ASSUME LearnInv, streak.n = Learnt
               PROVE  PredictTaken(streak.pc) = streak.taken
    BY DEF LearnsAStableBranch
  <2>1. PICK t \in BOOLEAN : t = streak.taken
    BY DEF LearnInv, TypeOK
  <2>2. PICK pc : pc = streak.pc
    OBVIOUS
  <2> DEFINE c == bimodal[BimodalIndex(pc)]
             d == gshare[GshareIndex(pc, globalHistory)]
  <2>3. /\ HistoryLength \in Nat /\ Learnt = HistoryLength + 2
        /\ LearnedBy(globalHistory, bimodal, gshare, pc, t, Learnt)
    <3>1. LearnedBy(globalHistory, bimodal, gshare, pc, t, Learnt)
      BY <2>1, <2>2, Zenon DEF LearnInv
    <3>2. QED
      BY <3>1, PredictorAssumption DEF Learnt
  <2>4. globalHistory = Steady(t)
    <3>1. \A b \in HistoryMask : b < Learnt
      BY <2>3 DEF HistoryMask
    <3>2. QED
      BY <2>3, <3>1 DEF LearnedBy, Steady, LearnInv, TypeOK
  <2>5. c \in Counter /\ d \in Counter
    BY IndexType DEF LearnInv, TypeOK, Table
  <2>6. Leans(c, t, Learnt) /\ Leans(d, t, Learnt - HistoryLength)
    BY <2>3, <2>4 DEF LearnedBy
  <2>7. (c >= 2 <=> t) /\ (d >= 2 <=> t)
    BY <2>3, <2>5, <2>6 DEF Leans, Counter
  <2>8. BimodalTaken(pc) = t /\ GshareTaken(pc) = t
    BY <2>7 DEF BimodalTaken, GshareTaken
  <2>9. QED
    BY <2>1, <2>2, <2>8, Zenon DEF PredictTaken
<1>3. QED
  BY <1>1, <1>2, NextLearnInv, PTL DEF Spec

---------------------------------------------------------------------------
(* The targets of the BTB.                                                 *)

TargetInv == TypeOK /\ KnownTargetIsLast

LEMMA NextTargetInv == TargetInv /\ [Next]_vars => TargetInv'
<1> SUFFICES ASSUME TargetInv, [Next]_vars PROVE TargetInv'
  OBVIOUS
<1>1. TypeOK /\ TypeOK' /\ KnownTargetIsLast
  BY NextTypeOK DEF TargetInv
<1>2. ASSUME NEW taken \in BOOLEAN, NEW wrongTarget \in BOOLEAN, NEW early \in BOOLEAN,
             NEW held \in BOOLEAN, NEW target \in Targets,
             Resolve(taken, target, wrongTarget, early, held)
      PROVE  KnownTargetIsLast'
  <2>1. PICK p \in PCs : p = Head(inflight).pc
    <3>1. inflight \in Seq(Branch) /\ inflight # << >>
      BY <1>1, <1>2 DEF TypeOK, Resolve
    <3>2. Head(inflight) \in Branch
      BY <3>1
    <3>3. QED
      BY <3>2 DEF Branch
  <2>2. CASE ~taken
    <3>1. btb' = btb /\ lastTarget' = lastTarget
      BY <1>2, <2>2 DEF Resolve, Update
    <3>2. QED
      BY <1>1, <3>1 DEF KnownTargetIsLast, TargetKnown, PredictTarget
  <2>3. CASE taken
    <3>1. /\ btb' = [btb EXCEPT ![BTBIndex(p)] = EntryOf(p, target)]
          /\ lastTarget' = [lastTarget EXCEPT ![p] = target]
      BY <1>2, <2>1, <2>3 DEF Resolve, Update
    <3>2. DOMAIN btb = SUBSET BTBMask /\ DOMAIN lastTarget = PCs
      BY <1>1 DEF TypeOK
    <3>3. SUFFICES ASSUME NEW pc \in PCs, TargetKnown(pc)'
                   PROVE  PredictTarget(pc)' = lastTarget'[pc]
      BY DEF KnownTargetIsLast
    <3>4. BTBIndex(pc) \in SUBSET BTBMask /\ BTBIndex(p) \in SUBSET BTBMask
      BY IndexType
    <3>5. CASE BTBIndex(pc) = BTBIndex(p)
      <4>1. btb'[BTBIndex(pc)] = EntryOf(p, target)
        BY <3>1, <3>2, <3>4, <3>5
      <4>2. pc = p
        BY <3>3, <4>1 DEF TargetKnown, EntryOf
      <4>3. QED
        BY <3>1, <3>2, <4>1, <4>2 DEF PredictTarget, EntryOf
    <3>6. CASE BTBIndex(pc) # BTBIndex(p)
      <4>1. btb'[BTBIndex(pc)] = btb[BTBIndex(pc)]
        BY <3>1, <3>2, <3>4, <3>6
      <4>2. pc # p
        BY <3>6
      <4>3. lastTarget'[pc] = lastTarget[pc]
        BY <3>1, <3>2, <4>2
      <4>4. QED
        BY <1>1, <3>3, <4>1, <4>3 DEF KnownTargetIsLast, TargetKnown, PredictTarget
    <3>7. QED
      BY <3>5, <3>6
  <2>4. QED
    BY <2>2, <2>3
<1>3. CASE Reset
  <2>1. \A pc : ~TargetKnown(pc)'
    BY <1>3, IndexType DEF Reset, EmptyBTB, NoEntry, TargetKnown
  <2>2. QED
    BY <1>1, <2>1 DEF TargetInv, KnownTargetIsLast
<1>4. CASE UNCHANGED <<tables, lastTarget>>
  BY <1>1, <1>4 DEF TargetInv, KnownTargetIsLast, TargetKnown, PredictTarget, tables
<1>5. QED
  BY <1>1, <1>2, <1>3, <1>4 DEF Next, Predict, vars, TargetInv

(* Predict never answers another branch's target, or one the branch has left.  *)
THEOREM TargetsAreLast == Spec => []KnownTargetIsLast
<1>1. Init => TargetInv
  <2> SUFFICES ASSUME Init PROVE TargetInv
    OBVIOUS
  <2>1. \A pc : ~TargetKnown(pc)
    BY IndexType DEF Init, EmptyBTB, NoEntry, TargetKnown
  <2>2. QED
    BY <2>1, InitTypeOK DEF TargetInv, KnownTargetIsLast
<1>2. TargetInv => KnownTargetIsLast
  BY DEF TargetInv
<1>3. QED
  BY <1>1, <1>2, NextTargetInv, PTL DEF Spec

---------------------------------------------------------------------------
(* The statistics.                                                         *)

(* A prediction in flight that no training came after is the one the tables     *)
(* still make.                                                                *)
FreshIsCurrent ==
  \A i \in DOMAIN inflight :
    inflight[i].fresh => inflight[i].taken = PredictTaken(inflight[i].pc)

CountInv == TypeOK /\ FreshIsCurrent /\ CountsPredictions

LEMMA NextCountInv == CountInv /\ [Next]_vars => CountInv'
<1> SUFFICES ASSUME CountInv, [Next]_vars PROVE CountInv'
  OBVIOUS
<1>1. TypeOK /\ TypeOK' /\ FreshIsCurrent /\ CountsPredictions
  BY NextTypeOK DEF CountInv
<1>2. inflight \in Seq(Branch)
  BY <1>1 DEF TypeOK
<1>3. ASSUME NEW pc \in PCs, Predict(pc)
      PROVE  FreshIsCurrent' /\ CountsPredictions'
  <2> DEFINE b == [pc |-> pc, taken |-> PredictTaken(pc), fresh |-> TRUE]
  <2>1. /\ useTournament' = useTournament /\ bimodal' = bimodal /\ gshare' = gshare
        /\ choice' = choice /\ globalHistory' = globalHistory /\ scored' = scored
    BY <1>3 DEF Predict, tables
  <2>2. \A p : PredictTaken(p)' = PredictTaken(p)
    BY <2>1 DEF PredictTaken, UseGshare, BimodalTaken, GshareTaken
  <2>3. inflight' = Append(inflight, b)
    BY <1>3 DEF Predict
  <2>4. \A i \in DOMAIN inflight' : i \in DOMAIN inflight \/ i = Len(inflight) + 1
    <3> HIDE DEF b
    <3>1. QED
      BY <1>2, <2>3
  <2>5. /\ \A i \in DOMAIN inflight : inflight'[i] = inflight[i]
        /\ inflight'[Len(inflight) + 1] = b
    <3> HIDE DEF b
    <3>1. QED
      BY <1>2, <2>3
  <2>6. SUFFICES ASSUME NEW i \in DOMAIN inflight', inflight'[i].fresh
                 PROVE  inflight'[i].taken = PredictTaken(inflight'[i].pc)
    BY <1>1, <2>1, <2>2 DEF FreshIsCurrent, CountsPredictions
  <2>7. CASE i \in DOMAIN inflight
    <3>1. inflight'[i] = inflight[i]
      BY <2>5, <2>7
    <3>2. inflight[i].fresh
      BY <2>6, <3>1
    <3>3. QED
      BY <1>1, <2>7, <3>1, <3>2 DEF FreshIsCurrent
  <2>8. CASE i = Len(inflight) + 1
    <3>1. inflight'[i] = b
      BY <2>5, <2>8
    <3>2. b.taken = PredictTaken(pc) /\ b.pc = pc
      OBVIOUS
    <3>3. QED
      BY <3>1, <3>2, Zenon
  <2>9. QED
    BY <2>4, <2>7, <2>8
<1>4. ASSUME NEW taken \in BOOLEAN, NEW wrongTarget \in BOOLEAN, NEW early \in BOOLEAN,
             NEW held \in BOOLEAN, NEW target \in Targets,
             Resolve(taken, target, wrongTarget, early, held)
      PROVE  FreshIsCurrent' /\ CountsPredictions'
  <2>1. inflight # << >>
    BY <1>4 DEF Resolve
  <2>2. 1 \in DOMAIN inflight /\ Head(inflight) = inflight[1]
    BY <1>2, <2>1
  <2>3. ASSUME inflight[1].fresh
        PROVE  inflight[1].taken = FinalPrediction(inflight[1].pc)
    BY <1>1, <2>2, <2>3, Zenon DEF FreshIsCurrent, PredictTaken, FinalPrediction
  <2>4. scored' = [fresh |-> inflight[1].fresh, made |-> inflight[1].taken = taken,
                   final |-> FinalPrediction(inflight[1].pc) = taken]
    BY <1>4, <2>2, Zenon DEF Resolve
  <2>5. CountsPredictions'
    BY <2>3, <2>4, Zenon DEF CountsPredictions
  <2>6. \A i \in DOMAIN inflight' : inflight'[i].fresh = FALSE
    <3>1. ASSUME NEW s \in Seq(Branch), NEW i \in DOMAIN s
          PROVE  [s[i] EXCEPT !.fresh = FALSE].fresh = FALSE
      <4>1. s[i] \in Branch
        BY <3>1
      <4>2. QED
        BY <4>1 DEF Branch
    <3>2. Tail(inflight) \in Seq(Branch)
      BY <1>2, <2>1
    <3>3. \/ inflight' = << >>
          \/ inflight' = [i \in DOMAIN inflight |-> [inflight[i] EXCEPT !.fresh = FALSE]]
          \/ inflight' = [i \in DOMAIN Tail(inflight) |->
                            [Tail(inflight)[i] EXCEPT !.fresh = FALSE]]
      BY <1>4 DEF Resolve
    <3>4. CASE inflight' = << >>
      BY <3>4
    <3>5. CASE inflight' = [i \in DOMAIN inflight |-> [inflight[i] EXCEPT !.fresh = FALSE]]
      BY <1>2, <3>1, <3>5, Zenon
    <3>6. CASE inflight' = [i \in DOMAIN Tail(inflight) |->
                              [Tail(inflight)[i] EXCEPT !.fresh = FALSE]]
      BY <3>1, <3>2, <3>6, Zenon
    <3>7. QED
      BY <3>3, <3>4, <3>5, <3>6
  <2>7. QED
    BY <2>5, <2>6 DEF FreshIsCurrent
<1>5. CASE Reset
  BY <1>1, <1>5 DEF Reset, NoScore, CountInv, FreshIsCurrent, CountsPredictions
<1>6. CASE UNCHANGED vars
  <2>1. /\ useTournament' = useTournament /\ bimodal' = bimodal /\ gshare' = gshare
        /\ choice' = choice /\ globalHistory' = globalHistory /\ scored' = scored
        /\ inflight' = inflight
    BY <1>6 DEF vars, tables
  <2>2. QED
    BY <1>1, <2>1 DEF CountInv, FreshIsCurrent, CountsPredictions, PredictTaken,
                      UseGshare, BimodalTaken, GshareTaken
<1>7. QED
  BY <1>1, <1>3, <1>4, <1>5, <1>6 DEF Next, CountInv

(* The statistics never count a prediction fetch was not given, when the branch *)
(* resolves before the next training.                                         *)
THEOREM PredictionsCounted == Spec => []CountsPredictions
<1>1. Init => CountInv
  <2> SUFFICES ASSUME Init PROVE CountInv
    OBVIOUS
  <2>1. inflight = << >> /\ scored.fresh = FALSE
    BY DEF Init, NoScore
  <2>2. QED
    BY <2>1, InitTypeOK DEF CountInv, FreshIsCurrent, CountsPredictions
<1>2. CountInv => CountsPredictions
  BY DEF CountInv
<1>3. QED
  BY <1>1, <1>2, NextCountInv, PTL DEF Spec
==========================================================================
