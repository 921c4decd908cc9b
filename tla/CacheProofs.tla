--------------------------- MODULE CacheProofs ---------------------------
(***************************************************************************)
(* Cache: its invariants and its refinement of LayeredMemory, for every    *)
(* geometry, latency and byte type.                                        *)
(***************************************************************************)
EXTENDS Cache, TLAPS, WellFoundedInduction

\* What the proofs need of the cache state c over the backing store m.
Typed(c, m) == c \in CacheState /\ m \in [Blocks -> BlockData]

Single(c) ==
  \A s \in Sets : \A w \in Ways :
    c.line[s][w].valid =>
      /\ SetOf(c.line[s][w].tag) = s
      /\ \A v \in Ways : HasBlock(c, c.line[s][w].tag, v) => v = w

Backed(c, m) ==
  \A s \in Sets : \A w \in Ways :
    c.line[s][w].valid /\ ~c.line[s][w].dirty => c.line[s][w].data = m[c.line[s][w].tag]

Permuted(age) ==
  \A s \in Sets : \A v, w \in Ways : age[s][v] = age[s][w] => v = w

Queued(c) == Permuted(c.age)

Good(c, m) == Typed(c, m) /\ Single(c) /\ Backed(c, m) /\ Queued(c)

\* Backing store m once way w of b's set was written back, if valid and dirty.
Replaced(c, m, b, w) ==
  LET old == c.line[SetOf(b)][w]
  IN IF old.valid /\ old.dirty THEN [m EXCEPT ![old.tag] = old.data] ELSE m

\* Backing store m1 is m after some blocks of the cache were written back.
WrittenBack(c, m, m1) ==
  \E P \in SUBSET Blocks : m1 = [x \in Blocks |-> IF x \in P THEN View(c, m)[x] ELSE m[x]]

(* The set index of a block is a set. *)
LEMMA SetOfType == ASSUME NEW b \in Blocks PROVE SetOf(b) \in Sets
  BY GeometryAssumption DEF SetOf, Sets, Blocks

(* Lookup returns the way that holds the block. *)
LEMMA WayOfHolds ==
  ASSUME NEW c, NEW b, Hit(c, b)
  PROVE  WayOf(c, b) \in Ways /\ HasBlock(c, b, WayOf(c, b))
  BY DEF Hit, WayOf

(* With one copy of each block, any way that holds a block is the one Lookup returns. *)
LEMMA WayOfUnique ==
  ASSUME NEW c, NEW m, Typed(c, m), Single(c), NEW b \in Blocks,
         NEW w \in Ways, HasBlock(c, b, w)
  PROVE  Hit(c, b) /\ WayOf(c, b) = w
<1>1. Hit(c, b)
  BY DEF Hit
<1>2. WayOf(c, b) \in Ways /\ HasBlock(c, b, WayOf(c, b))
  BY <1>1, WayOfHolds
<1>3. QED
  BY <1>1, <1>2, SetOfType DEF Single, HasBlock

(* storeData keeps block data well typed. *)
LEMMA StoreType ==
  ASSUME NEW data \in BlockData, NEW o \in Offsets, NEW n \in 1 .. BlockSize,
         NEW d \in [0 .. n - 1 -> Byte]
  PROVE  storeData(data, o, n, d) \in BlockData
<1>1. \A i \in Offsets : i \in o .. o + n - 1 => i - o \in 0 .. n - 1
  BY GeometryAssumption DEF Offsets
<1>2. QED
  BY <1>1 DEF storeData, BlockData

(* A set of ways that is not empty has one that comes first in the queue. *)
LEMMA OldestExists ==
  ASSUME NEW age \in [Ways -> Ways], NEW pool, pool \subseteq Ways, pool # {}
  PROVE  \E w \in pool : \A v \in pool : age[w] <= age[v]
<1> DEFINE places == {age[v] : v \in pool}
           before == OpToRel(<, Nat)
<1> HIDE DEF places, before
<1>1. places \subseteq Nat /\ places # {}
  <2>1. \A v \in Ways : age[v] \in Nat
    BY GeometryAssumption DEF Ways
  <2>2. QED
    BY <2>1 DEF places
<1>2. IsWellFoundedOn(before, Nat)
  BY NatLessThanWellFounded DEF before
<1>3. \E x \in places : \A y \in places : ~ (<<y, x>> \in before)
  BY <1>1, <1>2, WFMin
<1>4. PICK x \in places : \A y \in places : ~ (<<y, x>> \in before)
  BY <1>3
<1>5. \A y \in places : x <= y
  <2> TAKE y \in places
  <2>1. ~ (<<y, x>> \in before)
    BY <1>4
  <2>2. x \in Nat /\ y \in Nat
    BY <1>1
  <2>3. ~ (y < x)
    BY <2>1, <2>2 DEF OpToRel, before
  <2>4. QED
    BY <2>2, <2>3
<1>6. QED
  BY <1>4, <1>5 DEF places

(* The victim is an invalid way, or the oldest of a full set. *)
LEMMA VictimIsOldest ==
  ASSUME NEW c, NEW m, Typed(c, m), NEW s \in Sets
  PROVE  /\ Victim(c, s) \in Ways
         /\ c.line[s][Victim(c, s)].valid =>
              \A v \in Ways : c.age[s][Victim(c, s)] <= c.age[s][v]
<1> DEFINE free == {w \in Ways : ~c.line[s][w].valid}
           pool == IF free = {} THEN Ways ELSE free
<1>1. pool \subseteq Ways /\ pool # {}
  BY GeometryAssumption DEF Ways
<1>2. c.age[s] \in [Ways -> Ways]
  BY DEF Typed, CacheState
<1>3. pool = Candidates(c, s)
  BY DEF Candidates
<1> HIDE DEF pool
<1>4. \E w \in pool : \A v \in pool : c.age[s][w] <= c.age[s][v]
  BY <1>1, <1>2, OldestExists
<1>5. Victim(c, s) \in pool /\ \A v \in pool : c.age[s][Victim(c, s)] <= c.age[s][v]
  BY <1>3, <1>4 DEF Victim
<1>6. QED
  BY <1>1, <1>5 DEF pool

(* A victim is a way of the set. *)
LEMMA VictimType ==
  ASSUME NEW c, NEW m, Typed(c, m), NEW s \in Sets
  PROVE  Victim(c, s) \in Ways
  BY VictimIsOldest

---------------------------------------------------------------------------
(* The LRU queue.                                                          *)

(* Visiting a way keeps the queue a permutation. *)
LEMMA VisitedQueue ==
  ASSUME NEW age \in [Sets -> [Ways -> Ways]], NEW s \in Sets, NEW w \in Ways,
         Permuted(age)
  PROVE  Visited(age, s, w) \in [Sets -> [Ways -> Ways]] /\ Permuted(Visited(age, s, w))
<1> DEFINE moved == [v \in Ways |-> IF v = w THEN Assoc - 1
                       ELSE IF age[s][v] > age[s][w] THEN age[s][v] - 1 ELSE age[s][v]]
<1>1. Visited(age, s, w) = [age EXCEPT ![s] = moved]
  BY DEF Visited
<1>2. \A v \in Ways : age[s][v] \in 0 .. Assoc - 1
  <2>1. \A v \in Ways : age[s][v] \in Ways
    OBVIOUS
  <2>2. QED
    BY <2>1 DEF Ways
<1>3. moved \in [Ways -> Ways]
  <2>1. \A v \in Ways : moved[v] \in 0 .. Assoc - 1
    BY <1>2, GeometryAssumption
  <2>2. QED
    BY <2>1 DEF Ways
<1>4. ASSUME NEW u \in Ways, NEW v \in Ways, moved[u] = moved[v] PROVE u = v
  <2>1. age[s][u] = age[s][v] => u = v
    BY DEF Permuted
  <2>2. age[s][u] = age[s][w] => u = w
    BY DEF Permuted
  <2>3. age[s][v] = age[s][w] => v = w
    BY DEF Permuted
  <2>4. QED
    BY <1>2, <1>4, <2>1, <2>2, <2>3, GeometryAssumption
<1>5. QED
  <2> HIDE DEF moved
  <2> QED BY <1>1, <1>3, <1>4 DEF Permuted

---------------------------------------------------------------------------
(* What a client sees.                                                     *)

(* A client sees the line of a resident block and the backing store's copy of another. *)
LEMMA ViewOf ==
  ASSUME NEW c, NEW m, Typed(c, m), Single(c), NEW b \in Blocks
  PROVE  /\ \A v \in Ways : HasBlock(c, b, v) => View(c, m)[b] = c.line[SetOf(b)][v].data
         /\ ~Hit(c, b) => View(c, m)[b] = m[b]
<1>1. ASSUME NEW v \in Ways, HasBlock(c, b, v)
      PROVE  View(c, m)[b] = c.line[SetOf(b)][v].data
  <2>1. Hit(c, b) /\ WayOf(c, b) = v
    BY <1>1, WayOfUnique
  <2>2. QED
    BY <2>1 DEF View
<1>2. ~Hit(c, b) => View(c, m)[b] = m[b]
  BY DEF View
<1>3. QED
  BY <1>1, <1>2

(* What a client sees is well typed. *)
LEMMA ViewType ==
  ASSUME NEW c, NEW m, Typed(c, m)
  PROVE  View(c, m) \in [Blocks -> BlockData]
<1>1. ASSUME NEW b \in Blocks, Hit(c, b)
      PROVE  c.line[SetOf(b)][WayOf(c, b)].data \in BlockData
  <2>1. WayOf(c, b) \in Ways /\ SetOf(b) \in Sets
    BY <1>1, WayOfHolds, SetOfType
  <2>2. c.line[SetOf(b)][WayOf(c, b)] \in Line
    BY <2>1 DEF Typed, CacheState
  <2>3. QED
    BY <2>2 DEF Line
<1>2. QED
  BY <1>1 DEF View, Typed

---------------------------------------------------------------------------
(* Installing a line.                                                      *)

(* Putting line l of block b into way w, where b was or was not resident and  *)
(* the line it replaces was written back if dirty, keeps the cache good and   *)
(* changes what a client sees of block b to l.data and of no other block.     *)
LEMMA Installed ==
  ASSUME NEW c, NEW m, Good(c, m), NEW b \in Blocks, NEW w \in Ways, NEW l \in Line,
         NEW m1,
         l.valid, l.tag = b, ~l.dirty => l.data = m1[b],
         \/ HasBlock(c, b, w) /\ m1 = m
         \/ ~Hit(c, b) /\ m1 = Replaced(c, m, b, w),
         NEW c2 \in CacheState, Queued(c2), c2.line = [c.line EXCEPT ![SetOf(b)][w] = l]
  PROVE  /\ Good(c2, m1)
         /\ View(c2, m1) = [View(c, m) EXCEPT ![b] = l.data]
         /\ WrittenBack(c, m, m1)
<1> DEFINE s == SetOf(b)
           old == c.line[s][w]
<1>1. s \in Sets /\ old \in Line
  BY SetOfType DEF Good, Typed, CacheState
<1>2. c2.line = [c.line EXCEPT ![s][w] = l]
  OBVIOUS
<1>3. m1 \in [Blocks -> BlockData]
  BY <1>1 DEF Good, Typed, Line, Replaced
<1> HIDE DEF s
<1>4. /\ HasBlock(c2, b, w)
      /\ \A x \in Blocks, v \in Ways :
           ~ (SetOf(x) = s /\ v = w) =>
             c2.line[SetOf(x)][v] = c.line[SetOf(x)][v] /\ (HasBlock(c2, x, v) <=> HasBlock(c, x, v))
      /\ \A x \in Blocks : x # b /\ SetOf(x) = s => ~HasBlock(c2, x, w)
  BY <1>1, <1>2, SetOfType DEF HasBlock, s, Good, Typed, CacheState
<1>5. \A v \in Ways : HasBlock(c, b, v) => HasBlock(c, b, w) /\ v = w
  BY <1>1 DEF Hit, Good, Single, HasBlock, s
<1>6. \A x \in Blocks : old.valid /\ old.tag = x => SetOf(x) = s /\ HasBlock(c, x, w)
  BY <1>1 DEF Good, Single, HasBlock
<1>7. Single(c2)
  <2> SUFFICES ASSUME NEW t \in Sets, NEW v \in Ways, c2.line[t][v].valid
               PROVE  /\ SetOf(c2.line[t][v].tag) = t
                      /\ \A u \in Ways : HasBlock(c2, c2.line[t][v].tag, u) => u = v
    BY DEF Single
  <2>1. CASE t = s /\ v = w
    <3>1. c2.line[t][v] = l
      BY <1>1, <1>2, <2>1 DEF Good, Typed, CacheState
    <3>2. QED
      BY <1>4, <1>5, <2>1, <3>1 DEF s
  <2>2. CASE ~ (t = s /\ v = w)
    <3>1. c2.line[t][v] = c.line[t][v] /\ c.line[t][v] \in Line
      BY <1>1, <1>2, <2>2 DEF Good, Typed, CacheState
    <3> DEFINE x == c.line[t][v].tag
    <3>2. x \in Blocks /\ SetOf(x) = t /\ HasBlock(c, x, v)
      BY <3>1 DEF Line, Good, Single, HasBlock
    <3>3. ASSUME NEW u \in Ways, HasBlock(c2, x, u) PROVE u = v
      <4>1. CASE SetOf(x) = s /\ u = w
        BY <1>4, <1>5, <2>2, <3>2, <3>3, <4>1
      <4>2. CASE ~ (SetOf(x) = s /\ u = w)
        <5>1. HasBlock(c, x, u)
          BY <1>4, <3>2, <3>3, <4>2
        <5>2. QED
          BY <3>1, <3>2, <5>1 DEF Good, Single, HasBlock
      <4>3. QED
        BY <4>1, <4>2
    <3>4. QED
      BY <3>1, <3>2, <3>3
  <2>3. QED
    BY <2>1, <2>2
<1>8. ASSUME NEW x \in Blocks, ~ (old.valid /\ old.tag = x) PROVE m1[x] = m[x]
  BY <1>8 DEF s, Good, Typed, Replaced
<1>9. Backed(c2, m1)
  <2> SUFFICES ASSUME NEW t \in Sets, NEW v \in Ways, c2.line[t][v].valid, ~c2.line[t][v].dirty
               PROVE  c2.line[t][v].data = m1[c2.line[t][v].tag]
    BY DEF Backed
  <2>1. CASE t = s /\ v = w
    <3>1. c2.line[t][v] = l
      BY <1>1, <1>2, <2>1 DEF Good, Typed, CacheState
    <3>2. QED
      BY <3>1
  <2>2. CASE ~ (t = s /\ v = w)
    <3>1. c2.line[t][v] = c.line[t][v] /\ c.line[t][v] \in Line
      BY <1>1, <1>2, <2>2 DEF Good, Typed, CacheState
    <3> DEFINE x == c.line[t][v].tag
    <3>2. x \in Blocks /\ SetOf(x) = t /\ HasBlock(c, x, v) /\ c.line[t][v].data = m[x]
      BY <3>1 DEF Line, Good, Single, Backed, HasBlock
    <3>3. ~ (old.valid /\ old.tag = x)
      BY <1>6, <2>2, <3>1, <3>2 DEF Good, Single
    <3>4. QED
      BY <1>8, <3>1, <3>2, <3>3
  <2>3. QED
    BY <2>1, <2>2
<1>10. Typed(c2, m1)
  BY <1>3 DEF Typed
<1>11. \A x \in Blocks :
         /\ \A v \in Ways : HasBlock(c2, x, v) => View(c2, m1)[x] = c2.line[SetOf(x)][v].data
         /\ ~Hit(c2, x) => View(c2, m1)[x] = m1[x]
  <2> TAKE x \in Blocks
  <2> HIDE DEF old
  <2>1. Typed(c2, m1) /\ Single(c2)
    BY <1>7, <1>10
  <2>2. QED
    BY ONLY <2>1, x \in Blocks, ViewOf
<1>12. ASSUME NEW x \in Blocks
       PROVE  View(c2, m1)[x] = [View(c, m) EXCEPT ![b] = l.data][x]
  <2>1. CASE x = b
    <3>1. View(c2, m1)[b] = c2.line[SetOf(b)][w].data
      BY <1>4, <1>11
    <3>2. c2.line[SetOf(b)][w] = l
      BY <1>1, <1>2 DEF s, Good, Typed, CacheState
    <3>3. QED
      BY <2>1, <3>1, <3>2 DEF View
  <2>2. CASE x # b /\ old.valid /\ old.tag = x
    <3>1. SetOf(x) = s /\ HasBlock(c, x, w)
      BY <1>6, <2>2
    <3>2. ~HasBlock(c, b, w)
      BY <2>2, <3>1 DEF HasBlock, s
    <3>3. \A v \in Ways : ~HasBlock(c2, x, v)
      <4> SUFFICES ASSUME NEW v \in Ways, HasBlock(c2, x, v) PROVE FALSE
        OBVIOUS
      <4>1. v # w
        BY <1>4, <2>2, <3>1
      <4>2. HasBlock(c, x, v)
        BY <1>4, <4>1
      <4>3. c.line[s][w].valid /\ c.line[s][w].tag = x
        BY <3>1 DEF HasBlock
      <4>4. Single(c) /\ s \in Sets
        BY <1>1, SetOfType DEF Good, s
      <4>5. v = w
        BY <1>1, <4>2, <4>3, <4>4 DEF Single
      <4>6. QED
        BY <4>1, <4>5
    <3>4. View(c2, m1)[x] = m1[x]
      <4>1. ~Hit(c2, x)
        BY <3>3 DEF Hit
      <4>2. QED
        BY <1>11, <4>1
    <3>5. View(c, m)[x] = old.data
      BY <3>1, ViewOf DEF Good
    <3>6. m1[x] = old.data
      BY <1>1, <2>2, <3>2 DEF s, Good, Typed, Backed, Replaced
    <3>7. QED
      BY <2>2, <3>4, <3>5, <3>6 DEF View
  <2>3. CASE x # b /\ ~ (old.valid /\ old.tag = x)
    <3>1. \A v \in Ways : HasBlock(c2, x, v) <=> HasBlock(c, x, v)
      <4> SUFFICES ASSUME NEW v \in Ways PROVE HasBlock(c2, x, v) <=> HasBlock(c, x, v)
        OBVIOUS
      <4>1. CASE SetOf(x) = s /\ v = w
        BY <1>4, <2>3, <4>1 DEF HasBlock
      <4>2. CASE ~ (SetOf(x) = s /\ v = w)
        BY <1>4, <4>2
      <4>3. QED
        BY <4>1, <4>2
    <3>2. CASE Hit(c, x)
      <4>1. PICK v \in Ways : HasBlock(c, x, v)
        BY <3>2 DEF Hit
      <4>2. ~ (SetOf(x) = s /\ v = w)
        BY <2>3, <4>1 DEF HasBlock
      <4>3. c2.line[SetOf(x)][v] = c.line[SetOf(x)][v]
        BY <1>4, <4>2
      <4>4. View(c, m)[x] = c.line[SetOf(x)][v].data
        BY <4>1, ViewOf DEF Good
      <4>5. View(c2, m1)[x] = c2.line[SetOf(x)][v].data
        BY <1>11, <3>1, <4>1
      <4>6. QED
        BY <2>3, <4>3, <4>4, <4>5 DEF View
    <3>3. CASE ~Hit(c, x)
      <4>1. ~Hit(c2, x)
        BY <3>1, <3>3 DEF Hit
      <4>2. View(c, m)[x] = m[x] /\ View(c2, m1)[x] = m1[x]
        BY <1>7, <1>10, <3>3, <4>1, ViewOf DEF Good
      <4>3. QED
        BY <1>8, <2>3, <4>2 DEF View
    <3>4. QED
      BY <3>2, <3>3
  <2>4. QED
    BY <2>1, <2>2, <2>3
<1>13. View(c2, m1) = [View(c, m) EXCEPT ![b] = l.data]
  BY <1>12 DEF View
<1>14. WrittenBack(c, m, m1)
  <2>1. CASE m1 = m
    <3>1. m1 = [x \in Blocks |-> IF x \in {} THEN View(c, m)[x] ELSE m[x]]
      BY <2>1 DEF Good, Typed
    <3> SUFFICES \E P \in SUBSET Blocks :
                   m1 = [x \in Blocks |-> IF x \in P THEN View(c, m)[x] ELSE m[x]]
      BY DEF WrittenBack
    <3> WITNESS {} \in SUBSET Blocks
    <3>2. QED
      BY <3>1
  <2>2. CASE old.valid /\ m1 = [m EXCEPT ![old.tag] = old.data]
    <3>1. old.tag \in Blocks /\ View(c, m)[old.tag] = old.data
      BY <1>1, <1>6, <2>2, ViewOf DEF Good, Line
    <3>2. m1 = [x \in Blocks |-> IF x \in {old.tag} THEN View(c, m)[x] ELSE m[x]]
      BY <2>2, <3>1 DEF Good, Typed
    <3>3. QED
      BY <3>1, <3>2 DEF WrittenBack
  <2>3. QED
    BY <2>1, <2>2 DEF s, Replaced
<1>15. QED
  BY <1>2, <1>7, <1>9, <1>10, <1>13, <1>14 DEF Good

(* SetLine changes one line and the place of one way, and the queue stays a permutation. *)
LEMMA SetLineShape ==
  ASSUME NEW c, NEW m, Good(c, m), NEW s \in Sets, NEW w \in Ways, NEW l \in Line
  PROVE  /\ SetLine(c, s, w, l) \in CacheState
         /\ Queued(SetLine(c, s, w, l))
         /\ SetLine(c, s, w, l).line = [c.line EXCEPT ![s][w] = l]
         /\ SetLine(c, s, w, l).age = Visited(c.age, s, w)
<1> DEFINE q == Visited(c.age, s, w)
           lines == [c.line EXCEPT ![s][w] = l]
<1>1. c.age \in [Sets -> [Ways -> Ways]] /\ c.line \in [Sets -> [Ways -> Line]]
  BY DEF Good, Typed, CacheState
<1>2. q \in [Sets -> [Ways -> Ways]] /\ Permuted(q)
  BY <1>1, VisitedQueue DEF Good, Queued
<1>3. lines \in [Sets -> [Ways -> Line]]
  BY <1>1
<1>4. SetLine(c, s, w, l) = [line |-> lines, age |-> q, recent |-> c.recent]
  <2>1. SetLine(c, s, w, l) = [c EXCEPT !.line = lines, !.age = q]
    BY DEF SetLine
  <2>2. c \in CacheState
    BY DEF Good, Typed
  <2> HIDE DEF q, lines
  <2>3. QED
    BY <2>1, <2>2 DEF CacheState
<1> HIDE DEF q, lines
<1>5. SetLine(c, s, w, l) \in CacheState
  BY <1>2, <1>3, <1>4 DEF Good, Typed, CacheState
<1>6. QED
  BY <1>2, <1>4, <1>5 DEF Queued, lines, q

(* The recent-store register is neither a line nor a place in a queue. *)
LEMMA RecentShape ==
  ASSUME NEW c \in CacheState, NEW r \in (Blocks \X Offsets) \cup {NoStore}
  PROVE  /\ [c EXCEPT !.recent = r] \in CacheState
         /\ [c EXCEPT !.recent = r].line = c.line
         /\ [c EXCEPT !.recent = r].age = c.age
  BY DEF CacheState

(* What is said of a cache does not depend on the recent-store register. *)
LEMMA RecentIsSilent ==
  ASSUME NEW c, NEW m, Good(c, m), NEW r \in (Blocks \X Offsets) \cup {NoStore},
         NEW c1, c1 = [c EXCEPT !.recent = r]
  PROVE  /\ Good(c1, m) /\ View(c1, m) = View(c, m)
         /\ \A b \in Blocks : Hit(c1, b) <=> Hit(c, b)
<1>1. c1 \in CacheState /\ c1.line = c.line /\ c1.age = c.age
  BY RecentShape DEF Good, Typed
<1>2. \A b, w : HasBlock(c1, b, w) <=> HasBlock(c, b, w)
  BY <1>1 DEF HasBlock
<1>3. \A b : Hit(c1, b) <=> Hit(c, b)
  BY <1>2 DEF Hit
<1>4. \A b : WayOf(c1, b) = WayOf(c, b)
  BY <1>1 DEF WayOf, HasBlock
<1>5. View(c1, m) = View(c, m)
  BY <1>1, <1>3, <1>4 DEF View
<1>6. QED
  BY <1>1, <1>2, <1>3, <1>5 DEF Good, Typed, Single, Backed, Queued

---------------------------------------------------------------------------
(* The operations.                                                         *)

(* A hit that leaves line l in the block's way. *)
LEMMA HitStep ==
  ASSUME NEW c, NEW m, Good(c, m), NEW b \in Blocks, Hit(c, b),
         NEW l \in Line, l.valid, l.tag = b, ~l.dirty => l.data = m[b]
  PROVE  LET c2 == SetLine(c, SetOf(b), WayOf(c, b), l)
         IN /\ Good(c2, m)
            /\ View(c2, m) = [View(c, m) EXCEPT ![b] = l.data]
            /\ WrittenBack(c, m, m)
<1>1. WayOf(c, b) \in Ways /\ HasBlock(c, b, WayOf(c, b)) /\ SetOf(b) \in Sets
  BY WayOfHolds, SetOfType
<1> DEFINE w == WayOf(c, b)
           c2 == SetLine(c, SetOf(b), w, l)
<1> HIDE DEF w
<1>2. c2 \in CacheState /\ Queued(c2) /\ c2.line = [c.line EXCEPT ![SetOf(b)][w] = l]
  BY <1>1, SetLineShape DEF w
<1> HIDE DEF c2
<1>3. w \in Ways /\ HasBlock(c, b, w)
  BY <1>1 DEF w
<1>4. Good(c2, m) /\ View(c2, m) = [View(c, m) EXCEPT ![b] = l.data] /\ WrittenBack(c, m, m)
  BY <1>2, <1>3, Installed
<1>5. QED
  BY <1>4 DEF c2, w

(* A miss that fills the victim way with line l. *)
LEMMA MissStep ==
  ASSUME NEW c, NEW m, Good(c, m), NEW b \in Blocks, ~Hit(c, b),
         NEW l \in Line, l.valid, l.tag = b, ~l.dirty => l.data = Spilled(c, m, b)[b]
  PROVE  LET c2 == SetLine(c, SetOf(b), Victim(c, SetOf(b)), l)
             m1 == Spilled(c, m, b)
         IN /\ Good(c2, m1)
            /\ View(c2, m1) = [View(c, m) EXCEPT ![b] = l.data]
            /\ WrittenBack(c, m, m1)
<1>1. SetOf(b) \in Sets /\ Victim(c, SetOf(b)) \in Ways
  BY SetOfType, VictimType DEF Good
<1> DEFINE w == Victim(c, SetOf(b))
<1>2. Spilled(c, m, b) = Replaced(c, m, b, w)
  BY DEF Spilled, Replaced
<1> DEFINE c2 == SetLine(c, SetOf(b), w, l)
           m1 == Spilled(c, m, b)
<1> HIDE DEF w
<1>3. c2 \in CacheState /\ Queued(c2) /\ c2.line = [c.line EXCEPT ![SetOf(b)][w] = l]
  BY <1>1, SetLineShape DEF w
<1>4. w \in Ways
  BY <1>1 DEF w
<1> HIDE DEF c2, m1
<1>5. m1 = Replaced(c, m, b, w)
  BY <1>2 DEF m1
<1>6. ~l.dirty => l.data = m1[b]
  BY DEF m1
<1>7. Good(c2, m1) /\ View(c2, m1) = [View(c, m) EXCEPT ![b] = l.data] /\ WrittenBack(c, m, m1)
  <2>1. Good(c, m) /\ b \in Blocks /\ l \in Line /\ l.valid /\ l.tag = b /\ ~Hit(c, b)
    OBVIOUS
  <2>2. QED
    BY ONLY <1>3, <1>4, <1>5, <1>6, <2>1, Installed
<1>8. QED
  BY <1>7 DEF c2, m1, w

(* Write-back does not disturb the block that missed. *)
LEMMA SpilledElsewhere ==
  ASSUME NEW c, NEW m, Good(c, m), NEW b \in Blocks, ~Hit(c, b)
  PROVE  Spilled(c, m, b) \in [Blocks -> BlockData] /\ Spilled(c, m, b)[b] = View(c, m)[b]
<1> DEFINE l == c.line[SetOf(b)][Victim(c, SetOf(b))]
<1>1. SetOf(b) \in Sets /\ Victim(c, SetOf(b)) \in Ways
  BY SetOfType, VictimType DEF Good
<1>2. l \in Line
  BY <1>1 DEF Good, Typed, CacheState
<1>3. l.valid => l.tag # b
  BY <1>1 DEF Hit, HasBlock
<1>4. View(c, m)[b] = m[b]
  BY ViewOf DEF Good
<1>5. QED
  BY <1>2, <1>3, <1>4 DEF Spilled, Good, Typed, Line

(* What Read does to a client's view and to the store below, and what it answers. *)
LEMMA ReadEffect ==
  ASSUME NEW c, NEW m, Good(c, m), NEW b \in Blocks, NEW o \in Offsets, NEW n \in 1 .. BlockSize
  PROVE  LET r == Read(c, m, b, o, n)
         IN /\ Good(r.cache, r.backing)
            /\ View(r.cache, r.backing) = View(c, m)
            /\ WrittenBack(c, m, r.backing)
            /\ r.data = extractData(View(c, m)[b], o, n)
<1> DEFINE r == Read(c, m, b, o, n)
<1>0. View(c, m) \in [Blocks -> BlockData]
  BY ViewType DEF Good
<1>1. CASE Hit(c, b)
  <2> DEFINE w == WayOf(c, b)
             l == c.line[SetOf(b)][w]
             c2 == SetLine(c, SetOf(b), w, l)
             rec == IF c.recent = <<b, o>> THEN NoStore ELSE c2.recent
  <2>1. w \in Ways /\ HasBlock(c, b, w) /\ SetOf(b) \in Sets
    BY <1>1, WayOfHolds, SetOfType
  <2>2. l \in Line /\ l.valid /\ l.tag = b /\ (~l.dirty => l.data = m[b])
    BY <2>1 DEF HasBlock, Good, Typed, CacheState, Backed
  <2>3. View(c, m)[b] = l.data
    BY <2>1, ViewOf DEF Good
  <2>4. Good(c2, m) /\ View(c2, m) = View(c, m) /\ WrittenBack(c, m, m)
    <3> HIDE DEF l
    <3>1. Good(c2, m) /\ View(c2, m) = [View(c, m) EXCEPT ![b] = l.data] /\ WrittenBack(c, m, m)
      BY <1>1, <2>2, HitStep
    <3> HIDE DEF c2
    <3>2. QED
      BY <1>0, <2>3, <3>1
  <2>5. rec \in (Blocks \X Offsets) \cup {NoStore}
    <3>1. c2.recent \in (Blocks \X Offsets) \cup {NoStore}
      <4> HIDE DEF c2
      <4> QED BY <2>4 DEF Good, Typed, CacheState
    <3>2. QED
      BY <3>1
  <2>6. /\ r.cache = [c2 EXCEPT !.recent = rec]
        /\ r.backing = m
        /\ r.data = extractData(l.data, o, n)
    BY <1>1 DEF Read, readHit
  <2> HIDE DEF r, c2, l, rec
  <2>7. QED
    BY <2>3, <2>4, <2>5, <2>6, RecentIsSilent DEF r
<1>2. CASE ~Hit(c, b)
  <2> DEFINE m1 == Spilled(c, m, b)
             l == FilledLine(m1, b, FALSE, o, n, << >>)
             c2 == SetLine(c, SetOf(b), Victim(c, SetOf(b)), l)
  <2>1. m1 \in [Blocks -> BlockData] /\ m1[b] = View(c, m)[b]
    BY <1>2, SpilledElsewhere
  <2>2. l \in Line /\ l.valid /\ l.tag = b /\ l.data = m1[b]
    <3> HIDE DEF m1
    <3> QED BY <2>1 DEF FilledLine, Line
  <2>3. r.cache = c2 /\ r.backing = m1 /\ r.data = extractData(l.data, o, n)
    BY <1>2 DEF Read, handleMiss
  <2> HIDE DEF l
  <2>4. /\ Good(c2, m1)
        /\ View(c2, m1) = [View(c, m) EXCEPT ![b] = l.data]
        /\ WrittenBack(c, m, m1)
    BY <1>2, <2>2, MissStep
  <2> HIDE DEF m1, c2, r
  <2>5. QED
    BY <1>0, <2>1, <2>2, <2>3, <2>4 DEF r
<1>3. QED
  BY <1>1, <1>2

(* What Write does to a client's view and to the store below. *)
LEMMA WriteEffect ==
  ASSUME NEW c, NEW m, Good(c, m), NEW b \in Blocks, NEW o \in Offsets,
         NEW n \in 1 .. BlockSize, NEW d \in [0 .. n - 1 -> Byte]
  PROVE  LET r == Write(c, m, b, o, n, d)
         IN /\ Good(r.cache, r.backing)
            /\ View(r.cache, r.backing) = [View(c, m) EXCEPT ![b] = storeData(@, o, n, d)]
            /\ WrittenBack(c, m, r.backing)
            /\ r.data = << >>
<1> DEFINE r == Write(c, m, b, o, n, d)
           c1 == [c EXCEPT !.recent = <<b, o>>]
<1>0. View(c, m) \in [Blocks -> BlockData]
  BY ViewType DEF Good
<1>1. /\ Good(c1, m) /\ View(c1, m) = View(c, m) /\ (Hit(c1, b) <=> Hit(c, b))
  <2>1. <<b, o>> \in (Blocks \X Offsets) \cup {NoStore}
    OBVIOUS
  <2>2. QED
    BY <2>1, RecentIsSilent
<1>2. ASSUME NEW m2, WrittenBack(c1, m, m2) PROVE WrittenBack(c, m, m2)
  BY <1>1, <1>2 DEF WrittenBack
<1> HIDE DEF c1
<1>3. CASE Hit(c1, b)
  <2> DEFINE w == WayOf(c1, b)
             old == c1.line[SetOf(b)][w]
             l == [old EXCEPT !.data = storeData(@, o, n, d), !.dirty = TRUE]
             c2 == SetLine(c1, SetOf(b), w, l)
  <2>1. w \in Ways /\ HasBlock(c1, b, w) /\ SetOf(b) \in Sets
    BY <1>3, WayOfHolds, SetOfType
  <2>2. old \in Line /\ old.valid /\ old.tag = b /\ View(c, m)[b] = old.data
    <3>1. View(c1, m)[b] = old.data
      BY <1>1, <2>1, ViewOf DEF Good
    <3>2. old \in Line
      BY <1>1, <2>1 DEF Good, Typed, CacheState
    <3>3. QED
      BY <1>1, <2>1, <3>1, <3>2 DEF HasBlock
  <2>3. l \in Line /\ l.valid /\ l.tag = b /\ l.dirty /\ l.data = storeData(View(c, m)[b], o, n, d)
    <3> HIDE DEF old
    <3>1. storeData(old.data, o, n, d) \in BlockData
      BY <2>2, StoreType DEF Line
    <3>2. QED
      BY <2>2, <3>1 DEF Line
  <2>4. r.cache = c2 /\ r.backing = m /\ r.data = << >>
    BY <1>1, <1>3 DEF Write, writeHit, c1
  <2> HIDE DEF l
  <2>5. Good(c2, m) /\ View(c2, m) = [View(c1, m) EXCEPT ![b] = l.data] /\ WrittenBack(c1, m, m)
    BY <1>1, <1>3, <2>3, HitStep
  <2> HIDE DEF r, c2
  <2>6. QED
    BY <1>0, <1>1, <1>2, <2>3, <2>4, <2>5 DEF r
<1>4. CASE ~Hit(c1, b)
  <2> DEFINE m1 == Spilled(c1, m, b)
             l == FilledLine(m1, b, TRUE, o, n, d)
             c2 == SetLine(c1, SetOf(b), Victim(c1, SetOf(b)), l)
  <2>1. m1 \in [Blocks -> BlockData] /\ m1[b] = View(c, m)[b]
    BY <1>1, <1>4, SpilledElsewhere
  <2>2. l \in Line /\ l.valid /\ l.tag = b /\ l.dirty /\ l.data = storeData(View(c, m)[b], o, n, d)
    <3> HIDE DEF m1
    <3>1. storeData(m1[b], o, n, d) \in BlockData
      BY <2>1, StoreType
    <3>2. QED
      BY <2>1, <3>1 DEF FilledLine, Line
  <2>3. r.cache = c2 /\ r.backing = m1 /\ r.data = << >>
    BY <1>1, <1>4 DEF Write, handleMiss, c1
  <2> HIDE DEF l
  <2>4. /\ Good(c2, m1)
        /\ View(c2, m1) = [View(c1, m) EXCEPT ![b] = l.data]
        /\ WrittenBack(c1, m, m1)
    BY <1>1, <1>4, <2>2, MissStep
  <2> HIDE DEF m1, c2, r
  <2>5. QED
    BY <1>0, <1>1, <1>2, <2>2, <2>3, <2>4 DEF r
<1>5. QED
  BY <1>3, <1>4

---------------------------------------------------------------------------
(* Dropping lines.                                                         *)

(* A cache whose lines are those of c, some dropped, is good over a backing   *)
(* store that still holds its clean lines.                                    *)
LEMMA Weakened ==
  ASSUME NEW c, NEW m, Good(c, m), NEW c2 \in CacheState, Queued(c2),
         NEW m2 \in [Blocks -> BlockData],
         \A s \in Sets : \A w \in Ways :
           c2.line[s][w].valid => c2.line[s][w] = c.line[s][w] /\ m2 = m
  PROVE  Good(c2, m2)
<1>1. \A s \in Sets, w \in Ways : c.line[s][w] \in Line
  BY DEF Good, Typed, CacheState
<1>2. Single(c2)
  <2> SUFFICES ASSUME NEW s \in Sets, NEW w \in Ways, c2.line[s][w].valid
               PROVE  /\ SetOf(c2.line[s][w].tag) = s
                      /\ \A v \in Ways : HasBlock(c2, c2.line[s][w].tag, v) => v = w
    BY DEF Single
  <2>1. c2.line[s][w] = c.line[s][w] /\ SetOf(c.line[s][w].tag) = s
    BY DEF Good, Single
  <2>2. ASSUME NEW v \in Ways, HasBlock(c2, c2.line[s][w].tag, v) PROVE v = w
    <3>1. c2.line[s][v].valid /\ c2.line[s][v].tag = c2.line[s][w].tag
      BY <2>1, <2>2 DEF HasBlock
    <3>2. HasBlock(c, c.line[s][w].tag, v)
      BY <2>1, <3>1 DEF HasBlock
    <3>3. QED
      BY <2>1, <3>2 DEF Good, Single
  <2>3. QED
    BY <2>1, <2>2
<1>3. Backed(c2, m2)
  BY DEF Good, Backed
<1>4. QED
  BY <1>2, <1>3 DEF Good, Typed

(* Invalidate forgets what was not written back of one block, and no more. *)
LEMMA InvalidateEffect ==
  ASSUME NEW c, NEW m, Good(c, m), NEW b \in Blocks
  PROVE  /\ Good(Invalidate(c, b), m)
         /\ View(Invalidate(c, b), m) = [x \in Blocks |-> IF x \in {b} THEN m[x] ELSE View(c, m)[x]]
<1> DEFINE c2 == Invalidate(c, b)
           w == WayOf(c, b)
           s == SetOf(b)
           lines == [c.line EXCEPT ![s][w] = Dropped(@)]
<1>1. CASE ~Hit(c, b)
  <2>1. View(c, m)[b] = m[b]
    BY <1>1, ViewOf DEF Good
  <2>2. QED
    BY <1>1, <2>1 DEF Invalidate, View
<1>2. CASE Hit(c, b)
  <2>1. w \in Ways /\ HasBlock(c, b, w) /\ s \in Sets
    BY <1>2, WayOfHolds, SetOfType
  <2>2. c.line \in [Sets -> [Ways -> Line]]
    BY DEF Good, Typed, CacheState
  <2>3. Dropped(c.line[s][w]) \in Line /\ ~Dropped(c.line[s][w]).valid
    <3>1. c.line[s][w] \in Line
      BY <2>1, <2>2
    <3>2. QED
      BY <3>1 DEF Dropped, Line
  <2>4. lines \in [Sets -> [Ways -> Line]]
    BY <2>2, <2>3
  <2>5. c2 \in CacheState /\ c2.line = lines /\ c2.age = c.age
    <3>1. c2 = [c EXCEPT !.line = lines]
      BY <1>2 DEF Invalidate
    <3>2. c \in CacheState
      BY DEF Good, Typed
    <3> HIDE DEF c2, lines
    <3>3. QED
      BY <2>4, <3>1, <3>2 DEF CacheState
  <2>6. \A t \in Sets, v \in Ways :
          c2.line[t][v] = IF t = s /\ v = w THEN Dropped(c.line[s][w]) ELSE c.line[t][v]
    BY <2>1, <2>2, <2>5
  <2> HIDE DEF c2, lines, w
  <2>7. Good(c2, m)
    <3>1. Queued(c2) /\ m \in [Blocks -> BlockData]
      BY <2>5 DEF Queued, Good, Typed
    <3>2. \A t \in Sets : \A v \in Ways :
            c2.line[t][v].valid => c2.line[t][v] = c.line[t][v] /\ m = m
      BY <2>3, <2>6
    <3>3. QED
      BY <2>5, <3>1, <3>2, Weakened
  <2>8. ~Hit(c2, b)
    <3> SUFFICES ASSUME NEW v \in Ways, HasBlock(c2, b, v) PROVE FALSE
      BY DEF Hit
    <3>1. v # w /\ HasBlock(c, b, v)
      BY <2>1, <2>3, <2>6 DEF HasBlock
    <3>2. QED
      BY <2>1, <3>1 DEF Good, Single, HasBlock
  <2>9. ASSUME NEW x \in Blocks, x # b PROVE View(c2, m)[x] = View(c, m)[x]
    <3>1. ASSUME NEW v \in Ways
          PROVE  /\ HasBlock(c2, x, v) <=> HasBlock(c, x, v)
                 /\ HasBlock(c, x, v) => c2.line[SetOf(x)][v] = c.line[SetOf(x)][v]
      BY <2>1, <2>3, <2>6, <2>9, SetOfType DEF HasBlock
    <3>2. \A v \in Ways : HasBlock(c, x, v) => View(c2, m)[x] = View(c, m)[x]
      BY <2>7, <3>1, ViewOf DEF Good
    <3>3. ~Hit(c, x) => View(c2, m)[x] = View(c, m)[x]
      BY <2>7, <3>1, ViewOf DEF Good, Hit
    <3>4. QED
      BY <3>2, <3>3 DEF Hit
  <2>10. View(c2, m)[b] = m[b]
    BY <2>7, <2>8, ViewOf DEF Good
  <2>11. View(c2, m) = [x \in Blocks |-> View(c2, m)[x]]
    BY DEF View
  <2>12. QED
    BY <2>7, <2>9, <2>10, <2>11 DEF c2
<1>3. QED
  BY <1>1, <1>2

(* Dropping every line leaves the backing store to be seen. *)
LEMMA AllDroppedEffect ==
  ASSUME NEW c, NEW m, Good(c, m), NEW m2 \in [Blocks -> BlockData],
         NEW c2 \in CacheState, Queued(c2), c2.line = AllDropped(c).line
  PROVE  Good(c2, m2) /\ View(c2, m2) = m2
<1>1. \A s \in Sets, w \in Ways : ~c2.line[s][w].valid
  <2>1. AllDropped(c).line = [s \in Sets |-> [w \in Ways |-> Dropped(c.line[s][w])]]
    BY DEF AllDropped, Good, Typed, CacheState
  <2>2. \A s \in Sets, w \in Ways : c.line[s][w] \in Line
    BY DEF Good, Typed, CacheState
  <2>3. \A l \in Line : ~Dropped(l).valid
    BY DEF Dropped, Line
  <2>4. \A s \in Sets, w \in Ways : c2.line[s][w] = Dropped(c.line[s][w])
    BY <2>1
  <2>5. QED
    BY <2>2, <2>3, <2>4
<1>2. Good(c2, m2)
  BY <1>1, Weakened
<1>3. \A b \in Blocks : ~Hit(c2, b)
  BY <1>1, SetOfType DEF Hit, HasBlock
<1>4. \A b \in Blocks : View(c2, m2)[b] = m2[b]
  BY <1>2, <1>3, ViewOf DEF Good
<1>5. QED
  BY <1>2, <1>4 DEF View

(* AllDropped gives a cache with c's queues. *)
LEMMA AllDroppedShape ==
  ASSUME NEW c \in CacheState
  PROVE  AllDropped(c) \in CacheState /\ AllDropped(c).age = c.age
<1>1. \A l \in Line : Dropped(l) \in Line
  BY DEF Dropped, Line
<1> DEFINE lines == [s \in Sets |-> [w \in Ways |-> Dropped(c.line[s][w])]]
<1>2. lines \in [Sets -> [Ways -> Line]]
  BY <1>1 DEF CacheState
<1>3. AllDropped(c) = [c EXCEPT !.line = lines]
  BY DEF AllDropped, CacheState
<1> HIDE DEF lines
<1>4. QED
  BY <1>2, <1>3 DEF CacheState

(* Flush brings the backing store up to what clients see, and empties the cache. *)
LEMMA FlushEffect ==
  ASSUME NEW c, NEW m, Good(c, m)
  PROVE  LET r == Flush(c, m)
         IN /\ Good(r.cache, r.backing)
            /\ r.backing = View(c, m)
            /\ View(r.cache, r.backing) = View(c, m)
<1> DEFINE r == Flush(c, m)
<1>1. View(c, m) \in [Blocks -> BlockData] /\ c \in CacheState
  BY ViewType DEF Good, Typed
<1>2. ASSUME NEW b \in Blocks, b \notin DirtyBlocks(c) PROVE View(c, m)[b] = m[b]
  <2>1. CASE ~Hit(c, b)
    BY <2>1, ViewOf DEF Good
  <2>2. CASE Hit(c, b)
    <3>1. PICK w \in Ways : HasBlock(c, b, w)
      BY <2>2 DEF Hit
    <3>2. ~c.line[SetOf(b)][w].dirty /\ View(c, m)[b] = c.line[SetOf(b)][w].data
      BY <1>2, <3>1, ViewOf DEF DirtyBlocks, Good
    <3>3. QED
      BY <3>1, <3>2, SetOfType DEF Good, Backed, HasBlock
  <2>3. QED
    BY <2>1, <2>2
<1>3. r.cache = AllDropped(c) /\ r.backing = View(c, m)
  BY <1>1, <1>2 DEF Flush
<1>4. AllDropped(c) \in CacheState /\ Queued(AllDropped(c))
  BY <1>1, AllDroppedShape DEF Good, Queued
<1> HIDE DEF r
<1>5. Good(r.cache, r.backing) /\ View(r.cache, r.backing) = View(c, m)
  BY <1>1, <1>3, <1>4, AllDroppedEffect
<1>6. QED
  BY <1>3, <1>5 DEF r

(* Reset leaves the backing store to be seen. *)
LEMMA ResetEffect ==
  ASSUME NEW c, NEW m, Good(c, m)
  PROVE  Good(Reset(c), m) /\ View(Reset(c), m) = m
<1> DEFINE d == AllDropped(c)
<1>1. d \in CacheState
  BY AllDroppedShape DEF Good, Typed
<1>2. New.age \in [Sets -> [Ways -> Ways]] /\ Permuted(New.age)
  BY DEF New, Permuted
<1>3. Reset(c) = [d EXCEPT !.age = New.age, !.recent = NoStore]
  BY DEF Reset
<1> HIDE DEF d
<1>4. Reset(c) \in CacheState /\ Reset(c).line = d.line /\ Queued(Reset(c))
  <2> HIDE DEF New
  <2> DEFINE q == New.age
  <2>1. q \in [Sets -> [Ways -> Ways]] /\ Permuted(q)
    BY <1>2
  <2> HIDE DEF q
  <2>2. Reset(c) = [d EXCEPT !.age = q, !.recent = NoStore]
    BY <1>3 DEF q
  <2>3. QED
    BY <1>1, <2>1, <2>2 DEF CacheState, Queued
<1>5. QED
  BY <1>4, AllDroppedEffect DEF d, Good, Typed

---------------------------------------------------------------------------
(* The invariant and the refinement.                                       *)

(* The empty cache is good, and clients see the backing store. *)
LEMMA NewEffect ==
  ASSUME NEW m \in [Blocks -> BlockData]
  PROVE  Good(New, m) /\ View(New, m) = m
<1>1. EmptyLine \in Line
  BY GeometryAssumption DEF EmptyLine, Line, BlockData, Blocks
<1>2. New \in CacheState /\ Queued(New) /\ \A s \in Sets, w \in Ways : New.line[s][w] = EmptyLine
  BY <1>1 DEF New, CacheState, Queued, Permuted
<1>3. ~EmptyLine.valid
  BY DEF EmptyLine
<1>4. Good(New, m)
  BY <1>2, <1>3 DEF Good, Typed, Single, Backed
<1>5. \A b \in Blocks : ~Hit(New, b)
  BY <1>2, <1>3, SetOfType DEF Hit, HasBlock
<1>6. \A b \in Blocks : View(New, m)[b] = m[b]
  BY <1>4, <1>5, ViewOf DEF Good
<1>7. QED
  BY <1>4, <1>6 DEF View

(* A cache starts as the layered memory does. *)
LEMMA InitStep == Init => Good(cache, mem) /\ LM!MInit
<1> SUFFICES ASSUME Init PROVE Good(cache, mem) /\ LM!MInit
  OBVIOUS
<1>1. cache = New /\ mem \in [Blocks -> BlockData] /\ ret = << >> /\ op = << >>
  BY DEF Init
<1>2. Good(cache, mem) /\ View(cache, mem) = mem
  BY <1>1, NewEffect
<1>3. QED
  BY <1>1, <1>2 DEF LM!MInit, LM!Image, LM!Blocks, LM!Offsets, Blocks, Offsets, BlockData

(* Every operation keeps the cache good and is an operation of the layered memory. *)
LEMMA NextStep == Good(cache, mem) /\ Next => Good(cache', mem') /\ LM!MNext
<1> SUFFICES ASSUME Good(cache, mem), Next PROVE Good(cache', mem') /\ LM!MNext
  OBVIOUS
<1>0. View(cache, mem) \in [Blocks -> BlockData]
  BY ViewType DEF Good
<1> USE DEF LM!Blocks, LM!Offsets
<1>1. ASSUME NEW b \in Blocks, NEW o \in Offsets, NEW n \in 1 .. BlockSize, DoRead(b, o, n)
      PROVE  Good(cache', mem') /\ LM!MNext
  <2> DEFINE r == Read(cache, mem, b, o, n)
  <2>1. /\ Good(r.cache, r.backing) /\ View(r.cache, r.backing) = View(cache, mem)
        /\ WrittenBack(cache, mem, r.backing)
        /\ r.data = extractData(View(cache, mem)[b], o, n)
    BY ReadEffect
  <2>2. cache' = r.cache /\ mem' = r.backing /\ ret' = r.data /\ op' = <<"read", b, o, n>>
    BY <1>1 DEF DoRead
  <2> HIDE DEF r
  <2>3. LM!Bytes(View(cache, mem)[b], o, n) = extractData(View(cache, mem)[b], o, n)
    BY GeometryAssumption DEF LM!Bytes, extractData, Fits, Offsets
  <2>4. LM!MRead(b, o, n)
    BY <2>1, <2>2, <2>3 DEF LM!MRead, WrittenBack, LM!Merge, Blocks
  <2>5. QED
    BY <2>1, <2>2, <2>4 DEF LM!MNext, Blocks, Offsets
<1>2. ASSUME NEW b \in Blocks, NEW o \in Offsets, NEW n \in 1 .. BlockSize,
             NEW d \in [0 .. n - 1 -> Byte], DoWrite(b, o, n, d)
      PROVE  Good(cache', mem') /\ LM!MNext
  <2> DEFINE r == Write(cache, mem, b, o, n, d)
  <2>1. /\ Good(r.cache, r.backing)
        /\ View(r.cache, r.backing) = [View(cache, mem) EXCEPT ![b] = storeData(@, o, n, d)]
        /\ WrittenBack(cache, mem, r.backing)
        /\ r.data = << >>
    BY WriteEffect
  <2>2. cache' = r.cache /\ mem' = r.backing /\ ret' = r.data /\ op' = <<"write", b, o, n, d>>
    BY <1>2 DEF DoWrite
  <2> HIDE DEF r
  <2>3. LM!Stored(View(cache, mem)[b], o, n, d) = storeData(View(cache, mem)[b], o, n, d)
    BY DEF LM!Stored, storeData, Fits, Offsets
  <2>4. LM!MWrite(b, o, n, d)
    BY <2>1, <2>2, <2>3 DEF LM!MWrite, WrittenBack, LM!Merge, Blocks
  <2>5. QED
    BY <2>1, <2>2, <2>4 DEF LM!MNext, Blocks, Offsets
<1>3. ASSUME NEW b \in Blocks, DoInvalidate(b)
      PROVE  Good(cache', mem') /\ LM!MNext
  <2>1. cache' = Invalidate(cache, b) /\ mem' = mem /\ ret' = << >> /\ op' = <<"invalidate", b>>
    BY <1>3 DEF DoInvalidate
  <2>2. /\ Good(cache', mem')
        /\ View(cache', mem') = [x \in Blocks |-> IF x \in {b} THEN mem[x] ELSE View(cache, mem)[x]]
    BY <2>1, InvalidateEffect
  <2>3. LM!MInvalidate(b)
    BY <2>1, <2>2 DEF LM!MInvalidate, LM!Lost, LM!Merge, Blocks
  <2>4. QED
    BY <2>2, <2>3 DEF LM!MNext, Blocks
<1>4. CASE DoFlush
  <2>1. /\ cache' = Flush(cache, mem).cache /\ mem' = Flush(cache, mem).backing
        /\ ret' = << >> /\ op' = <<"flush">>
    BY <1>4 DEF DoFlush
  <2>2. Good(cache', mem') /\ mem' = View(cache, mem) /\ View(cache', mem') = View(cache, mem)
    BY <2>1, FlushEffect
  <2>3. LM!MFlush
    BY <2>1, <2>2 DEF LM!MFlush
  <2>4. QED
    BY <2>2, <2>3 DEF LM!MNext
<1>5. CASE DoReset
  <2>1. cache' = Reset(cache) /\ mem' = mem /\ ret' = << >> /\ op' = <<"reset">>
    BY <1>5 DEF DoReset
  <2>2. Good(cache', mem') /\ View(cache', mem') = mem
    BY <2>1, ResetEffect
  <2>3. View(cache', mem') = LM!Merge(LM!Blocks, mem, View(cache, mem))
    BY <2>2 DEF LM!Merge, Blocks, Good, Typed
  <2>4. LM!MReset
    BY <2>1, <2>3 DEF LM!MReset, LM!Lost
  <2>5. QED
    BY <2>2, <2>4 DEF LM!MNext
<1>6. QED
  BY <1>1, <1>2, <1>3, <1>4, <1>5 DEF Next

(* A step that changes nothing changes nothing of the layered memory. *)
LEMMA StutterStep ==
  UNCHANGED cacheVars => (Good(cache, mem) => Good(cache', mem')) /\ UNCHANGED LM!memVars
  BY DEF cacheVars, LM!memVars

(* Good is an invariant: the strengthening under which the safety properties are inductive. *)
THEOREM GoodAlways == Spec => []Good(cache, mem)
<1>1. Good(cache, mem) /\ [Next]_cacheVars => Good(cache, mem)'
  BY NextStep, StutterStep
<1>2. QED
  BY <1>1, InitStep, PTL DEF Spec

(* The cache state and the backing store keep their types. *)
THEOREM TypeCorrect == Spec => []TypeOK
<1>1. Good(cache, mem) => TypeOK
  BY DEF Good, Typed, TypeOK
<1>2. QED
  BY <1>1, GoodAlways, PTL

(* No block is ever in two ways or in a set it does not index. *)
THEOREM OneCopyAlways == Spec => []OneCopy
<1>1. Good(cache, mem) => OneCopy
  BY DEF Good, Single, OneCopy
<1>2. QED
  BY <1>1, GoodAlways, PTL

(* A line that is not dirty can always be dropped without losing a write. *)
THEOREM CleanIsBackedAlways == Spec => []CleanIsBacked
<1>1. Good(cache, mem) => CleanIsBacked
  BY DEF Good, Backed, CleanIsBacked
<1>2. QED
  BY <1>1, GoodAlways, PTL

(* A write-back cache of any geometry over its backing store is a layered     *)
(* memory, operation by operation: replacement and write-back never show to a *)
(* client, and Flush leaves below all that the client sees.                   *)
THEOREM Refinement == Spec => ImplementsLayeredMemory
<1>1. Good(cache, mem) /\ [Next]_cacheVars => [LM!MNext]_(LM!memVars)
  BY NextStep, StutterStep
<1>2. QED
  BY <1>1, InitStep, GoodAlways, PTL DEF Spec, ImplementsLayeredMemory, LM!MSpec

---------------------------------------------------------------------------
(* Replacement: the places of the LRU queue agree with the order in which   *)
(* blocks were touched.                                                     *)

\* What the proof needs of the cache state c and the order o.
Ordered(o) ==
  /\ o \subseteq Blocks \X Blocks
  /\ \A x, y \in Blocks : <<x, y>> \in o => <<x, x>> \in o /\ <<y, y>> \in o
  /\ \A x, y \in Blocks : <<x, y>> \in o /\ <<y, x>> \in o => x = y

\* Resident blocks were touched, and in a set the places of the queue go by the order.
PlacedByOrder(c, o) ==
  /\ \A b \in Blocks : Hit(c, b) => <<b, b>> \in o
  /\ \A x, y \in Blocks, v, w \in Ways :
       SetOf(x) = SetOf(y) /\ HasBlock(c, x, v) /\ HasBlock(c, y, w)
         /\ c.age[SetOf(x)][v] < c.age[SetOf(x)][w]
       => <<y, x>> \in o

Survives(c, o) ==
  \A b, x \in Blocks : Hit(c, b) /\ SetOf(x) = SetOf(b) /\ <<x, b>> \in o => Hit(c, x)

Fresh(c, o) == Ordered(o) /\ PlacedByOrder(c, o) /\ Survives(c, o)

\* The order o without b, and with b touched last.
Without(o, b) == {p \in o : b \notin {p[1], p[2]}}
Last(o, b) == Without(o, b) \cup {<<b, x>> : x \in {x \in Blocks : <<x, x>> \in o} \cup {b}}

LEMMA WithoutMembers ==
  ASSUME NEW o, o \subseteq Blocks \X Blocks, NEW b \in Blocks, NEW x \in Blocks, NEW y \in Blocks
  PROVE  <<x, y>> \in Without(o, b) <=> <<x, y>> \in o /\ x # b /\ y # b
  BY DEF Without

LEMMA LastMembers ==
  ASSUME NEW o, o \subseteq Blocks \X Blocks, NEW b \in Blocks, NEW x \in Blocks, NEW y \in Blocks
  PROVE  <<x, y>> \in Last(o, b) <=>
           \/ <<x, y>> \in o /\ x # b /\ y # b
           \/ x = b /\ (y = b \/ <<y, y>> \in o)
  BY WithoutMembers DEF Last

LEMMA OrderedKept ==
  ASSUME NEW o, Ordered(o), NEW b \in Blocks
  PROVE  Ordered(Without(o, b)) /\ Ordered(Last(o, b))
<1>1. o \subseteq Blocks \X Blocks
  BY DEF Ordered
<1>2. Without(o, b) \subseteq Blocks \X Blocks /\ Last(o, b) \subseteq Blocks \X Blocks
  <2>1. Without(o, b) \subseteq Blocks \X Blocks
    BY <1>1 DEF Without
  <2>2. \A x \in {x \in Blocks : <<x, x>> \in o} \cup {b} : <<b, x>> \in Blocks \X Blocks
    OBVIOUS
  <2>3. QED
    BY <2>1, <2>2, Zenon DEF Last
<1>3. Ordered(Without(o, b))
  BY <1>1, <1>2, WithoutMembers DEF Ordered
<1>4. Ordered(Last(o, b))
  <2>1. \A x, y \in Blocks : <<x, y>> \in o => <<x, x>> \in o /\ <<y, y>> \in o
    BY DEF Ordered
  <2>2. \A x, y \in Blocks : <<x, y>> \in o /\ <<y, x>> \in o => x = y
    BY DEF Ordered
  <2>3. \A x, y \in Blocks : <<x, y>> \in Last(o, b) <=>
          \/ <<x, y>> \in o /\ x # b /\ y # b
          \/ x = b /\ (y = b \/ <<y, y>> \in o)
    BY <1>1, LastMembers, Zenon
  <2>4. \A x, y \in Blocks : <<x, y>> \in Last(o, b) => <<x, x>> \in Last(o, b) /\ <<y, y>> \in Last(o, b)
    BY <2>1, <2>3, Zenon
  <2>5. \A x, y \in Blocks : <<x, y>> \in Last(o, b) /\ <<y, x>> \in Last(o, b) => x = y
    BY <2>2, <2>3, Zenon
  <2>6. QED
    BY <1>2, <2>4, <2>5 DEF Ordered
<1>5. QED
  BY <1>3, <1>4


(* How a way that is visited moves in the queue of its set. *)
LEMMA VisitedPlaces ==
  ASSUME NEW age \in [Sets -> [Ways -> Ways]], NEW s \in Sets, NEW w \in Ways
  PROVE  /\ \A t \in Sets : t # s => Visited(age, s, w)[t] = age[t]
         /\ \A v \in Ways : ~(Visited(age, s, w)[s][w] < Visited(age, s, w)[s][v])
         /\ \A u, v \in Ways \ {w} :
              Visited(age, s, w)[s][u] < Visited(age, s, w)[s][v] => age[s][u] <= age[s][v]
<1> DEFINE moved == [v \in Ways |-> IF v = w THEN Assoc - 1
                       ELSE IF age[s][v] > age[s][w] THEN age[s][v] - 1 ELSE age[s][v]]
<1>1. Visited(age, s, w) = [age EXCEPT ![s] = moved]
  BY DEF Visited
<1>2. \A v \in Ways : age[s][v] \in 0 .. Assoc - 1
  BY DEF Ways
<1>3. \A v \in Ways : ~(moved[w] < moved[v])
  BY <1>2, GeometryAssumption
<1>4. ASSUME NEW u \in Ways \ {w}, NEW v \in Ways \ {w}, moved[u] < moved[v]
      PROVE  age[s][u] <= age[s][v]
  BY <1>2, <1>4
<1> HIDE DEF moved
<1>5. QED
  BY <1>1, <1>3, <1>4

(* Touching a block, in the way that holds it or in the victim's, keeps the replacement fresh. *)
LEMMA TouchStaysFresh ==
  ASSUME NEW c, NEW m, Good(c, m), NEW o, Fresh(c, o), NEW b \in Blocks, NEW w \in Ways,
         NEW l \in Line, l.valid, l.tag = b,
         HasBlock(c, b, w) \/ (~Hit(c, b) /\ w = Victim(c, SetOf(b))),
         NEW c2, c2.line = [c.line EXCEPT ![SetOf(b)][w] = l], c2.age = Visited(c.age, SetOf(b), w)
  PROVE  Fresh(c2, Last(o, b))
<1> DEFINE s == SetOf(b)
<1>1. s \in Sets /\ \A x \in Blocks : SetOf(x) \in Sets
  BY SetOfType
<1>2. c.line \in [Sets -> [Ways -> Line]] /\ c.age \in [Sets -> [Ways -> Ways]]
  BY DEF Good, Typed, CacheState
<1>3. o \subseteq Blocks \X Blocks /\ Ordered(Last(o, b))
  BY OrderedKept DEF Fresh, Ordered
<1>4. \A x, y \in Blocks : <<x, y>> \in Last(o, b) <=>
        \/ <<x, y>> \in o /\ x # b /\ y # b
        \/ x = b /\ (y = b \/ <<y, y>> \in o)
  BY <1>3, LastMembers
<1>5. \A v \in Ways : HasBlock(c, b, v) => v = w
  <2>1. CASE HasBlock(c, b, w)
    <3>1. c.line[s][w].valid /\ c.line[s][w].tag = b
      BY <2>1 DEF HasBlock
    <3>2. QED
      BY <1>1, <3>1 DEF Good, Single
  <2>2. CASE ~Hit(c, b)
    BY <2>2 DEF Hit
  <2>3. QED
    BY <2>1, <2>2
<1>6. \A x \in Blocks, v \in Ways : HasBlock(c2, x, v) <=>
        \/ x = b /\ v = w
        \/ x # b /\ HasBlock(c, x, v) /\ ~(SetOf(x) = s /\ v = w)
  <2> TAKE x \in Blocks, v \in Ways
  <2>1. CASE SetOf(x) = s /\ v = w
    <3>1. c2.line[SetOf(x)][v] = l
      BY <2>1, <1>1, <1>2
    <3>2. QED
      BY <2>1, <3>1 DEF HasBlock
  <2>2. CASE ~(SetOf(x) = s /\ v = w)
    <3>1. c2.line[SetOf(x)][v] = c.line[SetOf(x)][v]
      BY <2>2, <1>1, <1>2
    <3>2. HasBlock(c2, x, v) <=> HasBlock(c, x, v)
      BY <3>1 DEF HasBlock
    <3>3. QED
      BY <2>2, <3>2, <1>5
  <2>3. QED
    BY <2>1, <2>2
<1>7. \A x \in Blocks : Hit(c2, x) => x = b \/ Hit(c, x)
  BY <1>6 DEF Hit
<1>8. Hit(c2, b)
  BY <1>6 DEF Hit
<1>9. /\ \A t \in Sets : t # s => c2.age[t] = c.age[t]
      /\ \A v \in Ways : ~(c2.age[s][w] < c2.age[s][v])
      /\ \A u, v \in Ways \ {w} : c2.age[s][u] < c2.age[s][v] => c.age[s][u] <= c.age[s][v]
  <2>1. c.age \in [Sets -> [Ways -> Ways]] /\ s \in Sets /\ w \in Ways /\ c2.age = Visited(c.age, s, w)
    BY <1>1, <1>2
  <2> HIDE DEF s
  <2>2. QED
    BY ONLY <2>1, VisitedPlaces
<1>10. \A age \in {c.age, c2.age} : \A t \in Sets, u \in Ways : age[t][u] \in Int
  <2>1. c2.age \in [Sets -> [Ways -> Ways]]
    BY <1>1, <1>2, VisitedQueue DEF Good, Queued
  <2>2. \A t \in Sets, u \in Ways : c.age[t][u] \in Ways /\ c2.age[t][u] \in Ways
    BY <1>2, <2>1
  <2>3. QED
    BY <2>2 DEF Ways
<1>11. \A t \in Sets, u, v \in Ways : c.age[t][u] <= c.age[t][v] => u = v \/ c.age[t][u] < c.age[t][v]
  <2> TAKE t \in Sets, u \in Ways, v \in Ways
  <2>1. c.age[t][u] = c.age[t][v] => u = v
    BY DEF Good, Queued, Permuted
  <2>2. c.age[t][u] \in Int /\ c.age[t][v] \in Int
    BY <1>10
  <2>3. QED
    BY <2>1, <2>2
<1>12. PlacedByOrder(c2, Last(o, b))
  <2>1. ASSUME NEW x \in Blocks, Hit(c2, x) PROVE <<x, x>> \in Last(o, b)
    BY <2>1, <1>4, <1>7 DEF Fresh, PlacedByOrder
  <2>2. ASSUME NEW x \in Blocks, NEW y \in Blocks, NEW u \in Ways, NEW v \in Ways,
               SetOf(x) = SetOf(y), HasBlock(c2, x, u), HasBlock(c2, y, v),
               c2.age[SetOf(x)][u] < c2.age[SetOf(x)][v]
        PROVE  <<y, x>> \in Last(o, b)
    <3>1. CASE y = b
      <4>1. Hit(c2, x)
        BY <2>2 DEF Hit
      <4>2. x = b \/ <<x, x>> \in o
        BY <4>1, <1>7 DEF Fresh, PlacedByOrder
      <4>3. QED
        BY <3>1, <4>2, <1>4
    <3>2. CASE x = b
      <4>1. u = w
        BY <2>2, <3>2, <1>6
      <4>2. QED
        BY <2>2, <3>2, <4>1, <1>9
    <3>3. CASE x # b /\ y # b
      <4>1. /\ HasBlock(c, x, u) /\ HasBlock(c, y, v)
            /\ SetOf(x) = s => u # w /\ v # w
        BY <2>2, <3>3, <1>6
      <4>2. c.age[SetOf(x)][u] <= c.age[SetOf(x)][v]
        <5>1. CASE SetOf(x) = s
          BY <5>1, <4>1, <2>2, <1>9
        <5>2. CASE SetOf(x) # s
          <6>1. c.age[SetOf(x)][u] < c.age[SetOf(x)][v]
            BY <5>2, <2>2, <1>1, <1>9
          <6>2. c.age[SetOf(x)][u] \in Int /\ c.age[SetOf(x)][v] \in Int
            BY <1>1, <1>10
          <6>3. QED
            BY <6>1, <6>2
        <5>3. QED
          BY <5>1, <5>2
      <4>3. u # v
        <5>1. c2.age[SetOf(x)][u] \in Int
          BY <1>1, <1>10
        <5>2. QED
          BY <2>2, <5>1
      <4>4. c.age[SetOf(x)][u] < c.age[SetOf(x)][v]
        BY <4>2, <4>3, <1>1, <1>11
      <4>5. <<y, x>> \in o
        BY <4>1, <4>4, <2>2 DEF Fresh, PlacedByOrder
      <4>6. QED
        BY <4>5, <3>3, <1>4
    <3>4. QED
      BY <3>1, <3>2, <3>3
  <2>3. QED
    BY <2>1, <2>2 DEF PlacedByOrder
<1>13. Survives(c2, Last(o, b))
  <2> SUFFICES ASSUME NEW z \in Blocks, NEW x \in Blocks, Hit(c2, z), SetOf(x) = SetOf(z),
                      <<x, z>> \in Last(o, b), x # b
               PROVE  Hit(c2, x)
    BY <1>8 DEF Survives
  <2>1. <<x, z>> \in o /\ z # b
    BY <1>4
  <2>2. Hit(c, x)
    BY <2>1, <1>7 DEF Fresh, Survives
  <2>3. PICK u \in Ways : HasBlock(c, x, u)
    BY <2>2 DEF Hit
  <2>4. CASE ~(SetOf(x) = s /\ u = w)
    BY <2>3, <2>4, <1>6 DEF Hit
  <2>5. CASE SetOf(x) = s /\ u = w
    <3>1. PICK v \in Ways : HasBlock(c2, z, v)
      BY DEF Hit
    <3>2. HasBlock(c, z, v) /\ v # w
      BY <3>1, <2>1, <2>5, <1>6
    <3>3. c.line[s][w].valid /\ c.line[s][w].tag = x
      BY <2>3, <2>5 DEF HasBlock
    <3>4. ~HasBlock(c, b, w)
      BY <3>3 DEF HasBlock
    <3>5. c.age[s][w] <= c.age[s][v]
      BY <3>3, <3>4, <1>1, VictimIsOldest DEF Good
    <3>6. c.age[s][w] < c.age[s][v]
      BY <3>2, <3>5, <1>1, <1>11
    <3>7. <<z, x>> \in o
      BY <2>3, <2>5, <3>2, <3>6 DEF Fresh, PlacedByOrder
    <3>8. x = z
      BY <2>1, <3>7 DEF Fresh, Ordered
    <3>9. QED
      BY <3>8
  <2>6. QED
    BY <2>4, <2>5
<1>14. QED
  BY <1>3, <1>12, <1>13 DEF Fresh

(* The cache c2 is c with block b put, valid, into the way that holds it or into the   *)
(* victim's, and that way visited.                                                  *)
Touches(c, c2, b) ==
  \E w \in Ways, l \in Line :
    /\ l.valid /\ l.tag = b
    /\ HasBlock(c, b, w) \/ (~Hit(c, b) /\ w = Victim(c, SetOf(b)))
    /\ c2.line = [c.line EXCEPT ![SetOf(b)][w] = l]
    /\ c2.age = Visited(c.age, SetOf(b), w)

LEMMA HitTouches ==
  ASSUME NEW c, NEW m, Good(c, m), NEW b \in Blocks, Hit(c, b),
         NEW l \in Line, l.valid, l.tag = b
  PROVE  Touches(c, SetLine(c, SetOf(b), WayOf(c, b), l), b)
<1>1. WayOf(c, b) \in Ways /\ HasBlock(c, b, WayOf(c, b)) /\ SetOf(b) \in Sets
  BY WayOfHolds, SetOfType
<1> DEFINE w == WayOf(c, b)
           c2 == SetLine(c, SetOf(b), w, l)
<1>2. c2.line = [c.line EXCEPT ![SetOf(b)][w] = l] /\ c2.age = Visited(c.age, SetOf(b), w)
  BY <1>1, SetLineShape
<1>3. w \in Ways /\ (HasBlock(c, b, w) \/ (~Hit(c, b) /\ w = Victim(c, SetOf(b))))
  BY <1>1
<1> HIDE DEF w, c2
<1>4. Touches(c, c2, b)
  BY <1>2, <1>3 DEF Touches
<1>5. QED
  BY <1>4 DEF c2, w

LEMMA MissTouches ==
  ASSUME NEW c, NEW m, Good(c, m), NEW b \in Blocks, ~Hit(c, b),
         NEW l \in Line, l.valid, l.tag = b
  PROVE  Touches(c, SetLine(c, SetOf(b), Victim(c, SetOf(b)), l), b)
<1>1. SetOf(b) \in Sets /\ Victim(c, SetOf(b)) \in Ways
  BY SetOfType, VictimType DEF Good
<1> DEFINE w == Victim(c, SetOf(b))
           c2 == SetLine(c, SetOf(b), w, l)
<1>2. c2.line = [c.line EXCEPT ![SetOf(b)][w] = l] /\ c2.age = Visited(c.age, SetOf(b), w)
  BY <1>1, SetLineShape
<1>3. w \in Ways /\ (HasBlock(c, b, w) \/ (~Hit(c, b) /\ w = Victim(c, SetOf(b))))
  BY <1>1
<1> HIDE DEF w, c2
<1>4. Touches(c, c2, b)
  BY <1>2, <1>3 DEF Touches
<1>5. QED
  BY <1>4 DEF c2, w

(* Touches says nothing of the recent-store register. *)
LEMMA TouchesAlike ==
  ASSUME NEW c, NEW c1, c1.line = c.line, c1.age = c.age,
         NEW c2, NEW c3, c3.line = c2.line, c3.age = c2.age, NEW b, Touches(c1, c2, b)
  PROVE  Touches(c, c3, b)
<1>1. \A w : HasBlock(c1, b, w) <=> HasBlock(c, b, w)
  BY DEF HasBlock
<1>2. Hit(c1, b) <=> Hit(c, b)
  BY <1>1 DEF Hit
<1>3. Victim(c1, SetOf(b)) = Victim(c, SetOf(b))
  BY DEF Victim, Candidates
<1>4. QED
  BY <1>1, <1>2, <1>3 DEF Touches

LEMMA ReadTouches ==
  ASSUME NEW c, NEW m, Good(c, m), NEW b \in Blocks, NEW o \in Offsets, NEW n \in 1 .. BlockSize
  PROVE  Touches(c, Read(c, m, b, o, n).cache, b)
<1> DEFINE r == Read(c, m, b, o, n)
<1>1. CASE Hit(c, b)
  <2> DEFINE w == WayOf(c, b)
             l == c.line[SetOf(b)][w]
             c2 == SetLine(c, SetOf(b), w, l)
             rec == IF c.recent = <<b, o>> THEN NoStore ELSE c2.recent
  <2>1. w \in Ways /\ HasBlock(c, b, w) /\ SetOf(b) \in Sets
    BY <1>1, WayOfHolds, SetOfType
  <2>2. l \in Line /\ l.valid /\ l.tag = b
    BY <2>1 DEF HasBlock, Good, Typed, CacheState
  <2>3. Touches(c, c2, b)
    <3> HIDE DEF l
    <3>1. QED
      BY <1>1, <2>2, HitTouches
  <2>4. r.cache = [c2 EXCEPT !.recent = rec]
    BY <1>1 DEF Read, readHit
  <2>5. c2 \in CacheState
    <3> HIDE DEF l
    <3>1. QED
      BY <2>1, <2>2, SetLineShape
  <2> HIDE DEF c2, r, rec
  <2>6. r.cache.line = c2.line /\ r.cache.age = c2.age
    BY <2>4, <2>5 DEF CacheState
  <2>7. QED
    BY <2>3, <2>6, TouchesAlike DEF r
<1>2. CASE ~Hit(c, b)
  <2> DEFINE m1 == Spilled(c, m, b)
             l == FilledLine(m1, b, FALSE, o, n, << >>)
  <2>1. m1 \in [Blocks -> BlockData]
    BY <1>2, SpilledElsewhere
  <2>2. l \in Line /\ l.valid /\ l.tag = b
    <3> HIDE DEF m1
    <3> QED BY <2>1 DEF FilledLine, Line
  <2>3. r.cache = SetLine(c, SetOf(b), Victim(c, SetOf(b)), l)
    BY <1>2 DEF Read, handleMiss
  <2> HIDE DEF l
  <2>4. QED
    BY <1>2, <2>2, <2>3, MissTouches
<1>3. QED
  BY <1>1, <1>2

LEMMA WriteTouches ==
  ASSUME NEW c, NEW m, Good(c, m), NEW b \in Blocks, NEW o \in Offsets,
         NEW n \in 1 .. BlockSize, NEW d \in [0 .. n - 1 -> Byte]
  PROVE  Touches(c, Write(c, m, b, o, n, d).cache, b)
<1> DEFINE r == Write(c, m, b, o, n, d)
           c1 == [c EXCEPT !.recent = <<b, o>>]
<1>1. /\ Good(c1, m) /\ (Hit(c1, b) <=> Hit(c, b))
      /\ c1.line = c.line /\ c1.age = c.age
  <2>1. <<b, o>> \in (Blocks \X Offsets) \cup {NoStore}
    OBVIOUS
  <2>2. c \in CacheState
    BY DEF Good, Typed
  <2>3. c1.line = c.line /\ c1.age = c.age
    BY <2>1, <2>2, RecentShape
  <2>4. Good(c1, m) /\ (Hit(c1, b) <=> Hit(c, b))
    BY <2>1, RecentIsSilent
  <2>5. QED
    BY <2>3, <2>4
<1> HIDE DEF c1
<1>2. Touches(c1, r.cache, b)
  <2>1. CASE Hit(c1, b)
    <3> DEFINE w == WayOf(c1, b)
               old == c1.line[SetOf(b)][w]
               l == [old EXCEPT !.data = storeData(@, o, n, d), !.dirty = TRUE]
    <3>1. w \in Ways /\ HasBlock(c1, b, w) /\ SetOf(b) \in Sets
      BY <2>1, WayOfHolds, SetOfType
    <3>2. old \in Line /\ old.valid /\ old.tag = b
      BY <1>1, <3>1 DEF HasBlock, Good, Typed, CacheState
    <3>3. l \in Line /\ l.valid /\ l.tag = b
      <4> HIDE DEF old
      <4>1. storeData(old.data, o, n, d) \in BlockData
        BY <3>2, StoreType DEF Line
      <4>2. QED
        BY <3>2, <4>1 DEF Line
    <3>4. r.cache = SetLine(c1, SetOf(b), w, l)
      BY <1>1, <2>1 DEF Write, writeHit, c1
    <3> HIDE DEF l
    <3>5. QED
      BY <1>1, <2>1, <3>3, <3>4, HitTouches
  <2>2. CASE ~Hit(c1, b)
    <3> DEFINE m1 == Spilled(c1, m, b)
               l == FilledLine(m1, b, TRUE, o, n, d)
    <3>1. m1 \in [Blocks -> BlockData]
      BY <1>1, <2>2, SpilledElsewhere
    <3>2. l \in Line /\ l.valid /\ l.tag = b
      <4> HIDE DEF m1
      <4>1. storeData(m1[b], o, n, d) \in BlockData
        BY <3>1, StoreType
      <4>2. QED
        BY <3>1, <4>1 DEF FilledLine, Line
    <3>3. r.cache = SetLine(c1, SetOf(b), Victim(c1, SetOf(b)), l)
      BY <1>1, <2>2 DEF Write, handleMiss, c1
    <3> HIDE DEF l
    <3>4. QED
      BY <1>1, <2>2, <3>2, <3>3, MissTouches
  <2>3. QED
    BY <2>1, <2>2
<1>3. QED
  <2> HIDE DEF r
  <2>1. Touches(c, r.cache, b)
    BY <1>1, <1>2, TouchesAlike
  <2>2. QED
    BY <2>1 DEF r

(* An access touches its block last. *)
LEMMA TouchedIsFresh ==
  ASSUME NEW c, NEW m, Good(c, m), NEW o, Fresh(c, o), NEW b \in Blocks, NEW c2, Touches(c, c2, b)
  PROVE  Fresh(c2, Last(o, b))
<1>1. PICK w \in Ways, l \in Line :
        /\ l.valid /\ l.tag = b
        /\ HasBlock(c, b, w) \/ (~Hit(c, b) /\ w = Victim(c, SetOf(b)))
        /\ c2.line = [c.line EXCEPT ![SetOf(b)][w] = l]
        /\ c2.age = Visited(c.age, SetOf(b), w)
  BY Zenon DEF Touches
<1>2. QED
  BY <1>1, TouchStaysFresh

(* Dropping a block keeps the others as fresh as they were. *)
LEMMA InvalidatedIsFresh ==
  ASSUME NEW c, NEW m, Good(c, m), NEW o, Fresh(c, o), NEW b \in Blocks
  PROVE  Fresh(Invalidate(c, b), Without(o, b))
<1> DEFINE c2 == Invalidate(c, b)
<1>1. o \subseteq Blocks \X Blocks /\ Ordered(Without(o, b))
  BY OrderedKept DEF Fresh, Ordered
<1>2. \A x, y \in Blocks : <<x, y>> \in Without(o, b) <=> <<x, y>> \in o /\ x # b /\ y # b
  BY <1>1, WithoutMembers
<1>3. c2.age = c.age /\ \A x \in Blocks, v \in Ways : HasBlock(c2, x, v) <=> x # b /\ HasBlock(c, x, v)
  <2>1. CASE ~Hit(c, b)
    BY <2>1 DEF Invalidate, Hit
  <2>2. CASE Hit(c, b)
    <3> DEFINE w == WayOf(c, b)
               l == Dropped(c.line[SetOf(b)][w])
    <3>1. w \in Ways /\ HasBlock(c, b, w) /\ SetOf(b) \in Sets /\ \A x \in Blocks : SetOf(x) \in Sets
      BY <2>2, WayOfHolds, SetOfType
    <3>2. c.line \in [Sets -> [Ways -> Line]] /\ c \in CacheState
      BY DEF Good, Typed, CacheState
    <3>3. c2 = [c EXCEPT !.line = [c.line EXCEPT ![SetOf(b)][w] = l]]
      BY <2>2, <3>1, <3>2 DEF Invalidate, CacheState
    <3>4. l.valid = FALSE
      BY <3>1, <3>2 DEF Dropped, Line
    <3>5. c.line[SetOf(b)][w].tag = b
      BY <3>1 DEF HasBlock
    <3>6. \A v \in Ways : HasBlock(c, b, v) => v = w
      BY <3>1, <3>5 DEF Good, Single, HasBlock
    <3> HIDE DEF w, l, c2
    <3>7. c2.age = c.age /\ c2.line = [c.line EXCEPT ![SetOf(b)][w] = l]
      BY <3>2, <3>3 DEF CacheState
    <3>8. ASSUME NEW x \in Blocks, NEW v \in Ways
          PROVE  HasBlock(c2, x, v) <=> x # b /\ HasBlock(c, x, v)
      <4>1. CASE SetOf(x) = SetOf(b) /\ v = w
        <5>1. c2.line[SetOf(x)][v] = l
          BY <4>1, <3>1, <3>2, <3>7
        <5>2. ~HasBlock(c2, x, v)
          BY <5>1, <3>4 DEF HasBlock
        <5>3. HasBlock(c, x, v) => x = b
          BY <4>1, <3>5 DEF HasBlock
        <5>4. QED
          BY <5>2, <5>3
      <4>2. CASE ~(SetOf(x) = SetOf(b) /\ v = w)
        <5>1. c2.line[SetOf(x)][v] = c.line[SetOf(x)][v]
          BY <4>2, <3>1, <3>2, <3>7
        <5>2. HasBlock(c2, x, v) <=> HasBlock(c, x, v)
          BY <5>1 DEF HasBlock
        <5>3. QED
          BY <5>2, <4>2, <3>6
      <4>3. QED
        BY <4>1, <4>2
    <3>9. QED
      BY <3>7, <3>8 DEF c2
  <2>3. QED
    BY <2>1, <2>2
<1> HIDE DEF c2
<1>4. \A x \in Blocks : Hit(c2, x) <=> x # b /\ Hit(c, x)
  BY <1>3 DEF Hit
<1>5. PlacedByOrder(c2, Without(o, b))
  <2>1. \A x \in Blocks : Hit(c2, x) => <<x, x>> \in Without(o, b)
    BY <1>2, <1>4 DEF Fresh, PlacedByOrder
  <2>2. ASSUME NEW x \in Blocks, NEW y \in Blocks, NEW v \in Ways, NEW w \in Ways,
               SetOf(x) = SetOf(y), HasBlock(c2, x, v), HasBlock(c2, y, w),
               c2.age[SetOf(x)][v] < c2.age[SetOf(x)][w]
        PROVE  <<y, x>> \in Without(o, b)
    <3>1. HasBlock(c, x, v) /\ HasBlock(c, y, w) /\ x # b /\ y # b
      BY <2>2, <1>3
    <3>2. <<y, x>> \in o
      BY <2>2, <3>1, <1>3 DEF Fresh, PlacedByOrder
    <3>3. QED
      BY <3>1, <3>2, <1>2
  <2>3. QED
    BY <2>1, <2>2 DEF PlacedByOrder
<1>6. Survives(c2, Without(o, b))
  BY <1>2, <1>4 DEF Fresh, Survives
<1>7. QED
  BY <1>1, <1>5, <1>6 DEF Fresh, c2

(* An empty cache is as fresh as can be. *)
LEMMA EmptyIsFresh ==
  ASSUME NEW c, \A s \in Sets, w \in Ways : ~c.line[s][w].valid
  PROVE  Fresh(c, {})
<1>1. \A x \in Blocks, w \in Ways : ~HasBlock(c, x, w)
  BY SetOfType DEF HasBlock
<1>2. \A x \in Blocks : ~Hit(c, x)
  BY <1>1 DEF Hit
<1>3. QED
  BY <1>1, <1>2 DEF Fresh, Ordered, PlacedByOrder, Survives

(* The invariant under which replacement goes by recency. *)
THEOREM FreshAlways == Spec => []Fresh(cache, order)
<1>1. Init => Fresh(cache, order)
  <2> SUFFICES ASSUME Init PROVE Fresh(cache, order)
    OBVIOUS
  <2>1. \A s \in Sets, w \in Ways : ~cache.line[s][w].valid
    BY DEF Init, New, EmptyLine
  <2>2. QED
    BY <2>1, EmptyIsFresh DEF Init
<1>2. Good(cache, mem) /\ Fresh(cache, order) /\ [Next]_cacheVars => Fresh(cache', order')
  <2> SUFFICES ASSUME Good(cache, mem), Fresh(cache, order), [Next]_cacheVars
               PROVE  Fresh(cache', order')
    OBVIOUS
  <2>1. \A b : Touch(b) = Last(order, b) /\ Forget(b) = Without(order, b)
    BY DEF Touch, Forget, Last, Without
  <2>2. ASSUME NEW b \in Blocks, NEW o \in Offsets, NEW n \in 1 .. BlockSize, DoRead(b, o, n)
        PROVE  Fresh(cache', order')
    BY <2>1, <2>2, ReadTouches, TouchedIsFresh DEF DoRead
  <2>3. ASSUME NEW b \in Blocks, NEW o \in Offsets, NEW n \in 1 .. BlockSize,
               NEW d \in [0 .. n - 1 -> Byte], DoWrite(b, o, n, d)
        PROVE  Fresh(cache', order')
    BY <2>1, <2>3, WriteTouches, TouchedIsFresh DEF DoWrite
  <2>4. ASSUME NEW b \in Blocks, DoInvalidate(b)
        PROVE  Fresh(cache', order')
    BY <2>1, <2>4, InvalidatedIsFresh DEF DoInvalidate
  <2>5. ASSUME NEW c2, c2.line = AllDropped(cache).line
        PROVE  Fresh(c2, {})
    <3>1. cache.line \in [Sets -> [Ways -> Line]] /\ cache \in CacheState
      BY DEF Good, Typed, CacheState
    <3>2. \A l \in Line : Dropped(l).valid = FALSE
      BY DEF Dropped, Line
    <3>3. AllDropped(cache).line = [s \in Sets |-> [w \in Ways |-> Dropped(cache.line[s][w])]]
      BY <3>1 DEF AllDropped, CacheState
    <3>4. \A s \in Sets, w \in Ways : ~c2.line[s][w].valid
      BY <2>5, <3>1, <3>2, <3>3
    <3>5. QED
      BY <3>4, EmptyIsFresh
  <2>6. DoFlush => Fresh(cache', order')
    BY <2>5 DEF DoFlush, Flush
  <2>7. DoReset => Fresh(cache', order')
    <3>1. Reset(cache).line = AllDropped(cache).line
      <4>1. AllDropped(cache) \in CacheState
        BY AllDroppedShape DEF Good, Typed
      <4>2. QED
        BY <4>1 DEF Reset, CacheState
    <3>2. QED
      BY <2>5, <3>1 DEF DoReset
  <2>8. UNCHANGED cacheVars => Fresh(cache', order')
    BY DEF cacheVars
  <2>9. QED
    BY <2>2, <2>3, <2>4, <2>6, <2>7, <2>8 DEF Next
<1>3. Good(cache, mem) /\ Fresh(cache, order) /\ [Next]_cacheVars => Fresh(cache, order)'
  BY <1>2
<1>4. QED
  BY <1>1, <1>3, GoodAlways, PTL DEF Spec

(* Replacement is by recency: a resident block has every block of its set that was *)
(* touched after it for company, whatever misses, evictions and invalidations ran.  *)
THEOREM FreshestSurvive == Spec => []SurvivorsAreFresher
<1>1. Fresh(cache, order) => SurvivorsAreFresher
  BY DEF Fresh, Survives, SurvivorsAreFresher
<1>2. QED
  BY <1>1, FreshAlways, PTL

===========================================================================
