---------------------------- MODULE CacheOps ----------------------------
(***************************************************************************)
(* timing/cache/cache.go: the operations of type Cache as operators on a   *)
(* cache state `c' and the contents `m' of its backing store.              *)
(*                                                                         *)
(* A byte address is the pair (block b, offset o) that the code computes   *)
(* with addr / BlockSize and addr % BlockSize; the directory's tag is the  *)
(* block.  A word is the function from 0 .. size-1 to its bytes.           *)
(***************************************************************************)
EXTENDS Integers

CONSTANTS
  NumSets,      \* Size / (Associativity * BlockSize)
  Assoc,        \* Config.Associativity
  BlockSize,    \* Config.BlockSize
  NumBlocks,    \* blocks of the address space
  Byte,         \* values of a byte
  Zero,         \* the zero byte
  HitLatency,   \* Config.HitLatency
  MissLatency   \* Config.MissLatency

ASSUME GeometryAssumption ==
  /\ NumSets \in Nat \ {0}
  /\ Assoc \in Nat \ {0}
  /\ BlockSize \in Nat \ {0}
  /\ NumBlocks \in Nat \ {0}
  /\ Zero \in Byte

Sets == 0 .. NumSets - 1
Ways == 0 .. Assoc - 1
Blocks == 0 .. NumBlocks - 1
Offsets == 0 .. BlockSize - 1
BlockData == [Offsets -> Byte]

\* akita Block: the fields the code reads.
Line == [valid : BOOLEAN, dirty : BOOLEAN, tag : Blocks, data : BlockData]

NoStore == <<-1, -1>>
StoreForwardLatency == 1

\* line: the directory with its data store; age: the place of each way in its
\* set's LRU queue (0 is evicted first); recent: recentStoreAddr / recentStoreValid.
CacheState ==
  [line : [Sets -> [Ways -> Line]],
   age : [Sets -> [Ways -> Ways]],
   recent : (Blocks \X Offsets) \cup {NoStore}]

SetOf(b) == b % NumSets

EmptyLine == [valid |-> FALSE, dirty |-> FALSE, tag |-> 0,
              data |-> [o \in Offsets |-> Zero]]

New == [line |-> [s \in Sets |-> [w \in Ways |-> EmptyLine]],
        age |-> [s \in Sets |-> [w \in Ways |-> w]],
        recent |-> NoStore]

---------------------------------------------------------------------------
(* The directory (akita): lookup, LRU victim, LRU update.                  *)

HasBlock(c, b, w) == c.line[SetOf(b)][w].valid /\ c.line[SetOf(b)][w].tag = b

\* Mutation: a lookup that finds only dirty lines.
HitOnlyDirty(c, b) == \E w \in Ways : HasBlock(c, b, w) /\ c.line[SetOf(b)][w].dirty

Hit(c, b) == \E w \in Ways : HasBlock(c, b, w)

WayOf(c, b) == CHOOSE w \in Ways : HasBlock(c, b, w)

\* The ways FindVictim chooses from: the invalid ones, all when there is none.
Candidates(c, s) ==
  LET free == {w \in Ways : ~c.line[s][w].valid} IN IF free = {} THEN Ways ELSE free

\* Mutation: evict the most recently used way.
VictimFreshest(c, s) ==
  CHOOSE w \in Candidates(c, s) : \A v \in Candidates(c, s) : c.age[s][w] >= c.age[s][v]

\* The first invalid way of the LRU queue, else its head.
Victim(c, s) ==
  CHOOSE w \in Candidates(c, s) : \A v \in Candidates(c, s) : c.age[s][w] <= c.age[s][v]

\* Mutation: the visited way is put one place past the end of the queue.
VisitedPastEnd(age, s, w) == [age EXCEPT ![s][w] = Assoc]

\* Move way w of set s to the back of the queue.
Visited(age, s, w) ==
  [age EXCEPT ![s] = [v \in Ways |-> IF v = w THEN Assoc - 1
                                     ELSE IF @[v] > @[w] THEN @[v] - 1 ELSE @[v]]]

---------------------------------------------------------------------------
(* Data movement.                                                          *)

Fits(o, n) == o + n <= BlockSize

extractData(data, o, n) == [i \in 0 .. n - 1 |-> IF Fits(o, n) THEN data[o + i] ELSE Zero]

storeData(data, o, n, d) ==
  [i \in Offsets |-> IF Fits(o, n) /\ i \in o .. o + n - 1 THEN d[i - o] ELSE data[i]]

SetLine(c, s, w, l) ==
  [c EXCEPT !.line[s][w] = l, !.age = Visited(c.age, s, w)]

\* Mutation: a dirty victim is not written back.
SpilledNowhere(c, m, b) == m

\* The backing store after the victim of b's set was written back, if it has to be.
Spilled(c, m, b) ==
  LET l == c.line[SetOf(b)][Victim(c, SetOf(b))]
  IN IF l.valid /\ l.dirty THEN [m EXCEPT ![l.tag] = l.data] ELSE m

---------------------------------------------------------------------------
(* Read, Write and handleMiss.                                             *)

\* Mutation: write-allocate forgets to set the dirty bit.
FilledLineClean(m, b, isWrite, o, n, d) ==
  [valid |-> TRUE, dirty |-> FALSE, tag |-> b,
   data |-> IF isWrite THEN storeData(m[b], o, n, d) ELSE m[b]]

\* The line handleMiss leaves in the victim way.
FilledLine(m, b, isWrite, o, n, d) ==
  [valid |-> TRUE, dirty |-> isWrite, tag |-> b,
   data |-> IF isWrite THEN storeData(m[b], o, n, d) ELSE m[b]]

handleMiss(c, m, b, isWrite, o, n, d) ==
  LET m1 == Spilled(c, m, b)
      l == FilledLine(m1, b, isWrite, o, n, d)
  IN [cache |-> SetLine(c, SetOf(b), Victim(c, SetOf(b)), l),
      backing |-> m1, hit |-> FALSE, latency |-> MissLatency,
      data |-> IF isWrite THEN << >> ELSE extractData(l.data, o, n)]

readHit(c, m, b, o, n) ==
  LET w == WayOf(c, b)
      l == c.line[SetOf(b)][w]
      forwarded == c.recent = <<b, o>>
  IN [cache |-> [SetLine(c, SetOf(b), w, l) EXCEPT
                   !.recent = IF forwarded THEN NoStore ELSE @],
      backing |-> m, hit |-> TRUE,
      latency |-> HitLatency + (IF forwarded THEN StoreForwardLatency ELSE 0),
      data |-> extractData(l.data, o, n)]

writeHit(c, m, b, o, n, d) ==
  LET w == WayOf(c, b)
      l == c.line[SetOf(b)][w]
  IN [cache |-> SetLine(c, SetOf(b), w,
                        [l EXCEPT !.data = storeData(@, o, n, d), !.dirty = TRUE]),
      backing |-> m, hit |-> TRUE, latency |-> HitLatency, data |-> << >>]

Read(c, m, b, o, n) ==
  IF Hit(c, b) THEN readHit(c, m, b, o, n) ELSE handleMiss(c, m, b, FALSE, o, n, << >>)

Write(c, m, b, o, n, d) ==
  LET c1 == [c EXCEPT !.recent = <<b, o>>]
  IN IF Hit(c, b) THEN writeHit(c1, m, b, o, n, d)
                  ELSE handleMiss(c1, m, b, TRUE, o, n, d)

---------------------------------------------------------------------------
(* Invalidate, Flush and Reset.                                            *)

Dropped(l) == [l EXCEPT !.valid = FALSE, !.dirty = FALSE]

Invalidate(c, b) ==
  IF Hit(c, b) THEN [c EXCEPT !.line[SetOf(b)][WayOf(c, b)] = Dropped(@)] ELSE c

\* The contents a client sees: the cached line of a block, else the backing store.
View(c, m) ==
  [b \in Blocks |-> IF Hit(c, b) THEN c.line[SetOf(b)][WayOf(c, b)].data ELSE m[b]]

\* The blocks Flush writes back.
DirtyBlocks(c) ==
  {b \in Blocks : \E w \in Ways : HasBlock(c, b, w) /\ c.line[SetOf(b)][w].dirty}

AllDropped(c) == [c EXCEPT !.line = [s \in Sets |-> [w \in Ways |-> Dropped(@[s][w])]]]

\* Mutation: the dirty lines are dropped without a write-back.
FlushForgets(c, m) == [cache |-> AllDropped(c), backing |-> m]

Flush(c, m) ==
  [cache |-> AllDropped(c),
   backing |-> [b \in Blocks |-> IF b \in DirtyBlocks(c) THEN View(c, m)[b] ELSE m[b]]]

Reset(c) == [AllDropped(c) EXCEPT !.age = New.age, !.recent = NoStore]
===========================================================================
