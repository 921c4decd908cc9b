------------------------ MODULE HierarchyProofs ------------------------
(***************************************************************************)
(* CacheHierarchy: a cache over a cache is a layered memory, for every     *)
(* geometry of the two whose chunks stay in the blocks of the lower one.    *)
(* The lemmas of CacheProofs hold of each of the two caches.               *)
(***************************************************************************)
EXTENDS CacheHierarchy, WellFoundedInduction, TLAPS

\* The lemmas about a cache with the constants of the upper one, and of the lower one.
Over == INSTANCE CacheProofs WITH cache <- << >>, mem <- << >>, ret <- << >>, op <- << >>, order <- {}

Under == INSTANCE CacheProofs WITH NumSets <- LowerSets, Assoc <- LowerAssoc,
  BlockSize <- LowerBlockSize, NumBlocks <- LowerBlocks,
  cache <- << >>, mem <- << >>, ret <- << >>, op <- << >>, order <- {}

\* Every chunk of a block lies in one block of the lower cache.
ChunksFit ==
  \A b \in Blocks, k \in DOMAIN Chunks :
    LowerOffset(Address(b, Chunks[k])) + Length(Chunks[k]) <= LowerBlockSize

\* What the proof needs of the lower level l, and what it holds in blocks of either size.
LowGood(l) == l = [cache |-> l.cache, mem |-> l.mem] /\ Under!Good(l.cache, l.mem)
Held(l) == Lower!View(l.cache, l.mem)
BelowOf(l) ==
  [b \in Blocks |-> [o \in Offsets |->
     Held(l)[LowerBlock(Address(b, o))][LowerOffset(Address(b, o))]]]

---------------------------------------------------------------------------
(* Addresses.                                                              *)

(* Quotient and remainder of a natural number. *)
LEMMA Division ==
  ASSUME NEW a \in Nat, NEW d \in Nat \ {0}
  PROVE  a \div d \in Nat /\ a % d \in 0 .. d - 1 /\ a = d * (a \div d) + (a % d)
<1>1. a \div d \in Int /\ a % d \in 0 .. d - 1 /\ a = d * (a \div d) + (a % d)
  OBVIOUS
<1>2. a \div d >= 0
  <2> DEFINE q == a \div d
  <2>1. q \in Int /\ d * q > -d
    BY <1>1
  <2> HIDE DEF q
  <2>2. ~ (q <= -1)
    <3> SUFFICES ASSUME q <= -1 PROVE FALSE
      OBVIOUS
    <3>1. d * q <= d * (-1)
      BY <2>1
    <3>2. QED
      BY <2>1, <3>1
  <2>3. QED
    BY <2>1, <2>2 DEF q
<1>3. QED
  BY <1>1, <1>2

(* A number has one quotient and one remainder. *)
LEMMA DivisionUnique ==
  ASSUME NEW d \in Nat \ {0}, NEW p \in Int, NEW q \in Int, NEW r \in 0 .. d - 1,
         NEW s \in 0 .. d - 1, d * p + r = d * q + s
  PROVE  p = q /\ r = s
<1>1. ASSUME NEW x \in Int, NEW y \in Int, NEW u \in 0 .. d - 1, NEW v \in 0 .. d - 1,
             d * x + u = d * y + v, x < y
      PROVE  FALSE
  <2>1. d * y >= d * (x + 1)
    BY <1>1
  <2>2. d * (x + 1) = d * x + d
    OBVIOUS
  <2>3. d * x \in Int /\ d * y \in Int
    OBVIOUS
  <2>4. QED
    BY <1>1, <2>1, <2>2, <2>3
<1>2. ~ (p < q) /\ ~ (q < p)
  BY <1>1
<1>3. QED
  BY <1>2

(* The lower cache has a geometry. *)
LEMMA LowerGeometry ==
  /\ LowerSets \in Nat \ {0} /\ LowerAssoc \in Nat \ {0} /\ LowerBlockSize \in Nat \ {0}
  /\ LowerBlocks \in Nat \ {0} /\ Zero \in Byte
<1>1. NumBlocks * BlockSize \in Nat /\ NumBlocks * BlockSize # 0
  BY GeometryAssumption
<1>2. LowerBlocks \in Nat
  BY <1>1, HierarchyAssumption, Division DEF LowerBlocks
<1>3. LowerBlocks # 0
  BY <1>1, HierarchyAssumption
<1>4. QED
  BY <1>2, <1>3, HierarchyAssumption, GeometryAssumption

(* A byte of a block has a place in the lower cache, from which its address follows. *)
LEMMA Place ==
  ASSUME NEW b \in Blocks, NEW o \in Offsets
  PROVE  /\ Address(b, o) \in Nat
         /\ LowerBlock(Address(b, o)) \in Lower!Blocks
         /\ LowerOffset(Address(b, o)) \in Lower!Offsets
         /\ Address(b, o) = LowerBlockSize * LowerBlock(Address(b, o)) + LowerOffset(Address(b, o))
<1> DEFINE a == Address(b, o)
<1>1. b \in Nat /\ b <= NumBlocks - 1 /\ o \in Nat /\ o <= BlockSize - 1
  BY GeometryAssumption DEF Blocks, Offsets
<1>2. b * BlockSize \in Nat /\ b * BlockSize <= (NumBlocks - 1) * BlockSize
  BY <1>1, GeometryAssumption
<1>3. /\ (NumBlocks - 1) * BlockSize = NumBlocks * BlockSize - BlockSize
      /\ NumBlocks * BlockSize \in Nat
  BY GeometryAssumption
<1>4. a \in Nat /\ a < LowerBlocks * LowerBlockSize
  BY <1>1, <1>2, <1>3, GeometryAssumption, HierarchyAssumption DEF Address
<1> HIDE DEF a
<1>5. /\ a \div LowerBlockSize \in Nat /\ a % LowerBlockSize \in 0 .. LowerBlockSize - 1
      /\ a = LowerBlockSize * (a \div LowerBlockSize) + (a % LowerBlockSize)
  BY <1>4, LowerGeometry, Division
<1>6. a \div LowerBlockSize < LowerBlocks
  <2> DEFINE q == a \div LowerBlockSize
  <2> SUFFICES ASSUME q >= LowerBlocks PROVE FALSE
    BY <1>5, LowerGeometry
  <2>1. q \in Nat /\ LowerBlockSize * q <= a
    BY <1>5, LowerGeometry
  <2> HIDE DEF q
  <2>2. LowerBlockSize * q >= LowerBlockSize * LowerBlocks
    BY <2>1, LowerGeometry
  <2>3. QED
    BY <1>4, <2>1, <2>2, LowerGeometry
<1>7. QED
  BY <1>4, <1>5, <1>6, LowerGeometry DEF a, LowerBlock, LowerOffset, Lower!Blocks, Lower!Offsets

(* An address is of one block and one offset. *)
LEMMA AddressUnique ==
  ASSUME NEW b \in Blocks, NEW x \in Blocks, NEW o \in Offsets, NEW j \in Offsets,
         Address(b, o) = Address(x, j)
  PROVE  b = x /\ o = j
<1>1. b \in Int /\ x \in Int /\ BlockSize * b + o = BlockSize * x + j
  BY GeometryAssumption DEF Address, Blocks, Offsets
<1>2. QED
  BY <1>1, DivisionUnique, GeometryAssumption DEF Offsets

(* The chunks start one after the other and cover the block. *)
LEMMA ChunkShape ==
  /\ \E n \in Nat : DOMAIN Chunks = 1 .. n /\ BlockSize <= n * ChunkSize
  /\ \A k \in DOMAIN Chunks :
       /\ Chunks[k] = (k - 1) * ChunkSize
       /\ Chunks[k] \in Offsets /\ Length(Chunks[k]) \in 1 .. BlockSize
       /\ \A j \in Offsets : j \in Chunks[k] .. Chunks[k] + Length(Chunks[k]) - 1
                               <=> (k - 1) * ChunkSize <= j /\ j < k * ChunkSize
       /\ \A i \in 0 .. Length(Chunks[k]) - 1 : Chunks[k] + i \in Offsets
<1> DEFINE t == BlockSize + ChunkSize - 1
           n == t \div ChunkSize
<1>0. BlockSize \in Nat \ {0} /\ ChunkSize \in Nat \ {0} /\ t \in Nat
  BY GeometryAssumption, HierarchyAssumption
<1>1. n \in Nat /\ t = ChunkSize * n + (t % ChunkSize) /\ t % ChunkSize \in 0 .. ChunkSize - 1
  BY <1>0, Division
<1>2. DOMAIN Chunks = 1 .. n /\ \A k \in 1 .. n : Chunks[k] = (k - 1) * ChunkSize
  BY DEF Chunks
<1> HIDE DEF n
<1>3. ChunkSize * n \in Nat /\ n * ChunkSize = ChunkSize * n
  BY <1>0, <1>1
<1>4. BlockSize <= n * ChunkSize /\ n * ChunkSize <= BlockSize + ChunkSize - 1
  BY <1>0, <1>1, <1>3
<1>5. ASSUME NEW k \in 1 .. n
      PROVE  /\ Chunks[k] = (k - 1) * ChunkSize
             /\ Chunks[k] \in Offsets /\ Length(Chunks[k]) \in 1 .. BlockSize
             /\ \A j \in Offsets : j \in Chunks[k] .. Chunks[k] + Length(Chunks[k]) - 1
                                     <=> (k - 1) * ChunkSize <= j /\ j < k * ChunkSize
             /\ \A i \in 0 .. Length(Chunks[k]) - 1 : Chunks[k] + i \in Offsets
  <2> DEFINE o == (k - 1) * ChunkSize
  <2>1. o \in Nat /\ k * ChunkSize = o + ChunkSize
    BY <1>0, <1>1
  <2>2. k * ChunkSize <= n * ChunkSize
    BY <1>0, <1>1
  <2>3. Chunks[k] = o
    BY <1>2
  <2> HIDE DEF o
  <2>4. o <= BlockSize - 1
    BY <1>0, <1>3, <1>4, <2>1, <2>2
  <2>5. Length(o) = IF BlockSize - o > ChunkSize THEN ChunkSize ELSE BlockSize - o
    BY DEF Length
  <2>6. o \in Offsets /\ Length(o) \in 1 .. BlockSize
    BY <1>0, <2>1, <2>4, <2>5 DEF Offsets
  <2>7. \A j \in Offsets : j \in o .. o + Length(o) - 1 <=> o <= j /\ j < k * ChunkSize
    BY <1>0, <2>1, <2>4, <2>5 DEF Offsets
  <2>8. \A i \in 0 .. Length(o) - 1 : o + i \in Offsets
    BY <1>0, <2>1, <2>4, <2>5 DEF Offsets
  <2>9. QED
    BY <2>3, <2>6, <2>7, <2>8 DEF o
<1>6. QED
  BY <1>1, <1>2, <1>4, <1>5

(* The bytes of a chunk are one behind the other in one block of the lower cache. *)
LEMMA ChunkPlace ==
  ASSUME ChunksFit, NEW b \in Blocks, NEW k \in DOMAIN Chunks,
         NEW i \in 0 .. Length(Chunks[k]) - 1
  PROVE  /\ LowerBlock(Address(b, Chunks[k] + i)) = LowerBlock(Address(b, Chunks[k]))
         /\ LowerOffset(Address(b, Chunks[k] + i)) = LowerOffset(Address(b, Chunks[k])) + i
<1> DEFINE o == Chunks[k]
           a == Address(b, o)
<1>1. o \in Offsets /\ Length(o) \in Nat /\ o + i \in Offsets /\ i \in Nat /\ i <= Length(o) - 1
  BY ChunkShape DEF Offsets
<1>2. LowerOffset(a) + Length(o) <= LowerBlockSize
  BY DEF ChunksFit
<1> HIDE DEF o
<1>3. /\ LowerBlock(a) \in Lower!Blocks /\ LowerOffset(a) \in Lower!Offsets
      /\ a = LowerBlockSize * LowerBlock(a) + LowerOffset(a)
  BY <1>1, Place
<1> DEFINE e == Address(b, o + i)
<1>4. /\ LowerBlock(e) \in Lower!Blocks /\ LowerOffset(e) \in Lower!Offsets
      /\ e = LowerBlockSize * LowerBlock(e) + LowerOffset(e)
  BY <1>1, Place
<1>5. e = a + i
  BY <1>1, GeometryAssumption DEF Address, Blocks, Offsets
<1> HIDE DEF e, a
<1>6. LowerBlock(a) \in Int /\ LowerBlock(e) \in Int
  BY <1>3, <1>4, LowerGeometry DEF Lower!Blocks
<1>7. LowerOffset(a) + i \in 0 .. LowerBlockSize - 1 /\ LowerOffset(e) \in 0 .. LowerBlockSize - 1
  BY <1>1, <1>2, <1>3, <1>4, LowerGeometry DEF Lower!Offsets
<1>8. LowerBlockSize * LowerBlock(e) + LowerOffset(e)
        = LowerBlockSize * LowerBlock(a) + (LowerOffset(a) + i)
  <2>1. LowerBlockSize * LowerBlock(a) \in Int /\ LowerOffset(a) \in Int /\ i \in Int
    BY <1>1, <1>3, <1>6, LowerGeometry DEF Lower!Offsets
  <2>2. QED
    BY <1>3, <1>4, <1>5, <2>1
<1>9. LowerBlock(e) = LowerBlock(a) /\ LowerOffset(e) = LowerOffset(a) + i
  BY <1>6, <1>7, <1>8, LowerGeometry, DivisionUnique
<1>10. QED
  BY <1>9 DEF e, a, o

(* A byte whose place is among those of a chunk is a byte of the chunk. *)
LEMMA ElsewhereInPlace ==
  ASSUME ChunksFit, NEW b \in Blocks, NEW k \in DOMAIN Chunks,
         NEW x \in Blocks, NEW j \in Offsets, NEW i \in 0 .. Length(Chunks[k]) - 1,
         LowerBlock(Address(x, j)) = LowerBlock(Address(b, Chunks[k])),
         LowerOffset(Address(x, j)) = LowerOffset(Address(b, Chunks[k])) + i
  PROVE  x = b /\ j = Chunks[k] + i
<1>1. Chunks[k] + i \in Offsets
  BY ChunkShape
<1>2. /\ LowerBlock(Address(x, j)) = LowerBlock(Address(b, Chunks[k] + i))
      /\ LowerOffset(Address(x, j)) = LowerOffset(Address(b, Chunks[k] + i))
  BY ChunkPlace
<1>3. Address(x, j) = Address(b, Chunks[k] + i)
  BY <1>1, <1>2, Place
<1>4. QED
  BY <1>1, <1>3, AddressUnique

---------------------------------------------------------------------------
(* The operations of the two caches are those of CacheProofs.              *)

(* The data of the lower cache. *)
LEMMA LowerData ==
  /\ Lower!Blocks = Under!Blocks /\ Lower!Offsets = Under!Offsets
  /\ Lower!BlockData = Under!BlockData
  /\ Lower!New = Under!New /\ Lower!NoStore = Under!NoStore
  /\ \A data, o, n : Lower!extractData(data, o, n) = Under!extractData(data, o, n)
  /\ \A data, o, n, d : Lower!storeData(data, o, n, d) = Under!storeData(data, o, n, d)
  BY Zenon DEF Lower!Blocks, Under!Blocks, Lower!Offsets, Under!Offsets, Lower!BlockData,
    Under!BlockData, Lower!New, Under!New, Lower!EmptyLine, Under!EmptyLine, Lower!Sets,
    Under!Sets, Lower!Ways, Under!Ways, Lower!NoStore, Under!NoStore, Lower!extractData,
    Under!extractData, Lower!storeData, Under!storeData, Lower!Fits, Under!Fits

(* What the lower cache shows. *)
LEMMA LowerView ==
  ASSUME NEW c, NEW m
  PROVE  Lower!View(c, m) = Under!View(c, m)
  BY Zenon DEF Lower!View, Under!View, Lower!Blocks, Under!Blocks, Lower!Hit, Under!Hit,
    Lower!HasBlock, Under!HasBlock, Lower!SetOf, Under!SetOf, Lower!Ways, Under!Ways,
    Lower!WayOf, Under!WayOf

(* A read of the lower cache. *)
LEMMA LowerReads ==
  ASSUME NEW c, NEW m, NEW b, NEW o, NEW n
  PROVE  Lower!Read(c, m, b, o, n) = Under!Read(c, m, b, o, n)
  BY Zenon DEF Lower!Read, Under!Read, Lower!Hit, Under!Hit, Lower!HasBlock, Under!HasBlock,
    Lower!SetOf, Under!SetOf, Lower!Ways, Under!Ways, Lower!readHit, Under!readHit,
    Lower!handleMiss, Under!handleMiss, Lower!WayOf, Under!WayOf, Lower!Spilled, Under!Spilled,
    Lower!Victim, Under!Victim, Lower!Candidates, Under!Candidates, Lower!SetLine,
    Under!SetLine, Lower!Visited, Under!Visited, Lower!FilledLine, Under!FilledLine,
    Lower!extractData, Under!extractData, Lower!storeData, Under!storeData, Lower!Fits,
    Under!Fits, Lower!Offsets, Under!Offsets, Lower!NoStore, Under!NoStore,
    Lower!StoreForwardLatency, Under!StoreForwardLatency

(* A write of the lower cache. *)
LEMMA LowerWrites ==
  ASSUME NEW c, NEW m, NEW b, NEW o, NEW n, NEW d
  PROVE  Lower!Write(c, m, b, o, n, d) = Under!Write(c, m, b, o, n, d)
  BY Zenon DEF Lower!Write, Under!Write, Lower!Hit, Under!Hit, Lower!HasBlock, Under!HasBlock,
    Lower!SetOf, Under!SetOf, Lower!Ways, Under!Ways, Lower!writeHit, Under!writeHit,
    Lower!handleMiss, Under!handleMiss, Lower!WayOf, Under!WayOf, Lower!Spilled, Under!Spilled,
    Lower!Victim, Under!Victim, Lower!Candidates, Under!Candidates, Lower!SetLine,
    Under!SetLine, Lower!Visited, Under!Visited, Lower!FilledLine, Under!FilledLine,
    Lower!extractData, Under!extractData, Lower!storeData, Under!storeData, Lower!Fits,
    Under!Fits, Lower!Offsets, Under!Offsets

(* A flush of the lower cache. *)
LEMMA LowerFlushes ==
  ASSUME NEW c, NEW m
  PROVE  Lower!Flush(c, m) = Under!Flush(c, m)
  BY Zenon DEF Lower!Flush, Under!Flush, Lower!AllDropped, Under!AllDropped, Lower!Sets,
    Under!Sets, Lower!Ways, Under!Ways, Lower!Dropped, Under!Dropped, Lower!Blocks,
    Under!Blocks, Lower!DirtyBlocks, Under!DirtyBlocks, Lower!HasBlock, Under!HasBlock,
    Lower!SetOf, Under!SetOf, Lower!View, Under!View, Lower!Hit, Under!Hit, Lower!WayOf,
    Under!WayOf

(* The data of the upper cache. *)
LEMMA UpperData ==
  /\ Blocks = Over!Blocks /\ Offsets = Over!Offsets /\ BlockData = Over!BlockData
  /\ New = Over!New /\ NoStore = Over!NoStore
  /\ \A data, o, n : extractData(data, o, n) = Over!extractData(data, o, n)
  /\ \A data, o, n, d : storeData(data, o, n, d) = Over!storeData(data, o, n, d)
  BY Zenon DEF Blocks, Over!Blocks, Offsets, Over!Offsets, BlockData, Over!BlockData, New,
    Over!New, EmptyLine, Over!EmptyLine, Sets, Over!Sets, Ways, Over!Ways, NoStore,
    Over!NoStore, extractData, Over!extractData, storeData, Over!storeData, Fits, Over!Fits

(* What the upper cache shows. *)
LEMMA UpperView ==
  ASSUME NEW c, NEW m
  PROVE  View(c, m) = Over!View(c, m)
  BY Zenon DEF View, Over!View, Blocks, Over!Blocks, Hit, Over!Hit, HasBlock, Over!HasBlock,
    SetOf, Over!SetOf, Ways, Over!Ways, WayOf, Over!WayOf

(* A read of the upper cache. *)
LEMMA UpperReads ==
  ASSUME NEW c, NEW m, NEW b, NEW o, NEW n
  PROVE  Read(c, m, b, o, n) = Over!Read(c, m, b, o, n)
  BY Zenon DEF Read, Over!Read, Hit, Over!Hit, HasBlock, Over!HasBlock, SetOf, Over!SetOf, Ways,
    Over!Ways, readHit, Over!readHit, handleMiss, Over!handleMiss, WayOf, Over!WayOf, Spilled,
    Over!Spilled, Victim, Over!Victim, Candidates, Over!Candidates, SetLine, Over!SetLine,
    Visited, Over!Visited, FilledLine, Over!FilledLine, extractData, Over!extractData,
    storeData, Over!storeData, Fits, Over!Fits, Offsets, Over!Offsets, NoStore, Over!NoStore,
    StoreForwardLatency, Over!StoreForwardLatency

(* A write of the upper cache. *)
LEMMA UpperWrites ==
  ASSUME NEW c, NEW m, NEW b, NEW o, NEW n, NEW d
  PROVE  Write(c, m, b, o, n, d) = Over!Write(c, m, b, o, n, d)
  BY Zenon DEF Write, Over!Write, Hit, Over!Hit, HasBlock, Over!HasBlock, SetOf, Over!SetOf,
    Ways, Over!Ways, writeHit, Over!writeHit, handleMiss, Over!handleMiss, WayOf, Over!WayOf,
    Spilled, Over!Spilled, Victim, Over!Victim, Candidates, Over!Candidates, SetLine,
    Over!SetLine, Visited, Over!Visited, FilledLine, Over!FilledLine, extractData,
    Over!extractData, storeData, Over!storeData, Fits, Over!Fits, Offsets, Over!Offsets

(* What the upper cache drops. *)
LEMMA UpperDrops ==
  ASSUME NEW c
  PROVE  /\ AllDropped(c) = Over!AllDropped(c) /\ Reset(c) = Over!Reset(c)
         /\ \A b : Invalidate(c, b) = Over!Invalidate(c, b)
  BY Zenon DEF AllDropped, Over!AllDropped, Sets, Over!Sets, Ways, Over!Ways, Dropped,
    Over!Dropped, Reset, Over!Reset, New, Over!New, EmptyLine, Over!EmptyLine, Offsets,
    Over!Offsets, NoStore, Over!NoStore, Invalidate, Over!Invalidate, Hit, Over!Hit, HasBlock,
    Over!HasBlock, SetOf, Over!SetOf, WayOf, Over!WayOf

(* What CacheProofs shows of the operations of the lower cache. *)
LEMMA LowerReadEffect ==
  ASSUME NEW c, NEW m, Under!Good(c, m), NEW b \in Lower!Blocks, NEW o \in Lower!Offsets,
         NEW n \in 1 .. LowerBlockSize
  PROVE  LET r == Lower!Read(c, m, b, o, n)
         IN /\ Under!Good(r.cache, r.backing)
            /\ Lower!View(r.cache, r.backing) = Lower!View(c, m)
            /\ r.data = Lower!extractData(Lower!View(c, m)[b], o, n)
<1> DEFINE r == Under!Read(c, m, b, o, n)
<1>1. b \in Under!Blocks /\ o \in Under!Offsets
  BY LowerData
<1>2. /\ Under!Good(r.cache, r.backing) /\ Under!View(r.cache, r.backing) = Under!View(c, m)
      /\ r.data = Under!extractData(Under!View(c, m)[b], o, n)
  BY <1>1, Under!ReadEffect, LowerGeometry
<1>3. r = Lower!Read(c, m, b, o, n)
  BY LowerReads
<1> HIDE DEF r
<1>4. /\ Lower!View(r.cache, r.backing) = Lower!View(c, m)
      /\ r.data = Lower!extractData(Lower!View(c, m)[b], o, n)
  BY <1>2, LowerData, LowerView
<1>5. QED
  BY <1>2, <1>3, <1>4

LEMMA LowerWriteEffect ==
  ASSUME NEW c, NEW m, Under!Good(c, m), NEW b \in Lower!Blocks, NEW o \in Lower!Offsets,
         NEW n \in 1 .. LowerBlockSize, NEW d \in [0 .. n - 1 -> Byte]
  PROVE  LET r == Lower!Write(c, m, b, o, n, d)
         IN /\ Under!Good(r.cache, r.backing)
            /\ Lower!View(r.cache, r.backing)
                 = [Lower!View(c, m) EXCEPT ![b] = Lower!storeData(@, o, n, d)]
<1> DEFINE r == Under!Write(c, m, b, o, n, d)
<1>1. b \in Under!Blocks /\ o \in Under!Offsets
  BY LowerData
<1>2. /\ Under!Good(r.cache, r.backing)
      /\ Under!View(r.cache, r.backing)
           = [Under!View(c, m) EXCEPT ![b] = Under!storeData(@, o, n, d)]
  BY <1>1, Under!WriteEffect, LowerGeometry
<1>3. r = Lower!Write(c, m, b, o, n, d)
  BY LowerWrites
<1> HIDE DEF r
<1>4. Lower!View(r.cache, r.backing)
        = [Lower!View(c, m) EXCEPT ![b] = Lower!storeData(@, o, n, d)]
  BY <1>2, LowerData, LowerView
<1>5. QED
  BY <1>2, <1>3, <1>4

LEMMA LowerFlushEffect ==
  ASSUME NEW c, NEW m, Under!Good(c, m)
  PROVE  LET r == Lower!Flush(c, m)
         IN Under!Good(r.cache, r.backing) /\ Lower!View(r.cache, r.backing) = Lower!View(c, m)
<1> DEFINE r == Under!Flush(c, m)
<1>1. Under!Good(r.cache, r.backing) /\ Under!View(r.cache, r.backing) = Under!View(c, m)
  BY Under!FlushEffect, LowerGeometry
<1>2. r = Lower!Flush(c, m)
  BY LowerFlushes
<1> HIDE DEF r
<1>3. Lower!View(r.cache, r.backing) = Lower!View(c, m)
  BY <1>1, LowerView
<1>4. QED
  BY <1>1, <1>2, <1>3

(* An empty lower cache shows its memory. *)
LEMMA LowerNewEffect ==
  ASSUME NEW m \in [Lower!Blocks -> Lower!BlockData]
  PROVE  Under!Good(Lower!New, m) /\ Lower!View(Lower!New, m) = m
<1>1. m \in [Under!Blocks -> Under!BlockData]
  BY LowerData
<1>2. Under!Good(Under!New, m) /\ Under!View(Under!New, m) = m
  BY <1>1, Under!NewEffect, LowerGeometry
<1>3. Lower!View(Lower!New, m) = Under!View(Under!New, m)
  BY LowerData, LowerView
<1>4. QED
  BY <1>2, <1>3, LowerData

(* A lower level and what it holds. *)
LEMMA LowTypes ==
  ASSUME NEW l, LowGood(l)
  PROVE  /\ Held(l) \in [Lower!Blocks -> Lower!BlockData]
         /\ BelowOf(l) \in [Blocks -> BlockData]
<1>1. Under!Typed(l.cache, l.mem)
  BY DEF LowGood, Under!Good
<1>2. Under!View(l.cache, l.mem) \in [Under!Blocks -> Under!BlockData]
  BY <1>1, Under!ViewType, LowerGeometry
<1>3. Held(l) \in [Lower!Blocks -> Lower!BlockData]
  BY <1>2, LowerView, LowerData DEF Held
<1>4. ASSUME NEW b \in Blocks, NEW o \in Offsets
      PROVE  Held(l)[LowerBlock(Address(b, o))][LowerOffset(Address(b, o))] \in Byte
  BY <1>3, Place DEF Lower!BlockData
<1>5. QED
  BY <1>3, <1>4 DEF BelowOf, BlockData

(* Forgetting the recent store changes nothing else of the lower level. *)
LEMMA UntimedEffect ==
  ASSUME NEW r, Under!Good(r.cache, r.backing)
  PROVE  /\ LowGood(Untimed(r))
         /\ Held(Untimed(r)) = Lower!View(r.cache, r.backing)
<1> DEFINE c == [r.cache EXCEPT !.recent = Under!NoStore]
<1>1. NoStore = Under!NoStore
  BY Zenon DEF NoStore, Under!NoStore
<1>2. Under!NoStore \in (Under!Blocks \X Under!Offsets) \cup {Under!NoStore}
  OBVIOUS
<1>3. Under!Good(c, r.backing) /\ Under!View(c, r.backing) = Under!View(r.cache, r.backing)
  BY <1>2, Under!RecentIsSilent, LowerGeometry
<1>4. Untimed(r) = [cache |-> c, mem |-> r.backing]
  BY <1>1 DEF Untimed
<1> HIDE DEF c
<1>5. QED
  BY <1>3, <1>4, LowerView DEF LowGood, Held

---------------------------------------------------------------------------
(* One chunk.                                                              *)

\* The lower level s after the chunk of b at o was written to it.
WriteChunk(s, b, o, data) ==
  Untimed(Lower!Write(s.cache, s.mem, LowerBlock(Address(b, o)), LowerOffset(Address(b, o)),
                      Length(o), [i \in 0 .. Length(o) - 1 |-> data[o + i]]))

\* The lower level and the data read so far, s, after the chunk of b at o was read.
ReadChunk(s, b, o) ==
  LET r == Lower!Read(s.lower.cache, s.lower.mem, LowerBlock(Address(b, o)),
                      LowerOffset(Address(b, o)), Length(o))
  IN [lower |-> Untimed(r),
      data |-> [i \in Offsets |-> IF i \in o .. o + Length(o) - 1
                                    THEN r.data[i - o] ELSE s.data[i]]]

(* A chunk is an access of the lower cache that fits its block. *)
LEMMA ChunkAccess ==
  ASSUME ChunksFit, NEW b \in Blocks, NEW k \in DOMAIN Chunks
  PROVE  LET a == Address(b, Chunks[k])
             n == Length(Chunks[k])
         IN /\ LowerBlock(a) \in Lower!Blocks /\ LowerOffset(a) \in Lower!Offsets
            /\ n \in 1 .. LowerBlockSize
            /\ \A i \in 0 .. n - 1 : Lower!Fits(LowerOffset(a), n)
                                       /\ LowerOffset(a) + i \in Lower!Offsets
<1> DEFINE a == Address(b, Chunks[k])
           n == Length(Chunks[k])
<1>1. LowerBlock(a) \in Lower!Blocks /\ LowerOffset(a) \in Lower!Offsets /\ n \in Nat /\ n >= 1
  BY ChunkShape, Place
<1>2. LowerOffset(a) + n <= LowerBlockSize
  BY DEF ChunksFit
<1> HIDE DEF a, n
<1>3. QED
  BY <1>1, <1>2, LowerGeometry DEF Lower!Offsets, Lower!Fits, a, n

(* Reading a chunk gives its bytes and leaves what the lower level holds. *)
LEMMA ChunkReadEffect ==
  ASSUME ChunksFit, NEW b \in Blocks, NEW k \in DOMAIN Chunks, NEW s, LowGood(s.lower)
  PROVE  LET t == ReadChunk(s, b, Chunks[k])
         IN /\ LowGood(t.lower)
            /\ BelowOf(t.lower) = BelowOf(s.lower)
            /\ t.data = [j \in Offsets |->
                 IF j \in Chunks[k] .. Chunks[k] + Length(Chunks[k]) - 1
                   THEN BelowOf(s.lower)[b][j] ELSE s.data[j]]
<1> DEFINE o == Chunks[k]
           n == Length(o)
           q == LowerBlock(Address(b, o))
           f == LowerOffset(Address(b, o))
           r == Lower!Read(s.lower.cache, s.lower.mem, q, f, n)
<1>1. q \in Lower!Blocks /\ f \in Lower!Offsets /\ n \in 1 .. LowerBlockSize
  BY ChunkAccess
<1>2. Under!Good(s.lower.cache, s.lower.mem)
  BY DEF LowGood
<1>3. /\ Under!Good(r.cache, r.backing)
      /\ Lower!View(r.cache, r.backing) = Lower!View(s.lower.cache, s.lower.mem)
      /\ r.data = Lower!extractData(Lower!View(s.lower.cache, s.lower.mem)[q], f, n)
  BY <1>1, <1>2, LowerReadEffect
<1>4. ReadChunk(s, b, o)
        = [lower |-> Untimed(r),
           data |-> [j \in Offsets |-> IF j \in o .. o + n - 1 THEN r.data[j - o] ELSE s.data[j]]]
  BY Zenon DEF ReadChunk
<1> HIDE DEF r
<1>5. LowGood(Untimed(r)) /\ Held(Untimed(r)) = Held(s.lower)
  BY <1>3, UntimedEffect DEF Held
<1>6. BelowOf(Untimed(r)) = BelowOf(s.lower)
  BY <1>5 DEF BelowOf
<1>7. \A j \in Offsets : j \in o .. o + n - 1 => r.data[j - o] = BelowOf(s.lower)[b][j]
  <2> TAKE j \in Offsets
  <2> HAVE j \in o .. o + n - 1
  <2> DEFINE i == j - o
  <2>1. i \in 0 .. n - 1 /\ j = o + i
    BY <1>1, ChunkShape DEF Offsets
  <2>2. r.data[i] = Held(s.lower)[q][f + i]
    BY <1>1, <1>3, <2>1, ChunkAccess DEF Lower!extractData, Held
  <2>3. LowerBlock(Address(b, o + i)) = q /\ LowerOffset(Address(b, o + i)) = f + i
    BY <2>1, ChunkPlace
  <2> HIDE DEF i
  <2>4. r.data[i] = BelowOf(s.lower)[b][j]
    BY <2>1, <2>2, <2>3 DEF BelowOf
  <2>5. QED
    BY <2>4 DEF i
<1>8. QED
  BY <1>4, <1>5, <1>6, <1>7

\* The blocks m after the chunk k of b was written.
WithChunk(m, b, k, data) ==
  [x \in Blocks |-> [j \in Offsets |->
     IF x = b /\ j \in Chunks[k] .. Chunks[k] + Length(Chunks[k]) - 1
       THEN data[j] ELSE m[x][j]]]

(* Writing a chunk writes its bytes. *)
LEMMA ChunkWriteEffect ==
  ASSUME ChunksFit, NEW b \in Blocks, NEW k \in DOMAIN Chunks, NEW s, LowGood(s),
         NEW data \in BlockData
  PROVE  LET t == WriteChunk(s, b, Chunks[k], data)
         IN /\ LowGood(t)
            /\ BelowOf(t) = WithChunk(BelowOf(s), b, k, data)
<1> DEFINE o == Chunks[k]
           n == Length(o)
           q == LowerBlock(Address(b, o))
           f == LowerOffset(Address(b, o))
           d == [i \in 0 .. n - 1 |-> data[o + i]]
           r == Lower!Write(s.cache, s.mem, q, f, n, d)
<1>1. q \in Lower!Blocks /\ f \in Lower!Offsets /\ n \in 1 .. LowerBlockSize
  BY ChunkAccess
<1>2. d \in [0 .. n - 1 -> Byte]
  BY ChunkShape DEF BlockData
<1>3. Under!Good(s.cache, s.mem)
  BY DEF LowGood
<1>4. /\ Under!Good(r.cache, r.backing)
      /\ Lower!View(r.cache, r.backing)
           = [Lower!View(s.cache, s.mem) EXCEPT ![q] = Lower!storeData(@, f, n, d)]
  BY <1>1, <1>2, <1>3, LowerWriteEffect
<1>5. WriteChunk(s, b, o, data) = Untimed(r)
  BY Zenon DEF WriteChunk
<1> HIDE DEF r
<1>6. LowGood(Untimed(r)) /\ Held(Untimed(r)) = [Held(s) EXCEPT ![q] = Lower!storeData(@, f, n, d)]
  BY <1>4, UntimedEffect DEF Held
<1>7. Held(s) \in [Lower!Blocks -> Lower!BlockData]
  BY LowTypes
<1>8. ASSUME NEW p \in Lower!Blocks, NEW e \in Lower!Offsets
      PROVE  Held(Untimed(r))[p][e]
               = IF p = q /\ e \in f .. f + n - 1 THEN d[e - f] ELSE Held(s)[p][e]
  BY <1>1, <1>6, <1>7, ChunkAccess DEF Lower!storeData
<1>9. ASSUME NEW x \in Blocks, NEW j \in Offsets
      PROVE  BelowOf(Untimed(r))[x][j]
               = IF x = b /\ j \in o .. o + n - 1 THEN data[j] ELSE BelowOf(s)[x][j]
  <2> DEFINE p == LowerBlock(Address(x, j))
             e == LowerOffset(Address(x, j))
  <2>1. p \in Lower!Blocks /\ e \in Lower!Offsets
    BY Place
  <2>2. BelowOf(Untimed(r))[x][j] = Held(Untimed(r))[p][e] /\ BelowOf(s)[x][j] = Held(s)[p][e]
    BY DEF BelowOf
  <2>3. CASE x = b /\ j \in o .. o + n - 1
    <3> DEFINE i == j - o
    <3>1. i \in 0 .. n - 1 /\ j = o + i
      BY <1>1, <2>3, ChunkShape DEF Offsets
    <3>2. p = q /\ e = f + i
      BY <2>3, <3>1, ChunkPlace
    <3>3. e \in f .. f + n - 1 /\ e - f = i
      BY <1>1, <3>1, <3>2, LowerGeometry DEF Lower!Offsets
    <3>4. d[i] = data[j]
      BY <3>1
    <3> HIDE DEF p, e, i, d
    <3>5. QED
      BY <1>8, <2>1, <2>2, <2>3, <3>2, <3>3, <3>4
  <2>4. CASE ~ (x = b /\ j \in o .. o + n - 1)
    <3>1. ~ (p = q /\ e \in f .. f + n - 1)
      <4> SUFFICES ASSUME p = q, e \in f .. f + n - 1 PROVE FALSE
        OBVIOUS
      <4>1. e - f \in 0 .. n - 1 /\ e = f + (e - f)
        BY <1>1, <2>1, LowerGeometry DEF Lower!Offsets
      <4>2. x = b /\ j = o + (e - f)
        BY <4>1, ElsewhereInPlace
      <4>3. QED
        BY <1>1, <2>4, <4>1, <4>2, ChunkShape DEF Offsets
    <3> HIDE DEF p, e, d
    <3>2. QED
      BY <1>8, <2>1, <2>2, <2>4, <3>1
  <2>5. QED
    BY <2>3, <2>4
<1>10. BelowOf(Untimed(r)) = WithChunk(BelowOf(s), b, k, data)
  <2> DEFINE A == BelowOf(Untimed(r))
  <2>1. A = [x \in Blocks |-> [j \in Offsets |-> A[x][j]]]
    BY DEF BelowOf
  <2> HIDE DEF A
  <2>2. \A x \in Blocks, j \in Offsets :
          A[x][j] = IF x = b /\ j \in o .. o + n - 1 THEN data[j] ELSE BelowOf(s)[x][j]
    BY <1>9 DEF A
  <2>3. QED
    BY <2>1, <2>2 DEF A, WithChunk
<1>11. QED
  BY <1>5, <1>6, <1>10

---------------------------------------------------------------------------
(* The folds.                                                              *)

(* Induction, for a set. *)
LEMMA NatSet ==
  ASSUME NEW S, 0 \in S, \A n \in Nat : n \in S => n + 1 \in S
  PROVE  \A n \in Nat : n \in S
<1> DEFINE R == {p \in Nat \X Nat : p[1] < p[2]}
           bad == {n \in Nat : n \notin S}
<1> SUFFICES ASSUME bad # {} PROVE FALSE
  OBVIOUS
<1>1. IsWellFoundedOn(R, Nat)
  BY NatLessThanWellFounded DEF OpToRel
<1>2. bad \subseteq Nat /\ bad # {}
  OBVIOUS
<1> HIDE DEF bad
<1>3. PICK x \in bad : \A y \in bad : ~ (<<y, x>> \in R)
  BY <1>1, <1>2, WFMin
<1>4. x \in Nat /\ x # 0 /\ x \notin S
  BY <1>3 DEF bad
<1>5. x - 1 \in Nat /\ x - 1 < x /\ (x - 1) + 1 = x
  BY <1>4
<1>6. x - 1 \in bad
  BY <1>4, <1>5 DEF bad
<1>7. QED
  BY <1>3, <1>4, <1>5, <1>6

\* The lower level s after the k-th line of the upper cache was written back, if dirty.
FlushLine(s, k) ==
  LET l == upper.line[k \div Assoc][k % Assoc]
  IN IF l.valid /\ l.dirty THEN BackingWrite(s, l.tag, l.data) ELSE s

Places == [k \in 1 .. NumSets * Assoc |-> k - 1]

\* One step of each of the three folds.
Step(fold, s, k, b, data) ==
  IF fold = "write" THEN WriteChunk(s, b, Chunks[k], data)
  ELSE IF fold = "read" THEN ReadChunk(s, b, Chunks[k])
  ELSE FlushLine(s, Places[k])

\* f is the function that a fold of n steps from base recurs through.
Folded(f, fold, base, b, data, n) ==
  f = [s \in SUBSET (1 .. n) |->
         IF s = {} THEN base ELSE Step(fold, f[s \ {Max(s)}], Max(s), b, data)]

\* t is the trace of a fold of n steps from base to result.
Traced(t, fold, base, b, data, n, result) ==
  /\ t[0] = base /\ t[n] = result
  /\ \A k \in 1 .. n : t[k] = Step(fold, t[k - 1], k, b, data)

(* The greatest of a set that has the bound of its members. *)
LEMMA MaxIs ==
  ASSUME NEW n \in Nat, NEW s \in SUBSET (1 .. n), n \in s
  PROVE  Max(s) = n
<1>1. n \in s /\ \A y \in s : n >= y
  OBVIOUS
<1>2. \A x \in s : (\A y \in s : x >= y) => x = n
  OBVIOUS
<1>3. QED
  BY <1>1, <1>2 DEF Max

(* The function that a fold recurs through exists. *)
LEMMA FoldExists ==
  ASSUME NEW fold, NEW base, NEW b, NEW data, NEW n \in Nat
  PROVE  \E f : Folded(f, fold, base, b, data, n)
<1> DEFINE Fold(m, f) == Folded(f, fold, base, b, data, m)
           S == {m \in Nat : \E f : Fold(m, f)}
<1>1. 0 \in S
  <2> DEFINE f == [s \in SUBSET (1 .. 0) |-> base]
  <2>1. \A s \in SUBSET (1 .. 0) : s = {}
    OBVIOUS
  <2>2. Fold(0, f)
    BY <2>1 DEF Folded
  <2>3. QED
    BY <2>2
<1>2. ASSUME NEW m \in Nat, m \in S PROVE m + 1 \in S
  <2>1. PICK g : Fold(m, g)
    BY <1>2
  <2> DEFINE top == m + 1
             f == [s \in SUBSET (1 .. top) |->
                     IF top \in s THEN Step(fold, g[s \ {top}], top, b, data) ELSE g[s]]
  <2>2. ASSUME NEW s \in SUBSET (1 .. top)
        PROVE  f[s] = IF s = {} THEN base ELSE Step(fold, f[s \ {Max(s)}], Max(s), b, data)
    <3>1. CASE top \in s
      <4>1. Max(s) = top
        BY <3>1, MaxIs
      <4>2. s \ {top} \in SUBSET (1 .. top) /\ top \notin s \ {top} /\ s # {}
        BY <3>1
      <4>3. f[s \ {top}] = g[s \ {top}]
        BY <4>2
      <4>4. f[s] = Step(fold, g[s \ {top}], top, b, data)
        BY <3>1
      <4> HIDE DEF f
      <4>5. QED
        BY <4>1, <4>2, <4>3, <4>4
    <3>2. CASE top \notin s
      <4>0. \A x \in s : x \in 1 .. m
        BY <3>2
      <4>1. s \in SUBSET (1 .. m) /\ s \ {Max(s)} \in SUBSET (1 .. top) /\ top \notin s \ {Max(s)}
        BY <3>2, <4>0
      <4>2. f[s] = g[s] /\ f[s \ {Max(s)}] = g[s \ {Max(s)}]
        BY <3>2, <4>1
      <4>3. g[s] = IF s = {} THEN base ELSE Step(fold, g[s \ {Max(s)}], Max(s), b, data)
        BY <2>1, <4>1 DEF Folded
      <4> HIDE DEF f
      <4>4. QED
        BY <4>2, <4>3
    <3>3. QED
      BY <3>1, <3>2
  <2>3. f = [s \in SUBSET (1 .. top) |-> f[s]]
    OBVIOUS
  <2> HIDE DEF f
  <2>4. Fold(top, f)
    BY <2>2, <2>3 DEF Folded
  <2>5. QED
    BY <2>4
<1> HIDE DEF S
<1>3. n \in S
  BY <1>1, <1>2, NatSet
<1>4. QED
  BY <1>3 DEF S

(* The values a fold takes, one after the other. *)
LEMMA FoldTrace ==
  ASSUME NEW fold, NEW base, NEW b, NEW data, NEW n \in Nat, NEW f,
         Folded(f, fold, base, b, data, n)
  PROVE  \E t : Traced(t, fold, base, b, data, n, f[1 .. n])
<1> DEFINE t == [k \in 0 .. n |-> f[1 .. k]]
<1>1. t[0] = base /\ t[n] = f[1 .. n]
  <2>1. 1 .. 0 = {} /\ 1 .. 0 \in SUBSET (1 .. n)
    OBVIOUS
  <2>2. f[1 .. 0] = base
    BY <2>1 DEF Folded
  <2>3. 0 \in 0 .. n /\ n \in 0 .. n
    OBVIOUS
  <2>4. QED
    BY <2>2, <2>3
<1>2. ASSUME NEW k \in 1 .. n PROVE t[k] = Step(fold, t[k - 1], k, b, data)
  <2>1. 1 .. k \in SUBSET (1 .. n) /\ k \in 1 .. k /\ k \in Nat /\ k - 1 \in 0 .. n /\ k \in 0 .. n
    OBVIOUS
  <2>2. Max(1 .. k) = k
    BY <2>1, MaxIs
  <2>3. (1 .. k) \ {k} = 1 .. k - 1 /\ 1 .. k # {}
    BY <2>1
  <2>4. f[1 .. k] = Step(fold, f[1 .. k - 1], k, b, data)
    BY <2>1, <2>2, <2>3 DEF Folded
  <2>5. t[k] = f[1 .. k] /\ t[k - 1] = f[1 .. k - 1]
    BY <2>1
  <2>6. QED
    BY <2>4, <2>5
<1> HIDE DEF t
<1>3. Traced(t, fold, base, b, data, n, f[1 .. n])
  BY <1>1, <1>2 DEF Traced
<1>4. QED
  BY <1>3

(* BackingWrite writes one chunk after the other. *)
LEMMA WriteTrace ==
  ASSUME NEW l, NEW b, NEW data, NEW n \in Nat, DOMAIN Chunks = 1 .. n
  PROVE  \E t : /\ t[0] = l /\ t[n] = BackingWrite(l, b, data)
                /\ \A k \in 1 .. n : t[k] = WriteChunk(t[k - 1], b, Chunks[k], data)
<1> DEFINE start == l
           Body(f, s) == IF s = {} THEN start
                         ELSE WriteChunk(f[s \ {Max(s)}], b, Chunks[Max(s)], data)
           Other(f, s) == IF s = {} THEN start ELSE Step("write", f[s \ {Max(s)}], Max(s), b, data)
<1>1. BackingWrite(l, b, data)
        = (CHOOSE f : f = [s \in SUBSET DOMAIN Chunks |-> Body(f, s)])[DOMAIN Chunks]
  BY Zenon DEF BackingWrite, FoldLeft, MapThenFoldSet, WriteChunk
<1>2. \A s, k : Step("write", s, k, b, data) = WriteChunk(s, b, Chunks[k], data)
  BY Zenon DEF Step
<1>3. \A f, s : Body(f, s) = Other(f, s)
  BY <1>2
<1> HIDE DEF start
<1>4. PICK f : f = [s \in SUBSET (1 .. n) |-> Other(f, s)]
  <2>1. PICK f : Folded(f, "write", start, b, data, n)
    BY FoldExists
  <2>2. f = [s \in SUBSET (1 .. n) |-> Other(f, s)]
    BY Zenon, <2>1 DEF Folded
  <2>3. QED
    BY <2>2
<1> HIDE DEF Body, Other
<1>5. \E g : g = [s \in SUBSET DOMAIN Chunks |-> Body(g, s)]
  BY <1>3, <1>4
<1>6. PICK g : /\ g = [s \in SUBSET DOMAIN Chunks |-> Body(g, s)]
               /\ BackingWrite(l, b, data) = g[DOMAIN Chunks]
  BY <1>1, <1>5
<1>7. g = [s \in SUBSET (1 .. n) |-> Other(g, s)]
  BY <1>3, <1>6
<1>8. Folded(g, "write", start, b, data, n)
  BY Zenon, <1>7 DEF Folded, Other
<1>9. PICK t : Traced(t, "write", start, b, data, n, g[1 .. n])
  BY <1>8, FoldTrace
<1>10. t[0] = start /\ t[n] = g[1 .. n]
  BY Zenon, <1>9 DEF Traced
<1>11. \A k \in 1 .. n : t[k] = WriteChunk(t[k - 1], b, Chunks[k], data)
  BY Zenon, <1>2, <1>9 DEF Traced
<1>12. g[1 .. n] = BackingWrite(l, b, data)
  BY Zenon, <1>6
<1>13. QED
  BY Zenon, <1>10, <1>11, <1>12 DEF start

(* BackingRead reads one chunk after the other. *)
LEMMA ReadTrace ==
  ASSUME NEW l, NEW b, NEW n \in Nat, DOMAIN Chunks = 1 .. n
  PROVE  \E t : /\ t[0] = [lower |-> l, data |-> [i \in Offsets |-> Zero]]
                /\ t[n] = BackingRead(l, b)
                /\ \A k \in 1 .. n : t[k] = ReadChunk(t[k - 1], b, Chunks[k])
<1> DEFINE start == [lower |-> l, data |-> [i \in Offsets |-> Zero]]
           Body(f, s) == IF s = {} THEN start
                         ELSE ReadChunk(f[s \ {Max(s)}], b, Chunks[Max(s)])
           Other(f, s) == IF s = {} THEN start ELSE Step("read", f[s \ {Max(s)}], Max(s), b, l)
<1>1. BackingRead(l, b)
        = (CHOOSE f : f = [s \in SUBSET DOMAIN Chunks |-> Body(f, s)])[DOMAIN Chunks]
  BY Zenon DEF BackingRead, FoldLeft, MapThenFoldSet, ReadChunk
<1>2. \A s, k : Step("read", s, k, b, l) = ReadChunk(s, b, Chunks[k])
  BY Zenon DEF Step
<1>3. \A f, s : Body(f, s) = Other(f, s)
  BY <1>2
<1> HIDE DEF start
<1>4. PICK f : f = [s \in SUBSET (1 .. n) |-> Other(f, s)]
  <2>1. PICK f : Folded(f, "read", start, b, l, n)
    BY FoldExists
  <2>2. f = [s \in SUBSET (1 .. n) |-> Other(f, s)]
    BY Zenon, <2>1 DEF Folded
  <2>3. QED
    BY <2>2
<1> HIDE DEF Body, Other
<1>5. \E g : g = [s \in SUBSET DOMAIN Chunks |-> Body(g, s)]
  BY <1>3, <1>4
<1>6. PICK g : /\ g = [s \in SUBSET DOMAIN Chunks |-> Body(g, s)]
               /\ BackingRead(l, b) = g[DOMAIN Chunks]
  BY <1>1, <1>5
<1>7. g = [s \in SUBSET (1 .. n) |-> Other(g, s)]
  BY <1>3, <1>6
<1>8. Folded(g, "read", start, b, l, n)
  BY Zenon, <1>7 DEF Folded, Other
<1>9. PICK t : Traced(t, "read", start, b, l, n, g[1 .. n])
  BY <1>8, FoldTrace
<1>10. t[0] = start /\ t[n] = g[1 .. n]
  BY Zenon, <1>9 DEF Traced
<1>11. \A k \in 1 .. n : t[k] = ReadChunk(t[k - 1], b, Chunks[k])
  BY Zenon, <1>2, <1>9 DEF Traced
<1>12. g[1 .. n] = BackingRead(l, b)
  BY Zenon, <1>6
<1>13. QED
  BY Zenon, <1>10, <1>11, <1>12 DEF start

---------------------------------------------------------------------------
(* A block of the upper cache in the lower level.                          *)

(* BackingWrite puts the block into the lower level. *)
LEMMA BackingWriteEffect ==
  ASSUME ChunksFit, NEW l, LowGood(l), NEW b \in Blocks, NEW data \in BlockData
  PROVE  /\ LowGood(BackingWrite(l, b, data))
         /\ BelowOf(BackingWrite(l, b, data)) = [BelowOf(l) EXCEPT ![b] = data]
<1>1. PICK n \in Nat : DOMAIN Chunks = 1 .. n /\ BlockSize <= n * ChunkSize
  BY ChunkShape
<1>2. PICK t : /\ t[0] = l /\ t[n] = BackingWrite(l, b, data)
               /\ \A k \in 1 .. n : t[k] = WriteChunk(t[k - 1], b, Chunks[k], data)
  BY <1>1, WriteTrace
<1> DEFINE Part(k) == [x \in Blocks |-> [j \in Offsets |->
                         IF x = b /\ j < k * ChunkSize THEN data[j] ELSE BelowOf(l)[x][j]]]
           S == {k \in Nat : k <= n => LowGood(t[k]) /\ BelowOf(t[k]) = Part(k)}
<1>3. \A j \in Offsets : j \in Nat /\ j < BlockSize
  BY GeometryAssumption DEF Offsets
<1>4. BelowOf(l) \in [Blocks -> BlockData]
  BY LowTypes
<1>5. 0 \in S
  <2>1. \A j \in Offsets : ~ (j < 0 * ChunkSize)
    BY <1>3, HierarchyAssumption
  <2>2. Part(0) = [x \in Blocks |-> [j \in Offsets |-> BelowOf(l)[x][j]]]
    BY <2>1
  <2>3. BelowOf(l) = Part(0)
    BY <1>4, <2>2 DEF BlockData
  <2>4. QED
    BY <1>2, <2>3
<1>6. ASSUME NEW k \in Nat, k \in S PROVE k + 1 \in S
  <2> SUFFICES ASSUME k + 1 <= n
               PROVE  LowGood(t[k + 1]) /\ BelowOf(t[k + 1]) = Part(k + 1)
    OBVIOUS
  <2> DEFINE m == k + 1
  <2>1. m \in 1 .. n /\ m - 1 = k /\ m \in DOMAIN Chunks /\ k <= n
    BY <1>1
  <2>2. LowGood(t[k]) /\ BelowOf(t[k]) = Part(k)
    BY <1>6, <2>1
  <2>3. t[m] = WriteChunk(t[k], b, Chunks[m], data)
    BY <1>2, <2>1
  <2>4. k * ChunkSize \in Nat /\ m * ChunkSize = k * ChunkSize + ChunkSize /\ ChunkSize \in Nat
    BY HierarchyAssumption
  <2> HIDE DEF m
  <2>5. /\ LowGood(t[m])
        /\ BelowOf(t[m]) = WithChunk(BelowOf(t[k]), b, m, data)
    BY <2>1, <2>2, <2>3, ChunkWriteEffect
  <2>6. \A j \in Offsets : j \in Chunks[m] .. Chunks[m] + Length(Chunks[m]) - 1
                             <=> k * ChunkSize <= j /\ j < m * ChunkSize
    BY <2>1, ChunkShape
  <2>7. ASSUME NEW x \in Blocks, NEW j \in Offsets
        PROVE  (IF x = b /\ j \in Chunks[m] .. Chunks[m] + Length(Chunks[m]) - 1
                  THEN data[j] ELSE BelowOf(t[k])[x][j])
                 = IF x = b /\ j < m * ChunkSize THEN data[j] ELSE BelowOf(l)[x][j]
    <3>1. BelowOf(t[k])[x][j]
            = IF x = b /\ j < k * ChunkSize THEN data[j] ELSE BelowOf(l)[x][j]
      BY <2>2
    <3>2. j < m * ChunkSize <=> j < k * ChunkSize \/ (k * ChunkSize <= j /\ j < m * ChunkSize)
      BY <1>3, <2>4
    <3>3. QED
      BY <2>6, <3>1, <3>2
  <2>8. BelowOf(t[m]) = Part(m)
    BY <2>5, <2>7 DEF WithChunk
  <2>9. QED
    BY <2>5, <2>8 DEF m
<1> HIDE DEF S
<1>7. n \in S
  BY <1>5, <1>6, NatSet
<1>8. LowGood(t[n]) /\ BelowOf(t[n]) = Part(n)
  BY <1>7 DEF S
<1>9. Part(n) = [BelowOf(l) EXCEPT ![b] = data]
  <2>1. \A j \in Offsets : j < n * ChunkSize
    BY <1>1, <1>3, GeometryAssumption, HierarchyAssumption
  <2>2. Part(n) = [x \in Blocks |-> [j \in Offsets |-> IF x = b THEN data[j] ELSE BelowOf(l)[x][j]]]
    BY <2>1
  <2>3. \A x \in Blocks : [j \in Offsets |-> IF x = b THEN data[j] ELSE BelowOf(l)[x][j]]
                            = IF x = b THEN data ELSE BelowOf(l)[x]
    BY <1>4 DEF BlockData
  <2> HIDE DEF Part
  <2>4. Part(n) = [x \in Blocks |-> IF x = b THEN data ELSE BelowOf(l)[x]]
    BY <2>2, <2>3
  <2>5. QED
    BY <1>4, <2>4
<1>10. QED
  BY <1>2, <1>8, <1>9

(* BackingRead gives the block that the lower level holds, and leaves what it holds. *)
LEMMA BackingReadEffect ==
  ASSUME ChunksFit, NEW l, LowGood(l), NEW b \in Blocks
  PROVE  LET r == BackingRead(l, b)
         IN LowGood(r.lower) /\ BelowOf(r.lower) = BelowOf(l) /\ r.data = BelowOf(l)[b]
<1>1. PICK n \in Nat : DOMAIN Chunks = 1 .. n /\ BlockSize <= n * ChunkSize
  BY ChunkShape
<1>2. PICK t : /\ t[0] = [lower |-> l, data |-> [i \in Offsets |-> Zero]]
               /\ t[n] = BackingRead(l, b)
               /\ \A k \in 1 .. n : t[k] = ReadChunk(t[k - 1], b, Chunks[k])
  BY <1>1, ReadTrace
<1> DEFINE Part(k) == [j \in Offsets |-> IF j < k * ChunkSize THEN BelowOf(l)[b][j] ELSE Zero]
           S == {k \in Nat : k <= n => /\ LowGood(t[k].lower) /\ BelowOf(t[k].lower) = BelowOf(l)
                                       /\ t[k].data = Part(k)}
<1>3. \A j \in Offsets : j \in Nat /\ j < BlockSize
  BY GeometryAssumption DEF Offsets
<1>4. BelowOf(l)[b] \in [Offsets -> Byte]
  BY LowTypes DEF BlockData
<1>5. 0 \in S
  <2>1. \A j \in Offsets : ~ (j < 0 * ChunkSize)
    BY <1>3, HierarchyAssumption
  <2>2. Part(0) = [j \in Offsets |-> Zero]
    BY <2>1
  <2>3. QED
    BY <1>2, <2>2
<1>6. ASSUME NEW k \in Nat, k \in S PROVE k + 1 \in S
  <2> SUFFICES ASSUME k + 1 <= n
               PROVE  /\ LowGood(t[k + 1].lower) /\ BelowOf(t[k + 1].lower) = BelowOf(l)
                      /\ t[k + 1].data = Part(k + 1)
    OBVIOUS
  <2> DEFINE m == k + 1
  <2>1. m \in 1 .. n /\ m - 1 = k /\ m \in DOMAIN Chunks /\ k <= n
    BY <1>1
  <2>2. LowGood(t[k].lower) /\ BelowOf(t[k].lower) = BelowOf(l) /\ t[k].data = Part(k)
    BY <1>6, <2>1
  <2>3. t[m] = ReadChunk(t[k], b, Chunks[m])
    BY <1>2, <2>1
  <2>4. k * ChunkSize \in Nat /\ m * ChunkSize = k * ChunkSize + ChunkSize /\ ChunkSize \in Nat
    BY HierarchyAssumption
  <2> HIDE DEF m
  <2>5. /\ LowGood(t[m].lower) /\ BelowOf(t[m].lower) = BelowOf(l)
        /\ t[m].data = [j \in Offsets |->
             IF j \in Chunks[m] .. Chunks[m] + Length(Chunks[m]) - 1
               THEN BelowOf(l)[b][j] ELSE t[k].data[j]]
    BY <2>1, <2>2, <2>3, ChunkReadEffect
  <2>6. \A j \in Offsets : j \in Chunks[m] .. Chunks[m] + Length(Chunks[m]) - 1
                             <=> k * ChunkSize <= j /\ j < m * ChunkSize
    BY <2>1, ChunkShape
  <2>7. ASSUME NEW j \in Offsets
        PROVE  (IF j \in Chunks[m] .. Chunks[m] + Length(Chunks[m]) - 1
                  THEN BelowOf(l)[b][j] ELSE t[k].data[j])
                 = IF j < m * ChunkSize THEN BelowOf(l)[b][j] ELSE Zero
    <3>1. t[k].data[j] = IF j < k * ChunkSize THEN BelowOf(l)[b][j] ELSE Zero
      BY <2>2
    <3>2. j < m * ChunkSize <=> j < k * ChunkSize \/ (k * ChunkSize <= j /\ j < m * ChunkSize)
      BY <1>3, <2>4
    <3>3. QED
      BY <2>6, <3>1, <3>2
  <2>8. t[m].data = Part(m)
    BY <2>5, <2>7
  <2>9. QED
    BY <2>5, <2>8 DEF m
<1> HIDE DEF S
<1>7. n \in S
  BY <1>5, <1>6, NatSet
<1>8. LowGood(t[n].lower) /\ BelowOf(t[n].lower) = BelowOf(l) /\ t[n].data = Part(n)
  BY <1>7 DEF S
<1>9. Part(n) = BelowOf(l)[b]
  <2>1. \A j \in Offsets : j < n * ChunkSize
    BY <1>1, <1>3, GeometryAssumption, HierarchyAssumption
  <2>2. Part(n) = [j \in Offsets |-> BelowOf(l)[b][j]]
    BY <2>1
  <2>3. QED
    BY <1>4, <2>2
<1>10. QED
  BY <1>2, <1>8, <1>9

---------------------------------------------------------------------------
(* The upper cache over what the lower level holds.                        *)

(* The upper cache and the blocks m below it. *)
LEMMA UpperFacts ==
  ASSUME NEW c, NEW m, Over!Good(c, m)
  PROVE  /\ m \in [Blocks -> BlockData] /\ View(c, m) \in [Blocks -> BlockData]
         /\ \A s \in Sets, w \in Ways : c.line[s][w] \in Line
         /\ \A s \in Sets, w \in Ways : c.line[s][w].valid =>
              /\ SetOf(c.line[s][w].tag) = s
              /\ View(c, m)[c.line[s][w].tag] = c.line[s][w].data
              /\ ~c.line[s][w].dirty => c.line[s][w].data = m[c.line[s][w].tag]
         /\ \A b \in Blocks : ~Hit(c, b) => View(c, m)[b] = m[b]
         /\ \A s \in Sets : Victim(c, s) \in Ways
<1>1. Over!Typed(c, m) /\ Over!Single(c) /\ Over!Backed(c, m)
  BY DEF Over!Good
<1>2. /\ Sets = Over!Sets /\ Ways = Over!Ways /\ Blocks = Over!Blocks /\ BlockData = Over!BlockData
      /\ Line = Over!Line
  BY Zenon DEF Sets, Over!Sets, Ways, Over!Ways, Blocks, Over!Blocks, BlockData, Over!BlockData,
    Offsets, Over!Offsets, Line, Over!Line
<1>3. \A b : SetOf(b) = Over!SetOf(b) /\ Hit(c, b) = Over!Hit(c, b)
             /\ \A w : HasBlock(c, b, w) = Over!HasBlock(c, b, w)
  BY Zenon DEF SetOf, Over!SetOf, Hit, Over!Hit, HasBlock, Over!HasBlock, Ways, Over!Ways
<1>4. m \in [Blocks -> BlockData] /\ \A s \in Sets, w \in Ways : c.line[s][w] \in Line
  BY <1>1, <1>2 DEF Over!Typed, Over!CacheState
<1>5. View(c, m) \in [Blocks -> BlockData]
  BY <1>1, <1>2, Over!ViewType, UpperView, GeometryAssumption
<1>6. ASSUME NEW b \in Blocks
      PROVE  /\ \A v \in Ways : Over!HasBlock(c, b, v)
                                  => View(c, m)[b] = c.line[Over!SetOf(b)][v].data
             /\ ~Over!Hit(c, b) => View(c, m)[b] = m[b]
  BY <1>1, <1>2, Over!ViewOf, UpperView, GeometryAssumption
<1>7. ASSUME NEW s \in Sets, NEW w \in Ways, c.line[s][w].valid
      PROVE  /\ SetOf(c.line[s][w].tag) = s
             /\ View(c, m)[c.line[s][w].tag] = c.line[s][w].data
             /\ ~c.line[s][w].dirty => c.line[s][w].data = m[c.line[s][w].tag]
  <2>1. c.line[s][w].tag \in Blocks
    BY <1>4 DEF Line
  <2>2. Over!SetOf(c.line[s][w].tag) = s
    BY <1>1, <1>2, <1>7 DEF Over!Single
  <2>3. Over!HasBlock(c, c.line[s][w].tag, w)
    BY <1>7, <2>2 DEF Over!HasBlock
  <2>4. ~c.line[s][w].dirty => c.line[s][w].data = m[c.line[s][w].tag]
    BY <1>1, <1>2, <1>7 DEF Over!Backed
  <2>5. QED
    BY <1>3, <1>6, <2>1, <2>2, <2>3, <2>4
<1>8. \A s \in Sets : Victim(c, s) \in Ways
  <2>1. \A s \in Over!Sets : Over!Victim(c, s) \in Over!Ways
    BY <1>1, Over!VictimType, GeometryAssumption
  <2>2. \A s : Victim(c, s) = Over!Victim(c, s)
    BY Zenon DEF Victim, Over!Victim, Candidates, Over!Candidates, Ways, Over!Ways
  <2>3. QED
    BY <1>2, <2>1, <2>2
<1>9. \A b \in Blocks : ~Hit(c, b) => View(c, m)[b] = m[b]
  BY <1>3, <1>6
<1>10. QED
  BY <1>4, <1>5, <1>7, <1>8, <1>9

(* UpperFlush goes through the lines one after the other. *)
LEMMA FlushTrace ==
  ASSUME UpperFlush, NEW n \in Nat, n = NumSets * Assoc
  PROVE  \E t : /\ t[0] = lower /\ t[n] = lower'
                /\ \A k \in 1 .. n : t[k] = FlushLine(t[k - 1], k - 1)
<1> DEFINE Body(f, s) == IF s = {} THEN lower ELSE FlushLine(f[s \ {Max(s)}], Places[Max(s)])
           Other(f, s) == IF s = {} THEN lower
                          ELSE Step("flush", f[s \ {Max(s)}], Max(s), lower, lower)
<1>0. DOMAIN Places = 1 .. n /\ \A k \in 1 .. n : Places[k] = k - 1
  BY DEF Places
<1>1. lower' = (CHOOSE f : f = [s \in SUBSET DOMAIN Places |-> Body(f, s)])[DOMAIN Places]
  BY Zenon DEF UpperFlush, FoldLeft, MapThenFoldSet, FlushLine, Places
<1>2. \A s, k : Step("flush", s, k, lower, lower) = FlushLine(s, Places[k])
  BY Zenon DEF Step
<1>3. \A f, s : Body(f, s) = Other(f, s)
  BY <1>2
<1>4. PICK f : f = [s \in SUBSET (1 .. n) |-> Other(f, s)]
  <2>1. PICK f : Folded(f, "flush", lower, lower, lower, n)
    BY FoldExists
  <2>2. f = [s \in SUBSET (1 .. n) |-> Other(f, s)]
    BY Zenon, <2>1 DEF Folded
  <2>3. QED
    BY <2>2
<1> HIDE DEF Body, Other
<1>5. \E g : g = [s \in SUBSET DOMAIN Places |-> Body(g, s)]
  BY <1>0, <1>3, <1>4
<1>6. PICK g : g = [s \in SUBSET DOMAIN Places |-> Body(g, s)] /\ lower' = g[DOMAIN Places]
  BY <1>1, <1>5
<1>7. g = [s \in SUBSET (1 .. n) |-> Other(g, s)]
  BY <1>0, <1>3, <1>6
<1>8. Folded(g, "flush", lower, lower, lower, n)
  BY Zenon, <1>7 DEF Folded, Other
<1>9. PICK t : Traced(t, "flush", lower, lower, lower, n, g[1 .. n])
  BY <1>8, FoldTrace
<1>10. QED
  BY <1>0, <1>2, <1>6, <1>9 DEF Traced

(* The places of the lines are numbered. *)
LEMMA PlaceOfLine ==
  /\ NumSets * Assoc \in Nat
  /\ \A q \in 0 .. NumSets * Assoc - 1 : q \div Assoc \in Sets /\ q % Assoc \in Ways
  /\ \A s \in Sets, w \in Ways : \E q \in 0 .. NumSets * Assoc - 1 :
       q \div Assoc = s /\ q % Assoc = w
<1>1. NumSets * Assoc \in Nat /\ NumSets \in Nat \ {0} /\ Assoc \in Nat \ {0}
  BY GeometryAssumption
<1>2. ASSUME NEW q \in 0 .. NumSets * Assoc - 1
      PROVE  q \div Assoc \in Sets /\ q % Assoc \in Ways
  <2> DEFINE s == q \div Assoc
             w == q % Assoc
  <2>1. s \in Nat /\ w \in 0 .. Assoc - 1 /\ q = Assoc * s + w
    BY <1>1, <1>2, Division
  <2> HIDE DEF s, w
  <2>2. s < NumSets
    <3> SUFFICES ASSUME s >= NumSets PROVE FALSE
      BY <1>1, <2>1
    <3>1. Assoc * s >= Assoc * NumSets /\ Assoc * s \in Nat
      BY <1>1, <2>1
    <3>2. Assoc * NumSets = NumSets * Assoc
      BY <1>1
    <3>3. QED
      BY <1>1, <1>2, <2>1, <3>1, <3>2
  <2>3. QED
    BY <1>1, <2>1, <2>2 DEF Sets, Ways, s, w
<1>3. ASSUME NEW s \in Sets, NEW w \in Ways
      PROVE  \E q \in 0 .. NumSets * Assoc - 1 : q \div Assoc = s /\ q % Assoc = w
  <2> DEFINE q == Assoc * s + w
  <2>1. s \in Nat /\ s <= NumSets - 1 /\ w \in 0 .. Assoc - 1
    BY <1>1 DEF Sets, Ways
  <2>2. Assoc * s \in Nat /\ Assoc * s <= Assoc * (NumSets - 1)
    BY <1>1, <2>1
  <2>3. Assoc * (NumSets - 1) = NumSets * Assoc - Assoc
    BY <1>1
  <2>4. q \in 0 .. NumSets * Assoc - 1 /\ q \in Nat
    BY <1>1, <2>1, <2>2, <2>3
  <2> HIDE DEF q
  <2> DEFINE p == q \div Assoc
             r == q % Assoc
  <2>5. p \in Nat /\ r \in 0 .. Assoc - 1 /\ q = Assoc * p + r
    BY <1>1, <2>4, Division
  <2> HIDE DEF p, r
  <2>6. p \in Int /\ s \in Int /\ w \in 0 .. Assoc - 1 /\ Assoc * p + r = Assoc * s + w
    BY <2>1, <2>5 DEF q
  <2>7. p = s /\ r = w
    BY ONLY <1>1, <2>5, <2>6, DivisionUnique
  <2>8. QED
    BY <2>4, <2>7 DEF p, r
<1>4. QED
  BY <1>1, <1>2, <1>3

\* The k-th line of the upper cache has block x and has to be written back.
Dirty(q, x) ==
  LET l == upper.line[q \div Assoc][q % Assoc]
  IN l.valid /\ l.dirty /\ l.tag = x

(* Writing one line back takes its block to what the client sees. *)
LEMMA FlushLineEffect ==
  ASSUME ChunksFit, NEW m, Over!Good(upper, m), NEW s, LowGood(s),
         NEW q \in 0 .. NumSets * Assoc - 1
  PROVE  /\ LowGood(FlushLine(s, q))
         /\ BelowOf(FlushLine(s, q))
              = [x \in Blocks |-> IF Dirty(q, x) THEN View(upper, m)[x] ELSE BelowOf(s)[x]]
<1> DEFINE l == upper.line[q \div Assoc][q % Assoc]
<1>1. q \div Assoc \in Sets /\ q % Assoc \in Ways
  BY PlaceOfLine
<1>2. l \in Line /\ (l.valid => View(upper, m)[l.tag] = l.data)
  BY <1>1, UpperFacts
<1>3. FlushLine(s, q) = IF l.valid /\ l.dirty THEN BackingWrite(s, l.tag, l.data) ELSE s
  BY Zenon DEF FlushLine
<1>4. \A x : Dirty(q, x) <=> l.valid /\ l.dirty /\ l.tag = x
  BY DEF Dirty
<1>5. BelowOf(s) \in [Blocks -> BlockData]
  BY LowTypes
<1> HIDE DEF l
<1>6. CASE l.valid /\ l.dirty
  <2>1. l.tag \in Blocks /\ l.data \in BlockData
    BY <1>2 DEF Line
  <2>2. LowGood(FlushLine(s, q)) /\ BelowOf(FlushLine(s, q)) = [BelowOf(s) EXCEPT ![l.tag] = l.data]
    BY <1>3, <1>6, <2>1, BackingWriteEffect
  <2>3. QED
    BY <1>2, <1>4, <1>5, <1>6, <2>2
<1>7. CASE ~ (l.valid /\ l.dirty)
  BY <1>3, <1>4, <1>5, <1>7
<1>8. QED
  BY <1>6, <1>7

(* A flush of the upper cache takes every block below to what the client sees. *)
LEMMA UpperFlushEffect ==
  ASSUME ChunksFit, LowGood(lower), Over!Good(upper, BelowOf(lower)), UpperFlush
  PROVE  LowGood(lower') /\ BelowOf(lower') = View(upper, BelowOf(lower))
<1> DEFINE n == NumSets * Assoc
           m == BelowOf(lower)
           v == View(upper, m)
<1>1. n \in Nat
  BY PlaceOfLine
<1>2. PICK t : t[0] = lower /\ t[n] = lower' /\ \A k \in 1 .. n : t[k] = FlushLine(t[k - 1], k - 1)
  BY <1>1, FlushTrace
<1>3. m \in [Blocks -> BlockData] /\ v \in [Blocks -> BlockData]
  BY UpperFacts
<1>4. Over!Good(upper, m)
  OBVIOUS
<1> HIDE DEF m
<1> DEFINE Done(k, x) == \E q \in 0 .. k - 1 : Dirty(q, x)
           Part(k) == [x \in Blocks |-> IF Done(k, x) THEN v[x] ELSE m[x]]
           S == {k \in Nat : k <= n => LowGood(t[k]) /\ BelowOf(t[k]) = Part(k)}
<1> HIDE DEF n, v
<1>5. 0 \in S
  <2>1. \A x : ~Done(0, x)
    OBVIOUS
  <2>2. Part(0) = [x \in Blocks |-> m[x]]
    BY <2>1
  <2>3. QED
    BY <1>2, <1>3, <2>2 DEF m
<1>6. ASSUME NEW k \in Nat, k \in S PROVE k + 1 \in S
  <2> SUFFICES ASSUME k + 1 <= n
               PROVE  LowGood(t[k + 1]) /\ BelowOf(t[k + 1]) = Part(k + 1)
    OBVIOUS
  <2>1. k + 1 \in 1 .. n /\ (k + 1) - 1 = k /\ k <= n /\ k \in 0 .. n - 1
    BY <1>1
  <2>2. LowGood(t[k]) /\ BelowOf(t[k]) = Part(k)
    BY <1>6, <2>1
  <2>3. t[k + 1] = FlushLine(t[k], k)
    BY <1>2, <2>1
  <2>4. /\ LowGood(t[k + 1])
        /\ BelowOf(t[k + 1]) = [x \in Blocks |-> IF Dirty(k, x) THEN v[x] ELSE BelowOf(t[k])[x]]
    BY <1>4, <2>1, <2>2, <2>3, FlushLineEffect DEF n, v
  <2>5. \A x : Done(k + 1, x) <=> Dirty(k, x) \/ Done(k, x)
    <3>1. \A q : q \in 0 .. (k + 1) - 1 <=> q = k \/ q \in 0 .. k - 1
      OBVIOUS
    <3>2. QED
      BY <3>1
  <2> HIDE DEF Done
  <2>6. [x \in Blocks |-> IF Dirty(k, x) THEN v[x] ELSE BelowOf(t[k])[x]] = Part(k + 1)
    BY <2>2, <2>5
  <2>7. QED
    BY <2>4, <2>6
<1> HIDE DEF S
<1>7. n \in S
  BY <1>1, <1>5, <1>6, NatSet
<1>8. LowGood(t[n]) /\ BelowOf(t[n]) = Part(n)
  BY <1>1, <1>7 DEF S
<1>9. ASSUME NEW x \in Blocks, ~Done(n, x)
      PROVE  v[x] = m[x]
  <2>1. CASE Hit(upper, x)
    <3>1. SetOf(x) \in Sets
      BY GeometryAssumption DEF SetOf, Sets, Blocks
    <3>2. PICK w \in Ways : HasBlock(upper, x, w)
      BY <2>1 DEF Hit
    <3> DEFINE l == upper.line[SetOf(x)][w]
    <3>3. l.valid /\ l.tag = x
      BY <3>2 DEF HasBlock
    <3>4. PICK q \in 0 .. n - 1 : q \div Assoc = SetOf(x) /\ q % Assoc = w
      BY <3>1, PlaceOfLine DEF n
    <3>5. ~Dirty(q, x)
      BY <1>9, <3>4
    <3>6. ~l.dirty
      BY <3>3, <3>4, <3>5 DEF Dirty
    <3>7. v[l.tag] = l.data /\ l.data = m[l.tag]
      BY <1>4, <3>1, <3>3, <3>6, UpperFacts DEF v
    <3>8. QED
      BY <3>3, <3>7
  <2>2. CASE ~Hit(upper, x)
    BY <1>4, <2>2, UpperFacts DEF v
  <2>3. QED
    BY <2>1, <2>2
<1> HIDE DEF Done
<1>10. Part(n) = v
  BY <1>3, <1>9
<1>11. QED
  BY <1>2, <1>8, <1>10 DEF v, m

(* What a miss of b reaches below: what the write-back of the victim leaves there, *)
(* and with it the block.                                                          *)
LEMMA ServedEffect ==
  ASSUME ChunksFit, LowGood(lower), Over!Good(upper, BelowOf(lower)), NEW b \in Blocks
  PROVE  /\ LowGood(Served(b).lower)
         /\ BelowOf(Served(b).lower) = Spilled(upper, BelowOf(lower), b)
         /\ Served(b).data = Spilled(upper, BelowOf(lower), b)[b]
<1> DEFINE l == upper.line[SetOf(b)][Victim(upper, SetOf(b))]
           l1 == IF l.valid /\ l.dirty THEN BackingWrite(lower, l.tag, l.data) ELSE lower
<1>1. SetOf(b) \in Sets
  BY GeometryAssumption DEF SetOf, Sets, Blocks
<1>2. l \in Line
  BY <1>1, UpperFacts
<1>3. Spilled(upper, BelowOf(lower), b)
        = IF l.valid /\ l.dirty THEN [BelowOf(lower) EXCEPT ![l.tag] = l.data] ELSE BelowOf(lower)
  BY Zenon DEF Spilled
<1>4. Served(b) = BackingRead(l1, b)
  BY Zenon DEF Served
<1>5. LowGood(l1) /\ BelowOf(l1) = Spilled(upper, BelowOf(lower), b)
  <2> HIDE DEF l
  <2>1. CASE l.valid /\ l.dirty
    <3>1. l.tag \in Blocks /\ l.data \in BlockData
      BY <1>2 DEF Line
    <3>2. QED
      BY <1>3, <2>1, <3>1, BackingWriteEffect
  <2>2. CASE ~ (l.valid /\ l.dirty)
    BY <1>3, <2>2
  <2>3. QED
    BY <2>1, <2>2
<1> HIDE DEF l1
<1>6. QED
  BY <1>4, <1>5, BackingReadEffect

(* The victim of a miss is not the block that missed. *)
LEMMA VictimIsOther ==
  ASSUME NEW m, Over!Good(upper, m), NEW b \in Blocks, ~Hit(upper, b)
  PROVE  LET l == upper.line[SetOf(b)][Victim(upper, SetOf(b))] IN l.valid => l.tag # b
<1>1. Victim(upper, SetOf(b)) \in Ways
  <2>1. SetOf(b) \in Sets
    BY GeometryAssumption DEF SetOf, Sets, Blocks
  <2>2. QED
    BY <2>1, UpperFacts
<1>2. QED
  BY <1>1 DEF Hit, HasBlock

(* A miss over memory that holds only what it asks for is a miss over all of it. *)
LEMMA MissOver ==
  ASSUME NEW c, NEW m, Over!Good(c, m), NEW b \in Blocks, ~Hit(c, b),
         NEW k, k = [x \in Blocks |-> View(c, m)[b]],
         NEW isWrite, NEW o, NEW n, NEW d
  PROVE  /\ handleMiss(c, k, b, isWrite, o, n, d).cache
              = handleMiss(c, m, b, isWrite, o, n, d).cache
         /\ handleMiss(c, k, b, isWrite, o, n, d).data
              = handleMiss(c, m, b, isWrite, o, n, d).data
<1> DEFINE l == c.line[SetOf(b)][Victim(c, SetOf(b))]
<1>1. SetOf(b) \in Sets
  BY GeometryAssumption DEF SetOf, Sets, Blocks
<1>2. Victim(c, SetOf(b)) \in Ways
  BY <1>1, UpperFacts
<1>3. l.valid => l.tag # b
  BY <1>2 DEF Hit, HasBlock
<1>4. View(c, m)[b] = m[b] /\ m \in [Blocks -> BlockData]
  BY UpperFacts
<1>5. Spilled(c, m, b) = (IF l.valid /\ l.dirty THEN [m EXCEPT ![l.tag] = l.data] ELSE m)
      /\ Spilled(c, k, b) = (IF l.valid /\ l.dirty THEN [k EXCEPT ![l.tag] = l.data] ELSE k)
  BY Zenon DEF Spilled
<1>6. Spilled(c, m, b)[b] = View(c, m)[b] /\ Spilled(c, k, b)[b] = View(c, m)[b]
  BY <1>3, <1>4, <1>5
<1>7. FilledLine(Spilled(c, m, b), b, isWrite, o, n, d)
        = FilledLine(Spilled(c, k, b), b, isWrite, o, n, d)
  BY Zenon, <1>6 DEF FilledLine
<1>8. /\ handleMiss(c, k, b, isWrite, o, n, d).cache = handleMiss(c, m, b, isWrite, o, n, d).cache
      /\ handleMiss(c, k, b, isWrite, o, n, d).data = handleMiss(c, m, b, isWrite, o, n, d).data
  BY <1>7 DEF handleMiss
<1>9. QED
  BY <1>8

(* The block a miss gets from below is the client's, and the lower level is left with *)
(* what the miss leaves it.                                                           *)
LEMMA ReachedEffect ==
  ASSUME ChunksFit, LowGood(lower), Over!Good(upper, BelowOf(lower)), NEW b \in Blocks
  PROVE  /\ LowGood(Reached(b).lower)
         /\ Hit(upper, b) => BelowOf(Reached(b).lower) = BelowOf(lower)
         /\ ~Hit(upper, b) => /\ BelowOf(Reached(b).lower) = Spilled(upper, BelowOf(lower), b)
                              /\ Reached(b).data = View(upper, BelowOf(lower))[b]
<1> DEFINE m == BelowOf(lower)
<1>1. CASE Hit(upper, b)
  BY <1>1 DEF Reached
<1>2. CASE ~Hit(upper, b)
  <2>1. Reached(b) = Served(b)
    BY <1>2 DEF Reached
  <2>2. Over!Spilled(upper, m, b)[b] = Over!View(upper, m)[b]
    <3>1. b \in Over!Blocks /\ ~Over!Hit(upper, b)
      <4>1. Hit(upper, b) = Over!Hit(upper, b)
        BY Zenon DEF SetOf, Over!SetOf, Hit, Over!Hit, HasBlock, Over!HasBlock, Ways, Over!Ways
      <4>2. QED
        BY <1>2, <4>1, UpperData
    <3>2. QED
      BY <3>1, Over!SpilledElsewhere, GeometryAssumption
  <2>3. Spilled(upper, m, b) = Over!Spilled(upper, m, b)
    BY Zenon DEF Spilled, Over!Spilled, SetOf, Over!SetOf, Victim, Over!Victim, Candidates,
      Over!Candidates, Ways, Over!Ways
  <2>4. Spilled(upper, m, b)[b] = View(upper, m)[b]
    BY <2>2, <2>3, UpperView
  <2>5. QED
    BY <1>2, <2>1, <2>4, ServedEffect
<1>3. QED
  BY <1>1, <1>2

\* The upper cache is left without its recent store, and the rest as the access r leaves it.
Accessed(r) ==
  /\ upper' = [r.cache EXCEPT !.recent = NoStore]
  /\ LowGood(lower') /\ BelowOf(lower') = r.backing
  /\ ret' = r.data

(* A read is a read over what the lower level holds. *)
LEMMA ReadOver ==
  ASSUME ChunksFit, LowGood(lower), Over!Good(upper, BelowOf(lower)),
         NEW b \in Blocks, NEW o, NEW n, UpperRead(b, o, n)
  PROVE  Accessed(Read(upper, BelowOf(lower), b, o, n))
<1> DEFINE m == BelowOf(lower)
           k == [x \in Blocks |-> Reached(b).data]
<1>1. /\ upper' = [Read(upper, k, b, o, n).cache EXCEPT !.recent = NoStore]
      /\ lower' = Reached(b).lower /\ ret' = Read(upper, k, b, o, n).data
  BY Zenon DEF UpperRead, Access
<1>2. LowGood(lower')
  BY <1>1, ReachedEffect
<1>3. CASE Hit(upper, b)
  <2>1. BelowOf(lower') = m
    BY <1>1, <1>3, ReachedEffect
  <2> HIDE DEF k, m
  <2>2. /\ Read(upper, k, b, o, n) = readHit(upper, k, b, o, n)
        /\ Read(upper, m, b, o, n) = readHit(upper, m, b, o, n)
    BY Zenon, <1>3 DEF Read
  <2>3. /\ readHit(upper, k, b, o, n).cache = readHit(upper, m, b, o, n).cache
        /\ readHit(upper, k, b, o, n).data = readHit(upper, m, b, o, n).data
        /\ readHit(upper, m, b, o, n).backing = m
    BY DEF readHit
  <2>4. QED
    BY <1>1, <1>2, <2>1, <2>2, <2>3 DEF Accessed, m
<1>4. CASE ~Hit(upper, b)
  <2>1. BelowOf(lower') = Spilled(upper, m, b)
    BY <1>1, <1>4, ReachedEffect
  <2>2. k = [x \in Blocks |-> View(upper, m)[b]]
    BY <1>4, ReachedEffect
  <2>3. /\ handleMiss(upper, k, b, FALSE, o, n, << >>).cache
             = handleMiss(upper, m, b, FALSE, o, n, << >>).cache
        /\ handleMiss(upper, k, b, FALSE, o, n, << >>).data
             = handleMiss(upper, m, b, FALSE, o, n, << >>).data
    <3> DEFINE w == FALSE
               e == << >>
    <3>1. Over!Good(upper, m)
      OBVIOUS
    <3> HIDE DEF k, m, w, e
    <3>2. /\ handleMiss(upper, k, b, w, o, n, e).cache = handleMiss(upper, m, b, w, o, n, e).cache
          /\ handleMiss(upper, k, b, w, o, n, e).data = handleMiss(upper, m, b, w, o, n, e).data
      BY <1>4, <2>2, <3>1, MissOver
    <3>3. QED
      BY Zenon, <3>2 DEF w, e
  <2> HIDE DEF k, m
  <2>4. /\ Read(upper, k, b, o, n) = handleMiss(upper, k, b, FALSE, o, n, << >>)
        /\ Read(upper, m, b, o, n) = handleMiss(upper, m, b, FALSE, o, n, << >>)
    BY Zenon, <1>4 DEF Read
  <2>5. handleMiss(upper, m, b, FALSE, o, n, << >>).backing = Spilled(upper, m, b)
    BY DEF handleMiss
  <2>6. QED
    BY <1>1, <1>2, <2>1, <2>3, <2>4, <2>5 DEF Accessed, m
<1>5. QED
  BY <1>3, <1>4

(* A write is a write over what the lower level holds. *)
LEMMA WriteOver ==
  ASSUME ChunksFit, LowGood(lower), Over!Good(upper, BelowOf(lower)),
         NEW b \in Blocks, NEW o \in Offsets, NEW n, NEW d, UpperWrite(b, o, n, d)
  PROVE  Accessed(Write(upper, BelowOf(lower), b, o, n, d))
<1> DEFINE m == BelowOf(lower)
           k == [x \in Blocks |-> Reached(b).data]
           c == [upper EXCEPT !.recent = <<b, o>>]
<1>1. /\ upper' = [Write(upper, k, b, o, n, d).cache EXCEPT !.recent = NoStore]
      /\ lower' = Reached(b).lower /\ ret' = Write(upper, k, b, o, n, d).data
  BY Zenon DEF UpperWrite, Access
<1>2. LowGood(lower')
  BY <1>1, ReachedEffect
<1>3. Over!Good(c, m) /\ View(c, m) = View(upper, m) /\ (Hit(c, b) <=> Hit(upper, b))
  <2>1. <<b, o>> \in (Over!Blocks \X Over!Offsets) \cup {Over!NoStore} /\ b \in Over!Blocks
    BY UpperData
  <2>2. /\ Over!Good(c, m) /\ Over!View(c, m) = Over!View(upper, m)
        /\ \A x \in Over!Blocks : Over!Hit(c, x) <=> Over!Hit(upper, x)
    BY <2>1, Over!RecentIsSilent, GeometryAssumption
  <2> HIDE DEF c, m
  <2>3. Hit(c, b) = Over!Hit(c, b) /\ Hit(upper, b) = Over!Hit(upper, b)
    BY Zenon DEF SetOf, Over!SetOf, Hit, Over!Hit, HasBlock, Over!HasBlock, Ways, Over!Ways
  <2>4. QED
    BY <2>1, <2>2, <2>3, UpperView
<1>4. CASE Hit(upper, b)
  <2>1. BelowOf(lower') = m
    BY <1>1, <1>4, ReachedEffect
  <2>2. /\ Write(upper, k, b, o, n, d) = writeHit(c, k, b, o, n, d)
        /\ Write(upper, m, b, o, n, d) = writeHit(c, m, b, o, n, d)
    BY Zenon, <1>4 DEF Write
  <2> HIDE DEF k, m, c
  <2>3. /\ writeHit(c, k, b, o, n, d).cache = writeHit(c, m, b, o, n, d).cache
        /\ writeHit(c, k, b, o, n, d).data = writeHit(c, m, b, o, n, d).data
        /\ writeHit(c, m, b, o, n, d).backing = m
    BY DEF writeHit
  <2>4. QED
    BY <1>1, <1>2, <2>1, <2>2, <2>3 DEF Accessed, m
<1>5. CASE ~Hit(upper, b)
  <2>1. BelowOf(lower') = Spilled(upper, m, b)
    BY <1>1, <1>5, ReachedEffect
  <2>2. k = [x \in Blocks |-> View(c, m)[b]]
    BY <1>3, <1>5, ReachedEffect
  <2>3. /\ handleMiss(c, k, b, TRUE, o, n, d).cache = handleMiss(c, m, b, TRUE, o, n, d).cache
        /\ handleMiss(c, k, b, TRUE, o, n, d).data = handleMiss(c, m, b, TRUE, o, n, d).data
    <3>1. ~Hit(c, b)
      BY <1>3, <1>5
    <3> DEFINE w == TRUE
    <3> HIDE DEF c, k, m, w
    <3>2. /\ handleMiss(c, k, b, w, o, n, d).cache = handleMiss(c, m, b, w, o, n, d).cache
          /\ handleMiss(c, k, b, w, o, n, d).data = handleMiss(c, m, b, w, o, n, d).data
      BY <1>3, <2>2, <3>1, MissOver
    <3>3. QED
      BY Zenon, <3>2 DEF w
  <2>4. /\ Write(upper, k, b, o, n, d) = handleMiss(c, k, b, TRUE, o, n, d)
        /\ Write(upper, m, b, o, n, d) = handleMiss(c, m, b, TRUE, o, n, d)
    BY Zenon, <1>5 DEF Write
  <2>5. Spilled(c, m, b) = Spilled(upper, m, b)
    <3>1. c.line = upper.line /\ c.age = upper.age
      BY DEF Over!Good, Over!Typed, Over!CacheState
    <3> HIDE DEF c
    <3>2. Victim(c, SetOf(b)) = Victim(upper, SetOf(b))
      BY Zenon, <3>1 DEF Victim, Candidates
    <3>3. QED
      BY Zenon, <3>1, <3>2 DEF Spilled
  <2> HIDE DEF k, m, c
  <2>6. handleMiss(c, m, b, TRUE, o, n, d).backing = Spilled(c, m, b)
    BY DEF handleMiss
  <2>7. QED
    BY <1>1, <1>2, <2>1, <2>3, <2>4, <2>5, <2>6 DEF Accessed, m
<1>6. QED
  BY <1>4, <1>5

---------------------------------------------------------------------------
(* The theorem.                                                            *)

HierarchyGood == LowGood(lower) /\ Over!Good(upper, BelowOf(lower))

(* Blocks of either cache that are made of whole chunks fit. *)
LEMMA WholeChunksFit ==
  ASSUME NEW i \in Nat, NEW j \in Nat, BlockSize = ChunkSize * i, LowerBlockSize = ChunkSize * j
  PROVE  ChunksFit
<1> SUFFICES ASSUME NEW b \in Blocks, NEW k \in DOMAIN Chunks
             PROVE  LowerOffset(Address(b, Chunks[k])) + Length(Chunks[k]) <= LowerBlockSize
  BY DEF ChunksFit
<1> DEFINE o == Chunks[k]
           a == Address(b, o)
           q == LowerBlock(a)
           r == LowerOffset(a)
<1>1. k \in Nat /\ k >= 1 /\ o = (k - 1) * ChunkSize /\ o \in Offsets
  BY ChunkShape
<1>2. Length(o) \in Nat /\ Length(o) <= ChunkSize
  BY <1>1, GeometryAssumption, HierarchyAssumption DEF Length, Offsets
<1>3. q \in Nat /\ r \in 0 .. LowerBlockSize - 1 /\ a = LowerBlockSize * q + r
  BY <1>1, Place, LowerGeometry DEF Lower!Blocks, Lower!Offsets
<1>4. a = b * (ChunkSize * i) + (k - 1) * ChunkSize
  BY <1>1 DEF Address
<1> HIDE DEF a, q, r, o
<1> DEFINE m == b * i + (k - 1) - j * q
<1>5. m \in Int /\ b \in Nat /\ ChunkSize \in Nat \ {0}
  BY <1>1, <1>3, HierarchyAssumption DEF Blocks
<1>6. r = ChunkSize * m
  <2>1. b * (ChunkSize * i) = ChunkSize * (b * i)
    BY <1>5
  <2>2. (ChunkSize * j) * q = ChunkSize * (j * q)
    BY <1>3, <1>5
  <2>3. ChunkSize * m = ChunkSize * (b * i) + ChunkSize * (k - 1) - ChunkSize * (j * q)
    BY <1>1, <1>3, <1>5
  <2>4. r = a - ChunkSize * (j * q)
    BY <1>3, <1>5, <2>2
  <2>5. (k - 1) * ChunkSize = ChunkSize * (k - 1)
    BY <1>1, <1>5
  <2>6. QED
    BY <1>1, <1>3, <1>4, <1>5, <2>1, <2>3, <2>4, <2>5
<1> HIDE DEF m
<1>7. m < j
  <2> SUFFICES ASSUME m >= j PROVE FALSE
    BY <1>5
  <2>1. ChunkSize * m >= ChunkSize * j
    BY <1>5
  <2>2. QED
    BY <1>3, <1>6, <2>1, LowerGeometry
<1>8. ChunkSize * m <= ChunkSize * (j - 1)
  BY <1>5, <1>7
<1>9. ChunkSize * (j - 1) = ChunkSize * j - ChunkSize
  BY <1>5
<1>10. r + Length(o) <= LowerBlockSize
  BY <1>2, <1>3, <1>5, <1>6, <1>8, <1>9, LowerGeometry
<1>11. QED
  BY <1>10 DEF r, a, o

(* What the two caches hold together is what the lower level holds. *)
LEMMA BelowIs == Below = BelowOf(lower) /\ (Below = BelowOf(lower))'
  BY DEF Below, BelowOf, Held

(* Two empty caches are good, and the client sees the memory. *)
LEMMA HierarchyInit == Init => HierarchyGood /\ LM!MInit
<1> SUFFICES ASSUME Init PROVE HierarchyGood /\ LM!MInit
  OBVIOUS
<1>1. /\ upper = New /\ ret = << >> /\ op = << >>
      /\ lower = [cache |-> Lower!New, mem |-> lower.mem]
      /\ lower.mem \in [Lower!Blocks -> Lower!BlockData]
  BY DEF Init
<1>2. lower.cache = Lower!New
  BY <1>1
<1>3. Under!Good(lower.cache, lower.mem)
  BY <1>1, <1>2, LowerNewEffect
<1>4. LowGood(lower)
  BY <1>1, <1>2, <1>3 DEF LowGood
<1>5. BelowOf(lower) \in [Blocks -> BlockData]
  BY <1>4, LowTypes
<1>6. Over!Good(upper, BelowOf(lower)) /\ View(upper, BelowOf(lower)) = BelowOf(lower)
  <2>1. BelowOf(lower) \in [Over!Blocks -> Over!BlockData]
    BY <1>5, UpperData
  <2>2. /\ Over!Good(Over!New, BelowOf(lower))
        /\ Over!View(Over!New, BelowOf(lower)) = BelowOf(lower)
    BY <2>1, Over!NewEffect, GeometryAssumption
  <2>3. QED
    BY <1>1, <2>2, UpperData, UpperView
<1>7. LM!MInit
  BY <1>1, <1>5, <1>6, BelowIs DEF LM!MInit, LM!Image, LM!Blocks, LM!Offsets,
    Blocks, Offsets, BlockData
<1>8. QED
  BY <1>4, <1>6, <1>7 DEF HierarchyGood

(* After an access over what the lower level holds, forgetting the recent store. *)
LEMMA AccessedEffect ==
  ASSUME NEW r, Over!Good(r.cache, r.backing), Accessed(r)
  PROVE  HierarchyGood' /\ (View(upper, Below))' = View(r.cache, r.backing) /\ Below' = r.backing
<1> DEFINE c == [r.cache EXCEPT !.recent = NoStore]
<1>1. /\ upper' = c /\ LowGood(lower') /\ BelowOf(lower') = r.backing
  BY DEF Accessed
<1>2. Over!Good(c, r.backing) /\ Over!View(c, r.backing) = Over!View(r.cache, r.backing)
  <2>1. NoStore \in (Over!Blocks \X Over!Offsets) \cup {Over!NoStore}
    BY UpperData
  <2>2. QED
    BY <2>1, Over!RecentIsSilent, GeometryAssumption
<1> HIDE DEF c
<1>3. HierarchyGood'
  BY <1>1, <1>2 DEF HierarchyGood
<1>4. Below' = r.backing
  BY <1>1, BelowIs
<1>5. (View(upper, Below))' = View(upper', Below')
  BY Zenon DEF View, Hit, HasBlock, WayOf
<1>6. QED
  BY <1>1, <1>2, <1>3, <1>4, <1>5, UpperView

(* Every operation keeps both caches good and is an operation of the layered memory, *)
(* or does not show.                                                                *)
LEMMA HierarchyNext ==
  ASSUME ChunksFit, HierarchyGood, Next
  PROVE  HierarchyGood' /\ (LM!MNext \/ UNCHANGED LM!memVars)
<1> DEFINE m == BelowOf(lower)
           v == View(upper, m)
<1>0. /\ LowGood(lower) /\ Over!Good(upper, m) /\ Below = m
      /\ m \in [Blocks -> BlockData] /\ v \in [Blocks -> BlockData]
  BY BelowIs, LowTypes, UpperFacts DEF HierarchyGood
<1> USE DEF LM!Blocks, LM!Offsets
<1>1. ASSUME NEW b \in Blocks, NEW o \in Offsets, NEW n \in 1 .. BlockSize, UpperRead(b, o, n)
      PROVE  HierarchyGood' /\ LM!MNext
  <2> DEFINE r == Read(upper, m, b, o, n)
  <2>1. Accessed(r)
    BY <1>0, <1>1, ReadOver
  <2>2. /\ Over!Good(r.cache, r.backing) /\ View(r.cache, r.backing) = v
        /\ \E P \in SUBSET Blocks : r.backing = [x \in Blocks |-> IF x \in P THEN v[x] ELSE m[x]]
        /\ r.data = extractData(v[b], o, n)
    <3>1. b \in Over!Blocks /\ o \in Over!Offsets
      BY UpperData
    <3>2. LET q == Over!Read(upper, m, b, o, n)
          IN /\ Over!Good(q.cache, q.backing)
             /\ Over!View(q.cache, q.backing) = Over!View(upper, m)
             /\ Over!WrittenBack(upper, m, q.backing)
             /\ q.data = Over!extractData(Over!View(upper, m)[b], o, n)
      BY <1>0, <3>1, Over!ReadEffect, GeometryAssumption
    <3>3. r = Over!Read(upper, m, b, o, n)
      BY UpperReads
    <3> HIDE DEF r, m
    <3>4. QED
      BY <3>2, <3>3, UpperData, UpperView DEF Over!WrittenBack
  <2>3. HierarchyGood' /\ (View(upper, Below))' = v /\ Below' = r.backing
    BY <2>1, <2>2, AccessedEffect
  <2>4. ret' = r.data /\ op' = <<"read", b, o, n>>
    BY Zenon, <1>1, <2>1 DEF Accessed, UpperRead, Access
  <2> HIDE DEF r, m
  <2>5. LM!Bytes(v[b], o, n) = extractData(v[b], o, n)
    BY GeometryAssumption DEF LM!Bytes, extractData, Fits, Offsets
  <2>6. LM!MRead(b, o, n)
    BY <1>0, <2>2, <2>3, <2>4, <2>5 DEF LM!MRead, LM!Merge, Blocks
  <2>7. QED
    BY <2>3, <2>6 DEF LM!MNext, Blocks, Offsets
<1>2. ASSUME NEW b \in Blocks, NEW o \in Offsets, NEW n \in 1 .. BlockSize,
             NEW d \in [0 .. n - 1 -> Byte], UpperWrite(b, o, n, d)
      PROVE  HierarchyGood' /\ LM!MNext
  <2> DEFINE r == Write(upper, m, b, o, n, d)
  <2>1. Accessed(r)
    BY <1>0, <1>2, WriteOver
  <2>2. /\ Over!Good(r.cache, r.backing)
        /\ View(r.cache, r.backing) = [v EXCEPT ![b] = storeData(@, o, n, d)]
        /\ \E P \in SUBSET Blocks : r.backing = [x \in Blocks |-> IF x \in P THEN v[x] ELSE m[x]]
        /\ r.data = << >>
    <3>1. b \in Over!Blocks /\ o \in Over!Offsets
      BY UpperData
    <3>2. LET q == Over!Write(upper, m, b, o, n, d)
          IN /\ Over!Good(q.cache, q.backing)
             /\ Over!View(q.cache, q.backing)
                  = [Over!View(upper, m) EXCEPT ![b] = Over!storeData(@, o, n, d)]
             /\ Over!WrittenBack(upper, m, q.backing)
             /\ q.data = << >>
      BY <1>0, <3>1, Over!WriteEffect, GeometryAssumption
    <3>3. r = Over!Write(upper, m, b, o, n, d)
      BY UpperWrites
    <3> HIDE DEF r, m
    <3>4. QED
      BY <3>2, <3>3, UpperData, UpperView DEF Over!WrittenBack
  <2>3. HierarchyGood' /\ (View(upper, Below))' = [v EXCEPT ![b] = storeData(@, o, n, d)]
        /\ Below' = r.backing
    BY <2>1, <2>2, AccessedEffect
  <2>4. ret' = << >> /\ op' = <<"write", b, o, n, d>>
    <3>1. op' = <<"write", b, o, n, d>>
      BY Zenon, <1>2 DEF UpperWrite, Access
    <3>2. QED
      BY <2>1, <2>2, <3>1 DEF Accessed
  <2> HIDE DEF r, m
  <2>5. LM!Stored(v[b], o, n, d) = storeData(v[b], o, n, d)
    BY DEF LM!Stored, storeData, Fits, Offsets
  <2>6. LM!MWrite(b, o, n, d)
    BY <1>0, <2>2, <2>3, <2>4, <2>5 DEF LM!MWrite, LM!Merge, Blocks
  <2>7. QED
    BY <2>3, <2>6 DEF LM!MNext, Blocks, Offsets
<1>3. ASSUME UNCHANGED lower
      PROVE  LowGood(lower') /\ BelowOf(lower') = m /\ Below' = m
  BY <1>0, <1>3, BelowIs
<1>4. (View(upper, Below))' = View(upper', Below')
  BY Zenon DEF View, Hit, HasBlock, WayOf
<1>5. ASSUME NEW b \in Blocks, UpperInvalidate(b)
      PROVE  HierarchyGood' /\ LM!MNext
  <2>1. upper' = Invalidate(upper, b) /\ ret' = << >> /\ op' = <<"invalidate", b>> /\ lower' = lower
    BY <1>5 DEF UpperInvalidate
  <2>2. /\ Over!Good(upper', m)
        /\ View(upper', m) = [x \in Blocks |-> IF x \in {b} THEN m[x] ELSE v[x]]
    <3>1. b \in Over!Blocks
      BY UpperData
    <3>2. /\ Over!Good(Over!Invalidate(upper, b), m)
          /\ Over!View(Over!Invalidate(upper, b), m)
               = [x \in Over!Blocks |-> IF x \in {b} THEN m[x] ELSE Over!View(upper, m)[x]]
      BY <1>0, <3>1, Over!InvalidateEffect, GeometryAssumption
    <3> HIDE DEF m
    <3>3. QED
      BY <2>1, <3>2, UpperData, UpperDrops, UpperView
  <2>3. HierarchyGood'
    BY <1>3, <2>1, <2>2 DEF HierarchyGood
  <2>4. LM!MInvalidate(b)
    BY <1>0, <1>3, <1>4, <2>1, <2>2 DEF LM!MInvalidate, LM!Lost, LM!Merge, Blocks
  <2>5. QED
    BY <2>3, <2>4 DEF LM!MNext, Blocks
<1>6. CASE UpperFlush
  <2>1. upper' = AllDropped(upper) /\ ret' = << >> /\ op' = <<"flush">>
    BY Zenon, <1>6 DEF UpperFlush
  <2>2. LowGood(lower') /\ BelowOf(lower') = v /\ Below' = v
    BY <1>0, <1>6, UpperFlushEffect, BelowIs
  <2>3. Over!Good(upper', v) /\ View(upper', v) = v
    <3>1. v \in [Over!Blocks -> Over!BlockData]
      BY <1>0, UpperData
    <3>2. Over!AllDropped(upper) \in Over!CacheState /\ Over!Queued(Over!AllDropped(upper))
      <4>1. upper \in Over!CacheState /\ Over!Queued(upper)
        BY <1>0 DEF Over!Good, Over!Typed
      <4>2. QED
        BY <4>1, Over!AllDroppedShape, GeometryAssumption DEF Over!Queued
    <3>3. Over!Good(Over!AllDropped(upper), v) /\ Over!View(Over!AllDropped(upper), v) = v
      BY <1>0, <3>1, <3>2, Over!AllDroppedEffect, GeometryAssumption
    <3>4. QED
      BY <2>1, <3>3, UpperDrops, UpperView
  <2>4. HierarchyGood'
    BY <2>2, <2>3 DEF HierarchyGood
  <2>5. LM!MFlush
    BY <1>0, <1>4, <2>1, <2>2, <2>3 DEF LM!MFlush
  <2>6. QED
    BY <2>4, <2>5 DEF LM!MNext
<1>7. CASE UpperReset
  <2>1. upper' = Reset(upper) /\ ret' = << >> /\ op' = <<"reset">> /\ lower' = lower
    BY <1>7 DEF UpperReset
  <2>2. Over!Good(upper', m) /\ View(upper', m) = m
    <3>1. Over!Good(Over!Reset(upper), m) /\ Over!View(Over!Reset(upper), m) = m
      BY <1>0, Over!ResetEffect, GeometryAssumption
    <3>2. QED
      BY <2>1, <3>1, UpperDrops, UpperView
  <2>3. HierarchyGood'
    BY <1>3, <2>1, <2>2 DEF HierarchyGood
  <2>4. LM!Merge(LM!Blocks, m, v) = m
    BY <1>0 DEF LM!Merge, Blocks
  <2>5. LM!MReset
    BY <1>0, <1>3, <1>4, <2>1, <2>2, <2>4 DEF LM!MReset, LM!Lost
  <2>6. QED
    BY <2>3, <2>5 DEF LM!MNext
<1>8. CASE LowerFlush
  <2> DEFINE r == Lower!Flush(lower.cache, lower.mem)
  <2>1. lower' = [cache |-> r.cache, mem |-> r.backing] /\ upper' = upper /\ ret' = ret /\ op' = op
    BY <1>8 DEF LowerFlush
  <2>2. Under!Good(r.cache, r.backing) /\ Lower!View(r.cache, r.backing) = Held(lower)
    BY <1>0, LowerFlushEffect DEF LowGood, Held
  <2> HIDE DEF r
  <2>3. LowGood(lower') /\ Held(lower') = Held(lower)
    BY <2>1, <2>2 DEF LowGood, Held
  <2>4. BelowOf(lower') = m
    BY <2>3 DEF BelowOf
  <2>5. HierarchyGood'
    BY <1>0, <2>1, <2>3, <2>4 DEF HierarchyGood
  <2>6. Below' = Below /\ (View(upper, Below))' = View(upper, Below)
    BY <1>0, <1>4, <2>1, <2>4, BelowIs
  <2>7. UNCHANGED LM!memVars
    BY <2>1, <2>6 DEF LM!memVars
  <2>8. QED
    BY <2>5, <2>7
<1>9. QED
  BY <1>1, <1>2, <1>5, <1>6, <1>7, <1>8 DEF Next

(* Steps that change nothing. *)
LEMMA HierarchyStutter ==
  UNCHANGED hierarchyVars => (HierarchyGood => HierarchyGood') /\ UNCHANGED LM!memVars
<1> SUFFICES ASSUME UNCHANGED hierarchyVars
             PROVE  (HierarchyGood => HierarchyGood') /\ UNCHANGED LM!memVars
  OBVIOUS
<1>1. upper' = upper /\ lower' = lower /\ ret' = ret /\ op' = op
  BY DEF hierarchyVars
<1>2. Below' = Below
  BY <1>1, BelowIs
<1>3. (View(upper, Below))' = View(upper', Below')
  BY Zenon DEF View, Hit, HasBlock, WayOf
<1>4. QED
  BY <1>1, <1>2, <1>3 DEF HierarchyGood, LM!memVars

(* A write-back cache over another of any geometry promises what it promises over  *)
(* memory (the upper cache with its lower level is a layered memory, operation by   *)
(* operation: an upper Flush leaves all that the client sees below), if every      *)
(* chunk that CacheBacking moves lies in one block of the lower cache.             *)
THEOREM HierarchyRefinement ==
  ASSUME ChunksFit
  PROVE  HierarchySpec => HierarchyIsLayered
<1>1. HierarchyGood /\ [Next]_hierarchyVars => HierarchyGood' /\ [LM!MNext]_(LM!memVars)
  BY HierarchyNext, HierarchyStutter
<1>2. QED
  BY <1>1, HierarchyInit, PTL DEF HierarchySpec, HierarchyIsLayered, LM!MSpec
==========================================================================
