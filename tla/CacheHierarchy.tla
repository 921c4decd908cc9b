-------------------------- MODULE CacheHierarchy --------------------------
(***************************************************************************)
(* timing/cache: a Cache whose backing store is another Cache, through      *)
(* CacheBacking (L1 over L2 over memory).  A block of the upper cache moves  *)
(* as a sequence of accesses of at most ChunkSize bytes to the lower one,    *)
(* each of them a hit or a miss there, with evictions of its own.           *)
(*                                                                         *)
(* The upper cache has the constants of CacheOps, the lower one its own.    *)
(* Latencies, and with them the recent store, are left out.                 *)
(***************************************************************************)
EXTENDS CacheOps, SequencesExt

CONSTANTS LowerSets, LowerAssoc, LowerBlockSize,   \* the geometry of the lower cache
          ChunkSize                                \* bytes CacheBacking moves at once

LowerBlocks == (NumBlocks * BlockSize) \div LowerBlockSize

ASSUME HierarchyAssumption ==
  /\ LowerSets \in Nat \ {0} /\ LowerAssoc \in Nat \ {0} /\ LowerBlockSize \in Nat \ {0}
  /\ ChunkSize \in Nat \ {0}
  /\ NumBlocks * BlockSize = LowerBlocks * LowerBlockSize

Lower == INSTANCE CacheOps WITH NumSets <- LowerSets, Assoc <- LowerAssoc,
                                BlockSize <- LowerBlockSize, NumBlocks <- LowerBlocks

VARIABLES
  upper,   \* the cache the client uses
  lower,   \* its backing store: the other cache (cache), over memory (mem)
  ret,     \* data of the last operation's AccessResult
  op       \* auxiliary: the operation the client asked for last, with its arguments

hierarchyVars == <<upper, lower, ret, op>>

---------------------------------------------------------------------------
(* CacheBacking                                                            *)

Address(b, o) == b * BlockSize + o
LowerBlock(a) == a \div LowerBlockSize
LowerOffset(a) == a % LowerBlockSize

\* The offsets at which the chunks of a block start, and how long the one at o is.
Chunks == [k \in 1 .. (BlockSize + ChunkSize - 1) \div ChunkSize |-> (k - 1) * ChunkSize]
Length(o) == IF BlockSize - o > ChunkSize THEN ChunkSize ELSE BlockSize - o

Untimed(r) == [cache |-> [r.cache EXCEPT !.recent = NoStore], mem |-> r.backing]

\* The lower level l after the block b was written to it.
BackingWrite(l, b, data) ==
  FoldLeft(LAMBDA s, o :
             Untimed(Lower!Write(s.cache, s.mem, LowerBlock(Address(b, o)),
                                 LowerOffset(Address(b, o)), Length(o),
                                 [i \in 0 .. Length(o) - 1 |-> data[o + i]])),
           l, Chunks)

\* The block b as read from the lower level l, and the lower level after it.
BackingRead(l, b) ==
  FoldLeft(LAMBDA s, o :
             LET r == Lower!Read(s.lower.cache, s.lower.mem, LowerBlock(Address(b, o)),
                                 LowerOffset(Address(b, o)), Length(o))
             IN [lower |-> Untimed(r),
                 data |-> [i \in Offsets |-> IF i \in o .. o + Length(o) - 1
                                               THEN r.data[i - o] ELSE s.data[i]]],
           [lower |-> l, data |-> [i \in Offsets |-> Zero]], Chunks)

---------------------------------------------------------------------------
Init ==
  /\ upper = New
  /\ lower \in [cache : {Lower!New}, mem : [Lower!Blocks -> Lower!BlockData]]
  /\ ret = << >>
  /\ op = << >>

\* Mutation: the block is fetched into the victim's line before that is written back.
FetchedFirst(b) ==
  LET l == upper.line[SetOf(b)][Victim(upper, SetOf(b))]
      r == BackingRead(lower, b)
  IN IF l.valid /\ l.dirty THEN [r EXCEPT !.lower = BackingWrite(@, l.tag, r.data)] ELSE r

\* What a miss of b asks of the lower level: the write-back of the victim, then the block.
Served(b) ==
  LET l == upper.line[SetOf(b)][Victim(upper, SetOf(b))]
  IN BackingRead(IF l.valid /\ l.dirty THEN BackingWrite(lower, l.tag, l.data) ELSE lower, b)

\* What the lower level is left with by an access to b, and the block it gave.
Reached(b) == IF Hit(upper, b) THEN [lower |-> lower, data |-> << >>] ELSE Served(b)

\* The result r of the access request of the upper cache over what it reached below.
Access(request, r, reached) ==
  /\ op' = request
  /\ upper' = [r.cache EXCEPT !.recent = NoStore]
  /\ lower' = reached.lower
  /\ ret' = r.data

UpperRead(b, o, n) ==
  LET reached == Reached(b)
  IN Access(<<"read", b, o, n>>, Read(upper, [x \in Blocks |-> reached.data], b, o, n), reached)
UpperWrite(b, o, n, d) ==
  LET reached == Reached(b)
  IN Access(<<"write", b, o, n, d>>,
            Write(upper, [x \in Blocks |-> reached.data], b, o, n, d), reached)

UpperInvalidate(b) ==
  /\ op' = <<"invalidate", b>>
  /\ upper' = Invalidate(upper, b) /\ ret' = << >> /\ UNCHANGED lower

\* Mutation: the lines are dropped without a write-back.
UpperFlushForgets ==
  /\ op' = <<"flush">>
  /\ upper' = AllDropped(upper) /\ ret' = << >> /\ UNCHANGED lower

\* Every dirty line is written back, set by set and way by way.
UpperFlush ==
  /\ op' = <<"flush">>
  /\ upper' = AllDropped(upper)
  /\ lower' = FoldLeft(LAMBDA s, k :
                         LET l == upper.line[k \div Assoc][k % Assoc]
                         IN IF l.valid /\ l.dirty THEN BackingWrite(s, l.tag, l.data) ELSE s,
                       lower, [k \in 1 .. NumSets * Assoc |-> k - 1])
  /\ ret' = << >>

UpperReset == op' = <<"reset">> /\ upper' = Reset(upper) /\ ret' = << >> /\ UNCHANGED lower

\* The lower cache flushed on its own, under the lines of the upper one.
LowerFlush ==
  LET r == Lower!Flush(lower.cache, lower.mem)
  IN lower' = [cache |-> r.cache, mem |-> r.backing] /\ UNCHANGED <<upper, ret, op>>

Next ==
  \/ \E b \in Blocks, o \in Offsets, n \in 1 .. BlockSize :
       \/ UpperRead(b, o, n)
       \/ \E d \in [0 .. n - 1 -> Byte] : UpperWrite(b, o, n, d)
  \/ \E b \in Blocks : UpperInvalidate(b)
  \/ UpperFlush
  \/ UpperReset
  \/ LowerFlush

HierarchySpec == Init /\ [][Next]_hierarchyVars

---------------------------------------------------------------------------
\* What the lower cache and memory hold together, in the blocks of the upper cache.
Below ==
  LET held == Lower!View(lower.cache, lower.mem)
  IN [b \in Blocks |-> [o \in Offsets |->
        held[LowerBlock(Address(b, o))][LowerOffset(Address(b, o))]]]

LM == INSTANCE LayeredMemory WITH cur <- View(upper, Below), dur <- Below

(* The upper cache promises over a lower cache what it promises over memory:   *)
(* a block that moves in chunks, is evicted below while it is dirty above, or   *)
(* is written back into a cache that dropped it, is still the client's block;   *)
(* flushing the lower cache alone does not show.                              *)
HierarchyIsLayered == LM!MSpec
===========================================================================
