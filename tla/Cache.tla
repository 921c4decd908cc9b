------------------------------ MODULE Cache ------------------------------
(***************************************************************************)
(* timing/cache: one Cache over its backing store, driven by an arbitrary  *)
(* client.  One action per public operation that changes state.            *)
(***************************************************************************)
EXTENDS CacheOps, Sequences

VARIABLES
  cache,   \* the Cache: directory, data store, LRU queues, recent store
  mem,     \* the backing store (MemoryBacking over emu.Memory)
  ret,     \* data of the last operation's AccessResult
  op,      \* auxiliary: the operation the client asked for last, with its arguments
  order    \* auxiliary: the pairs <<x, b>> of blocks touched and not dropped since, x no
           \*   earlier than b

cacheVars == <<cache, mem, ret, op, order>>

\* An access is a block, an offset in it and a size of at most one block.
Accesses == Blocks \X Offsets \X (1 .. BlockSize)

\* The order without b, and with b touched last.
Forget(b) == {p \in order : b \notin {p[1], p[2]}}
Touch(b) == Forget(b) \cup {<<b, x>> : x \in {x \in Blocks : <<x, x>> \in order} \cup {b}}

---------------------------------------------------------------------------
Init ==
  /\ cache = New
  /\ mem \in [Blocks -> BlockData]
  /\ ret = << >>
  /\ op = << >>
  /\ order = {}

\* Cache.Read, hit or miss.
DoRead(b, o, n) ==
  LET r == Read(cache, mem, b, o, n)
  IN /\ op' = <<"read", b, o, n>>
     /\ cache' = r.cache
     /\ mem' = r.backing
     /\ ret' = r.data
     /\ order' = Touch(b)

\* Cache.Write, hit or write-allocate miss.
DoWrite(b, o, n, d) ==
  LET r == Write(cache, mem, b, o, n, d)
  IN /\ op' = <<"write", b, o, n, d>>
     /\ cache' = r.cache
     /\ mem' = r.backing
     /\ ret' = r.data
     /\ order' = Touch(b)

\* Cache.Invalidate: the line goes without a write-back.
DoInvalidate(b) ==
  /\ op' = <<"invalidate", b>>
  /\ cache' = Invalidate(cache, b)
  /\ ret' = << >>
  /\ order' = Forget(b)
  /\ UNCHANGED mem

\* Cache.Flush: write back every dirty line, drop every line.
DoFlush ==
  LET r == Flush(cache, mem)
  IN /\ op' = <<"flush">>
     /\ cache' = r.cache
     /\ mem' = r.backing
     /\ ret' = << >>
     /\ order' = {}

\* Cache.Reset: drop every line without a write-back.
DoReset ==
  /\ op' = <<"reset">>
  /\ cache' = Reset(cache)
  /\ ret' = << >>
  /\ order' = {}
  /\ UNCHANGED mem

Next ==
  \/ \E b \in Blocks, o \in Offsets, n \in 1 .. BlockSize : DoRead(b, o, n)
  \/ \E b \in Blocks, o \in Offsets, n \in 1 .. BlockSize :
       \E d \in [0 .. n - 1 -> Byte] : DoWrite(b, o, n, d)
  \/ \E b \in Blocks : DoInvalidate(b)
  \/ DoFlush
  \/ DoReset

Spec == Init /\ [][Next]_cacheVars

---------------------------------------------------------------------------
(* The cache state and backing store have their types throughout. *)
TypeOK ==
  /\ cache \in CacheState
  /\ mem \in [Blocks -> BlockData]

(* A block sits in at most one way, and only in its own set: whatever order   *)
(* of misses, evictions and invalidations ran, Lookup cannot find an old copy. *)
OneCopy ==
  \A s \in Sets : \A w \in Ways :
    cache.line[s][w].valid =>
      /\ SetOf(cache.line[s][w].tag) = s
      /\ \A v \in Ways : HasBlock(cache, cache.line[s][w].tag, v) => v = w

(* A line that is not dirty holds what the backing store holds, so that       *)
(* handleMiss and Flush may drop it without a write-back.                     *)
CleanIsBacked ==
  \A s \in Sets : \A w \in Ways :
    LET l == cache.line[s][w] IN l.valid /\ ~l.dirty => l.data = mem[l.tag]

(* LRU replacement: if a block is resident then so is every block of its set  *)
(* touched after it, whatever evictions, invalidations and refills of freed    *)
(* ways happened in between; a victim is never fresher than a survivor.        *)
SurvivorsAreFresher ==
  \A b, x \in Blocks :
    Hit(cache, b) /\ SetOf(x) = SetOf(b) /\ <<x, b>> \in order => Hit(cache, x)

---------------------------------------------------------------------------
(* Refinement: seen through View the cache is a layered memory. *)
LM == INSTANCE LayeredMemory WITH cur <- View(cache, mem), dur <- mem

(* Every operation answers and changes what a client sees, and what lies     *)
(* below, as LayeredMemory has that operation do: a miss, an eviction or a   *)
(* flush never changes a visible byte, after a flush all of it is below, and *)
(* only Invalidate and Reset forget a write.                                 *)
ImplementsLayeredMemory == LM!MSpec
==========================================================================
