-------------------------- MODULE LayeredMemory --------------------------
(***************************************************************************)
(* What a write-back cache promises to the level above it and to the level *)
(* below it.  `cur' is the memory a client of the cache sees; `dur' is the *)
(* memory of the level below, which lags behind: at any access some blocks *)
(* may be written back (persisted), and a flush persists them all.  Only   *)
(* Invalidate and Reset may take a block of `cur' back to its `dur' value. *)
(* Nothing else ever changes what a client sees except its own writes, and *)
(* a read answers with exactly what the client sees.  `op' is the          *)
(* operation the client asked for: a step is one of that operation.        *)
(***************************************************************************)
EXTENDS Integers

CONSTANTS
  NumBlocks,   \* number of block-aligned addresses
  BlockSize,   \* bytes in a block
  Byte,        \* the values a byte takes
  Zero         \* the byte an access past the end of a block reads

VARIABLES
  cur,         \* block -> offset -> byte: the client's view
  dur,         \* block -> offset -> byte: the level below
  ret,         \* the bytes the last operation returned
  op           \* the last operation: its name and its arguments

Blocks == 0 .. NumBlocks - 1
Offsets == 0 .. BlockSize - 1
Image == [Blocks -> [Offsets -> Byte]]

memVars == <<cur, dur, ret, op>>

\* n bytes of block data from offset o; an access that does not fit reads zeros.
Bytes(data, o, n) ==
  [i \in 0 .. n - 1 |-> IF o + n > BlockSize THEN Zero ELSE data[o + i]]

\* Block data after storing the bytes d at offset o; one that does not fit is dropped.
Stored(data, o, n, d) ==
  [i \in Offsets |-> IF o + n <= BlockSize /\ i \in o .. o + n - 1
                       THEN d[i - o] ELSE data[i]]

\* Some blocks of `from' overwrite those of `to'.
Merge(P, from, to) == [x \in Blocks |-> IF x \in P THEN from[x] ELSE to[x]]

MInit == cur \in Image /\ dur = cur /\ ret = << >> /\ op = << >>

MRead(b, o, n) ==
  /\ op' = <<"read", b, o, n>>
  /\ \E P \in SUBSET Blocks : dur' = Merge(P, cur, dur)
  /\ ret' = Bytes(cur[b], o, n)
  /\ UNCHANGED cur

MWrite(b, o, n, d) ==
  /\ op' = <<"write", b, o, n, d>>
  /\ \E P \in SUBSET Blocks : dur' = Merge(P, cur, dur)
  /\ cur' = [cur EXCEPT ![b] = Stored(@, o, n, d)]
  /\ ret' = << >>

\* Everything is written back.
MFlush == op' = <<"flush">> /\ dur' = cur /\ ret' = << >> /\ UNCHANGED cur

\* The unwritten contents of the blocks P are lost.
Lost(P) == cur' = Merge(P, dur, cur) /\ ret' = << >> /\ UNCHANGED dur

MInvalidate(b) == op' = <<"invalidate", b>> /\ Lost({b})

MReset == op' = <<"reset">> /\ Lost(Blocks)

MNext ==
  \/ \E b \in Blocks, o \in Offsets, n \in 1 .. BlockSize :
       \/ MRead(b, o, n)
       \/ \E d \in [0 .. n - 1 -> Byte] : MWrite(b, o, n, d)
  \/ \E b \in Blocks : MInvalidate(b)
  \/ MFlush
  \/ MReset

MSpec == MInit /\ [][MNext]_memVars
==========================================================================
