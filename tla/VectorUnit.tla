---------------------------- MODULE VectorUnit ----------------------------
(***************************************************************************)
(* emu/simd.go and emu/simd_regfile.go: the vector registers, each a word  *)
(* of 128 bits, and the operations on their lanes.  As in the code, a       *)
(* vector operation is a loop over the lanes that writes the destination    *)
(* while later lanes are still to be read from the sources.                 *)
(***************************************************************************)
EXTENDS Decoder

\* Go's arithmetic on one lane of IEEE-754 floating-point numbers, by its bits.
CONSTANT FloatLane(_, _, _, _)

ReadLane(file, r, k, n) == Slice(file[r], n * k + n - 1, n * k)
WriteLane(file, r, k, n, v) ==
  [file EXCEPT ![r] = (@ \ (n * k .. n * k + n - 1)) \cup Shl(Low(v, n), n * k, 128)]

IsHalf(arr) == arr.bits * arr.lanes = 64

\* Mutation: an arrangement of 64 bits leaves what was in the upper half.
KeepUpper(file, r, arr) == file

\* A 64-bit arrangement clears the upper half of its destination.
ClearUpper(file, r, arr) == IF IsHalf(arr) THEN WriteLane(file, r, 1, 64, {}) ELSE file

FloatOps == {"VFADD", "VFSUB", "VFMUL"}

\* The arrangements that have a case: no products of doublewords, no short floats.
HasCase(op, arr) == (op = "VMUL" => arr.bits < 64) /\ (op \in FloatOps => arr.bits >= 32)

LaneResult(op, x, y, n) ==
  CASE op = "VADD" -> Add(x, y, n) [] op = "VSUB" -> Sub(x, y, n)
    [] op = "VMUL" -> Mul(x, y, n) [] op \in FloatOps -> FloatLane(op, x, y, n)

\* Lane k of the result of v, an operation with its operands, on the registers file.
LaneOf(file, v, k) ==
  IF v.op = "DUP" THEN v.scalar
  ELSE LaneResult(v.op, ReadLane(file, v.vn, k, v.arr.bits), ReadLane(file, v.vm, k, v.arr.bits),
                  v.arr.bits)

\* The lanes in order: each is computed from the registers as the ones before left them.
EachLane(file, vd, v) ==
  LET after[k \in 0 .. v.arr.lanes] ==
        IF k = 0 THEN file
        ELSE LET before == after[k - 1]
             IN WriteLane(before, vd, k - 1, v.arr.bits, LaneOf(before, v, k - 1))
  IN ClearUpper(after[v.arr.lanes], vd, v.arr)

ThreeSame(file, op, vd, vn, vm, arr) ==
  IF HasCase(op, arr) THEN EachLane(file, vd, [op |-> op, vn |-> vn, vm |-> vm, arr |-> arr]) ELSE file

DUP(file, vd, scalar, arr) == EachLane(file, vd, [op |-> "DUP", scalar |-> scalar, arr |-> arr])

LDR128(file, mem, vd, addr) == [file EXCEPT ![vd] = Read(mem, addr, 128)]
STR128(file, mem, vd, addr) == Write(mem, addr, 128, file[vd])
===========================================================================
