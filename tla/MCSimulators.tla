--------------------------- MODULE MCSimulators ---------------------------
(* Instruction words, one or two of each form, and the states they start in. *)
EXTENDS Simulators, TLC

Regs5 == {0, 1, 2, 8, 30}

\* An encoding: the fixed ones and fields <<value, lowest bit>>.
Enc(ones, fields) == ones \cup UNION {Shl(W(f[1]), f[2], 32) : f \in fields}
SF(is64) == IF is64 THEN {31} ELSE {}
Bit(b, p) == IF b THEN {p} ELSE {}

EncodeDPImm(is64, sub, s, sh, imm, rn, rd) ==
  Enc({28, 24} \cup SF(is64) \cup Bit(sub, 30) \cup Bit(s, 29) \cup Bit(sh, 22), {<<imm, 10>>, <<rn, 5>>, <<rd, 0>>})
EncodeArith(is64, sub, s, type, amount, rm, rn, rd) ==
  Enc({27, 25, 24} \cup SF(is64) \cup Bit(sub, 30) \cup Bit(s, 29),
      {<<type, 22>>, <<rm, 16>>, <<amount, 10>>, <<rn, 5>>, <<rd, 0>>})
EncodeLogic(is64, opc, n, type, amount, rm, rn, rd) ==
  Enc({27, 25} \cup SF(is64) \cup Bit(n, 21),
      {<<opc, 29>>, <<type, 22>>, <<rm, 16>>, <<amount, 10>>, <<rn, 5>>, <<rd, 0>>})
EncodeLogicImm(is64, opc, immr, imms, rn, rd) ==
  Enc({28, 25} \cup SF(is64) \cup Bit(is64, 22), {<<opc, 29>>, <<immr, 16>>, <<imms, 10>>, <<rn, 5>>, <<rd, 0>>})
EncodeBitfield(is64, opc, immr, imms, rn, rd) ==
  Enc({28, 25, 24} \cup SF(is64) \cup Bit(is64, 22), {<<opc, 29>>, <<immr, 16>>, <<imms, 10>>, <<rn, 5>>, <<rd, 0>>})
EncodeExtract(is64, lsb, rm, rn, rd) ==
  Enc({28, 25, 24, 23} \cup SF(is64) \cup Bit(is64, 22), {<<rm, 16>>, <<lsb, 10>>, <<rn, 5>>, <<rd, 0>>})
EncodeMoveWide(is64, opc, hw, imm, rd) ==
  Enc({28, 25, 23} \cup SF(is64), {<<opc, 29>>, <<hw, 21>>, <<imm, 5>>, <<rd, 0>>})
EncodePCRel(page, immlo, immhi, rd) == Enc({28} \cup SF(page), {<<immlo, 29>>, <<immhi, 5>>, <<rd, 0>>})
EncodeB(link, imm26) == Enc({28, 26} \cup SF(link), {<<imm26, 0>>})
EncodeBCond(imm19, cond) == Enc({30, 28, 26}, {<<imm19, 5>>, <<cond, 0>>})
EncodeBR(opc, rn) == Enc({31, 30, 28, 26, 25}, {<<opc, 21>>, <<31, 16>>, <<rn, 5>>})
EncodeCB(is64, nz, imm19, rt) == Enc({29, 28, 26} \cup SF(is64) \cup Bit(nz, 24), {<<imm19, 5>>, <<rt, 0>>})
EncodeTB(bit, nz, imm14, rt) ==
  Enc({29, 28, 26, 25} \cup SF(bit >= 32) \cup Bit(nz, 24), {<<bit % 32, 19>>, <<imm14, 5>>, <<rt, 0>>})
EncodeMemImm(size, opc, imm12, rn, rt) ==
  Enc({29, 28, 27, 24}, {<<size, 30>>, <<opc, 22>>, <<imm12, 10>>, <<rn, 5>>, <<rt, 0>>})
EncodeMemReg(size, opc, rm, option, s, rn, rt) ==
  Enc({29, 28, 27, 21, 11} \cup Bit(s, 12), {<<size, 30>>, <<opc, 22>>, <<rm, 16>>, <<option, 13>>, <<rn, 5>>, <<rt, 0>>})
EncodeMemIndexed(size, opc, imm9, mode, rn, rt) ==
  Enc({29, 28, 27}, {<<size, 30>>, <<opc, 22>>, <<imm9, 12>>, <<mode, 10>>, <<rn, 5>>, <<rt, 0>>})
EncodePair(opc, mode, load, imm7, rt2, rn, rt) ==
  Enc({29, 27} \cup Bit(load, 22), {<<opc, 30>>, <<mode, 23>>, <<imm7, 15>>, <<rt2, 10>>, <<rn, 5>>, <<rt, 0>>})
EncodeLiteral(opc, imm19, rt) == Enc({28, 27}, {<<opc, 30>>, <<imm19, 5>>, <<rt, 0>>})
EncodeCondCmp(is64, sub, imm, rm, cond, rn, nzcv) ==
  Enc({29, 28, 27, 25, 22} \cup SF(is64) \cup Bit(sub, 30) \cup Bit(imm, 11),
      {<<rm, 16>>, <<cond, 12>>, <<rn, 5>>, <<nzcv, 0>>})
EncodeCondSelect(is64, inv, inc, rm, cond, rn, rd) ==
  Enc({28, 27, 25, 23} \cup SF(is64) \cup Bit(inv, 30) \cup Bit(inc, 10),
      {<<rm, 16>>, <<cond, 12>>, <<rn, 5>>, <<rd, 0>>})
EncodeTwoSource(is64, code, rm, rn, rd) ==
  Enc({28, 27, 25, 23, 22} \cup SF(is64), {<<rm, 16>>, <<code, 10>>, <<rn, 5>>, <<rd, 0>>})
EncodeThreeSource(is64, sub, rm, ra, rn, rd) ==
  Enc({28, 27, 25, 24} \cup SF(is64) \cup Bit(sub, 15), {<<rm, 16>>, <<ra, 10>>, <<rn, 5>>, <<rd, 0>>})
EncodeSVC == Enc({31, 30, 28, 26, 0}, {})
EncodeBRK == Enc({31, 30, 28, 26, 21}, {})
EncodeNOP == Enc({}, {<<\h201F, 0>>, <<\h503, 16>>}) \cup {31, 30, 28}
EncodeMRS(reg, rt) == Enc({31, 30, 28, 26, 24, 21, 20}, {<<reg, 5>>, <<rt, 0>>})
EncodeThreeSame(q, u, size, code, rm, rn, rd) ==
  Enc({27, 26, 25, 21, 10} \cup Bit(q, 30) \cup Bit(u, 29),
      {<<size, 22>>, <<rm, 16>>, <<code, 11>>, <<rn, 5>>, <<rd, 0>>})
EncodeDup(imm5, rn, rd) == Enc({30, 27, 26, 25, 11, 10}, {<<imm5, 16>>, <<rn, 5>>, <<rd, 0>>})
EncodeVectorMemory(size, opc, imm12, rn, rt) ==
  Enc({29, 28, 27, 26, 24}, {<<size, 30>>, <<opc, 22>>, <<imm12, 10>>, <<rn, 5>>, <<rt, 0>>})

---------------------------------------------------------------------------
\* Arithmetic with a register: plain, shifted, 32 bits, and with SP and XZR as number 31.
ArithWords ==
       {EncodeArith(is64, sub, s, 0, 0, 2, 1, 0) : is64, sub, s \in BOOLEAN}
  \cup {EncodeArith(is64, TRUE, TRUE, type, 4, 2, 1, 0) : is64 \in BOOLEAN, type \in 0 .. 3}
  \cup {EncodeArith(TRUE, FALSE, FALSE, 0, 63, 2, 1, 31), EncodeArith(TRUE, TRUE, FALSE, 0, 0, 2, 31, 1)}
  \cup {EncodeDPImm(is64, sub, s, FALSE, 1, 1, 0) : is64, sub, s \in BOOLEAN}
  \cup {EncodeDPImm(TRUE, sub, FALSE, TRUE, 1, 1, 0) : sub \in BOOLEAN}
  \cup {EncodeDPImm(is64, TRUE, TRUE, FALSE, \hFFF, 2, 31) : is64 \in BOOLEAN}
  \cup {EncodeDPImm(TRUE, sub, FALSE, FALSE, 16, 31, rd) : sub \in BOOLEAN, rd \in {0, 31}}
LogicWords ==
       {EncodeLogic(is64, opc, n, 0, 0, 2, 1, 0) : is64, n \in BOOLEAN, opc \in 0 .. 3}
  \cup {EncodeLogic(is64, opc, FALSE, opc, 3, 2, 1, 1) : is64 \in BOOLEAN, opc \in 0 .. 3}
  \cup {EncodeLogicImm(is64, opc, 1, 0, 1, 2) : is64 \in BOOLEAN, opc \in 0 .. 3}
  \cup {EncodeLogicImm(TRUE, 0, 0, 7, 1, 0)}
BitfieldWords ==
       {EncodeBitfield(TRUE, opc, f[1], f[2], 1, 2) :
          opc \in 0 .. 2, f \in {<<0, 7>>, <<4, 63>>, <<60, 59>>, <<8, 11>>, <<60, 3>>, <<0, 31>>}}
  \cup {EncodeBitfield(FALSE, opc, f[1], f[2], 1, 2) :
          opc \in 0 .. 2, f \in {<<0, 7>>, <<4, 31>>, <<28, 27>>, <<8, 11>>, <<28, 3>>}}
MoveWords ==
       {EncodeMoveWide(is64, opc, hw, \h8001, 1) : is64 \in BOOLEAN, opc \in {0, 2, 3}, hw \in {0, 1}}
  \cup {EncodeMoveWide(TRUE, opc, 3, 5, 2) : opc \in {0, 2, 3}}
  \cup {EncodeExtract(is64, lsb, 2, 1, 0) : is64 \in BOOLEAN, lsb \in {0, 8}}
  \cup {EncodePCRel(page, 1, imm, 0) : page \in BOOLEAN, imm \in {2, \h7FFFF}}
SelectWords ==
       {EncodeCondSelect(is64, inv, inc, 2, 11, 1, 0) : is64, inv, inc \in BOOLEAN}
  \cup {EncodeCondCmp(is64, sub, imm, 2, 1, 1, 10) : is64, sub, imm \in BOOLEAN}
MultiplyWords ==
       {EncodeThreeSource(is64, sub, 2, ra, 1, 0) : is64, sub \in BOOLEAN, ra \in {0, 31}}
  \cup {EncodeTwoSource(is64, code, 2, 1, 0) : is64 \in BOOLEAN, code \in {2, 3, 8, 9, 10, 11, 0}}

\* -8 and -16 as signed offsets of 9 and, in units of 8 bytes, 7 bits.
MemoryWords ==
       {EncodeMemImm(size, opc, 1, 2, 1) : size \in 0 .. 3, opc \in {0, 1}}
  \cup {EncodeMemImm(2, 2, 1, 2, 1), EncodeMemImm(3, 1, 1, 31, 1), EncodeMemImm(3, 0, 0, 2, 31)}
  \cup {EncodeMemReg(size, opc, 1, option, TRUE, 2, 0) :
          size \in {0, 2, 3}, opc \in {0, 1}, option \in {2, 3, 6}}
  \cup {EncodeMemIndexed(size, opc, 504, mode, 2, 1) : size \in 0 .. 3, opc \in {0, 1}, mode \in {0, 1, 3}}
  \cup {EncodeMemIndexed(size, opc, 8, 3, 2, 1) : size \in {0, 1}, opc \in {2, 3}}
  \cup {EncodeMemIndexed(3, 1, 8, mode, 2, 2) : mode \in {1, 3}}
  \cup {EncodeMemIndexed(3, 1, 8, 1, 31, 1), EncodeMemIndexed(2, 2, 4, 1, 2, 1)}
  \cup {EncodePair(opc, mode, load, 127, 0, 2, 1) : opc \in {0, 2}, mode \in 1 .. 3, load \in BOOLEAN}
  \cup {EncodePair(2, 2, TRUE, 1, 0, 2, 31)} \cup {EncodePair(2, mode, TRUE, 1, 0, 2, 2) : mode \in {1, 3}}
  \cup {EncodeLiteral(1, 2, 1)}
BranchWords ==
       {EncodeB(link, imm) : link \in BOOLEAN, imm \in {2, 67108862}}
  \cup {EncodeBCond(2, cond) : cond \in 0 .. 15}
  \cup {EncodeBR(opc, rn) : opc \in 0 .. 2, rn \in {1, 30}}
  \cup {EncodeCB(is64, nz, 2, 1) : is64, nz \in BOOLEAN}
  \cup {EncodeTB(bit, nz, 2, 1) : bit \in {0, 63}, nz \in BOOLEAN}
  \cup {EncodeSVC, EncodeBRK, EncodeNOP, EncodeMRS(\h5807, 1), EncodeMRS(\h5E82, 1)}

\* Vectors: sums and differences of every arrangement onto one of the sources, the
\* products and floating-point operations onto a third register.
VectorWords ==
       {EncodeThreeSame(q, u, size, 16, 2, 1, 1) : q, u \in BOOLEAN, size \in 0 .. 3}
  \cup {EncodeThreeSame(q, FALSE, size, 19, 2, 1, 0) : q \in BOOLEAN, size \in 0 .. 3}
  \cup {EncodeThreeSame(TRUE, FALSE, 0, 16, 2, 1, 0), EncodeThreeSame(TRUE, TRUE, 0, 19, 2, 1, 0)}
  \cup {EncodeThreeSame(q, c[1], size, c[2], 2, 1, 0) :
          q \in BOOLEAN, size \in 1 .. 3, c \in {<<FALSE, 26>>, <<TRUE, 26>>, <<TRUE, 27>>}}
  \cup {EncodeDup(2^size, 1, 0) : size \in 0 .. 4}
  \cup {EncodeVectorMemory(0, opc, 1, rn, 0) : opc \in {2, 3}, rn \in {2, 31}}
  \cup {EncodeVectorMemory(size, 1, 1, 2, 1) : size \in {1, 2}}

\* Words the architecture leaves unallocated and the decoder accepts: 32-bit operations
\* with fields, shifts and halfwords beyond bit 31.
UnallocatedWords ==
       {EncodeBitfield(FALSE, opc, f[1], f[2], 1, 2) :
          opc \in 0 .. 2, f \in {<<32, 31>>, <<3, 40>>, <<40, 50>>, <<40, 3>>, <<40, 39>>}}
  \cup {EncodeArith(FALSE, TRUE, TRUE, type, 40, 2, 1, 0) : type \in 0 .. 3}
  \cup {EncodeMoveWide(FALSE, opc, 2, 5, 2) : opc \in {0, 2, 3}}
  \cup {EncodeExtract(FALSE, 40, 2, 1, 0)}

Words1 == ArithWords \cup LogicWords \cup BitfieldWords \cup MoveWords \cup SelectWords
          \cup MultiplyWords \cup MemoryWords \cup BranchWords \cup VectorWords
          \cup UnallocatedWords

\* Compares with a conditional branch behind them.
Compares == {EncodeArith(is64, TRUE, TRUE, 0, 0, 2, 1, 31) : is64 \in BOOLEAN}
  \cup {EncodeDPImm(TRUE, TRUE, TRUE, FALSE, 1, 1, 31), EncodeArith(TRUE, TRUE, TRUE, 0, 1, 2, 1, 31)}

\* Stands for the floating-point operations, which are told apart and not commutative.
AnyFloat(op, x, y, n) ==
  CASE op = "VFADD" -> Xor(x, Shr(y, 1)) [] op = "VFSUB" -> Xor(x, Shl(y, 1, n))
    [] op = "VFMUL" -> x \cap Not(Shr(y, 1), n)

Entry == W(\h4FF8)
OneWord == {(Entry :> w) : w \in Words1}
ComparePairs == {(Entry :> c) @@ (Plus(Entry, 4) :> EncodeBCond(2, cond)) : c \in Compares, cond \in 0 .. 15}
AllPrograms == OneWord \cup ComparePairs

---------------------------------------------------------------------------
\* Corners of the signed and unsigned ranges at both widths, and an address.
Low32 == Ones(32)
High32 == Ones(64) \ Ones(32)
Base == W(\h1000)
Corners == {{}, {0}, {63}, Ones(64), {31}, Low32, Ones(31) \cup {63}, High32 \cup {0, 2},
            {0, 1, 5, 7, 15, 31, 40, 63}, Base}
AllFlags == [n : BOOLEAN, z : BOOLEAN, c : BOOLEAN, v : BOOLEAN]
NoFlags == [n |-> FALSE, z |-> FALSE, c |-> FALSE, v |-> FALSE]
Data == Write(Write({}, Base, 64, {7, 15, 31, 63, 0, 9, 40}), Plus(Base, 8), 64, {6, 15, 23, 30, 62})

Setup(x1, x2, x8, fl) ==
  [pc |-> Entry, sp |-> Base, fl |-> fl, mem |-> Data,
   vec |-> (0 :> {3, 70, 127} @@ 1 :> x1 \cup Shl(x2, 64, 128) @@ 2 :> x2 \cup Shl(x1, 64, 128))
             @@ [r \in 3 .. 31 |-> {}],
   regs |-> (0 :> {1, 4, 33} @@ 1 :> x1 @@ 2 :> x2 @@ 8 :> x8 @@ 30 :> W(\h5000))]
AllSetups == {Setup(x, y, W(93), NoFlags) : x, y \in Corners}
             \cup {Setup({63}, {0}, W(94), fl) : fl \in AllFlags}

\* Every value of the upper 11 bits, over a few of the others.
AllProbes == {Shl(W(top), 21, 32) \cup low : top \in 0 .. 2047, low \in {{}, {0}, {11}, Ones(21)}}
==========================================================================
