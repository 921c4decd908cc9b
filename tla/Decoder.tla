----------------------------- MODULE Decoder -----------------------------
(***************************************************************************)
(* insts/decoder.go: from a 32-bit instruction word to insts.Instruction.   *)
(*                                                                         *)
(* Each encoding class has its test (Is...) and its decoding (Decode...);   *)
(* the first class whose test holds is taken.  The decoding is the code's,  *)
(* not the architecture's: unsigned-offset byte and halfword accesses come  *)
(* out as 32-bit ones, the offset of an unscaled access is kept where no    *)
(* executor looks, and a one-source instruction such as REV falls into the  *)
(* two-source class.                                                        *)
(***************************************************************************)
EXTENDS Words

\* A SIMDArrangement: the bits of a lane, and the lanes of a D or a Q register.
Arr(bits, isQ) == [bits |-> bits, lanes |-> (IF isQ THEN 128 ELSE 64) \div bits]

\* The instruction a decoding starts from: OpUnknown, every other field 0.
Unknown ==
  [op |-> "Unknown", fmt |-> "Unknown", is64 |-> FALSE, setFlags |-> FALSE,
   rd |-> 0, rn |-> 0, rm |-> 0, rt2 |-> 0, imm |-> {}, imm2 |-> {}, shift |-> 0,
   offset |-> {}, cond |-> 0, shiftType |-> 0, shiftAmount |-> 0,
   index |-> "none", signedImm |-> {}, sysReg |-> {}, arr |-> Arr(8, FALSE)]

\* The register number that marks the immediate form of a conditional compare.
NoRegister == 255

Rd(w) == Field(w, 4, 0)
Rn(w) == Field(w, 9, 5)
Rm(w) == Field(w, 20, 16)
Ra(w) == Field(w, 14, 10)

\* A signed field in units of 2^k bytes, as an int64.
SignedField(w, hi, lo, k) == Shl(SignExtend(Slice(w, hi, lo), hi - lo + 1, 64), k, 64)

\* The branch offset; a forward one is stored in Imm as well.
WithOffset(i, off) == [i EXCEPT !.offset = off, !.imm = IF 63 \in off THEN {} ELSE off]

---------------------------------------------------------------------------
IsDataProcessingImm(w) == Field(w, 28, 23) = \b100010
DecodeDataProcessingImm(w) ==
  [Unknown EXCEPT !.fmt = "DPImm", !.op = IF 30 \in w THEN "SUB" ELSE "ADD",
     !.is64 = 31 \in w, !.setFlags = 29 \in w, !.rd = Rd(w), !.rn = Rn(w),
     !.imm = Slice(w, 21, 10), !.shift = IF 22 \in w THEN 12 ELSE 0]

IsDataProcessingReg(w) == Field(w, 28, 24) \in {\b01011, \b01010}
DecodeDataProcessingReg(w) ==
  LET opc == Field(w, 30, 29)
      plain == <<"AND", "ORR", "EOR", "AND">>
      inverted == <<"BIC", "ORN", "EON", "BIC">>
  IN [Unknown EXCEPT !.fmt = "DPReg", !.is64 = 31 \in w, !.rd = Rd(w), !.rn = Rn(w),
        !.rm = Rm(w), !.shiftType = Field(w, 23, 22), !.shiftAmount = Field(w, 15, 10),
        !.op = IF 24 \in w THEN (IF 30 \in w THEN "SUB" ELSE "ADD")
               ELSE (IF 21 \in w THEN inverted ELSE plain)[opc + 1],
        !.setFlags = IF 24 \in w THEN 29 \in w ELSE opc = \b11]

IsBranchImm(w) == Field(w, 31, 26) \in {\b000101, \b100101}
DecodeBranchImm(w) ==
  WithOffset([Unknown EXCEPT !.fmt = "Branch", !.op = IF 31 \in w THEN "BL" ELSE "B"],
             SignedField(w, 25, 0, 2))

IsBranchCond(w) == Field(w, 31, 25) = \b0101010 /\ 4 \notin w
DecodeBranchCond(w) ==
  WithOffset([Unknown EXCEPT !.fmt = "BranchCond", !.op = "BCond", !.cond = Field(w, 3, 0)],
             SignedField(w, 23, 5, 2))

IsBranchReg(w) ==
  Field(w, 31, 25) = \b1101011 /\ Slice(w, 15, 10) = {} /\ Slice(w, 4, 0) = {}
DecodeBranchReg(w) ==
  [Unknown EXCEPT !.fmt = "BranchReg", !.rn = Rn(w),
     !.op = <<"BR", "BLR", "RET", "Unknown">>[Field(w, 22, 21) + 1]]

---------------------------------------------------------------------------
(* Loads and stores. *)

IsLoadStoreImm(w) == Field(w, 29, 27) = \b111 /\ 26 \notin w /\ Field(w, 25, 24) = \b01
DecodeLoadStoreImm(w) ==
  LET size == Field(w, 31, 30)
      opc == Field(w, 23, 22)
      op == IF size = \b10 THEN <<"STR", "LDR", "LDRSW", "Unknown">>[opc + 1]
            ELSE IF 22 \in w THEN "LDR" ELSE "STR"
  IN [Unknown EXCEPT !.fmt = "LoadStore", !.op = op, !.rn = Rn(w), !.rd = Rd(w),
        !.imm = Shl(Slice(w, 21, 10), IF size = \b11 THEN 3 ELSE 2, 64),
        !.is64 = size = \b11 \/ op = "LDRSW"]

\* The operation and the width of an access by register offset or with an index.
SizedAccess(w) ==
  LET size == Field(w, 31, 30)
      opc == Field(w, 23, 22)
  IN CASE size = \b11 -> [op |-> IF 22 \in w THEN "LDR" ELSE "STR", is64 |-> TRUE]
       [] size = \b10 -> [op |-> <<"STR", "LDR", "LDRSW", "Unknown">>[opc + 1], is64 |-> opc = \b10]
       [] size = \b01 -> [op |-> <<"STRH", "LDRH", "LDRSH", "LDRSH">>[opc + 1], is64 |-> opc = \b10]
       [] size = \b00 -> [op |-> <<"STRB", "LDRB", "LDRSB", "LDRSB">>[opc + 1], is64 |-> opc = \b10]

IsLoadStoreRegOffset(w) ==
  /\ Field(w, 29, 27) = \b111 /\ Field(w, 25, 24) = \b00
  /\ 21 \in w /\ Field(w, 11, 10) = \b10
DecodeLoadStoreRegOffset(w) ==
  [Unknown EXCEPT !.fmt = "LoadStore", !.index = "regBase", !.op = SizedAccess(w).op,
     !.is64 = SizedAccess(w).is64, !.rn = Rn(w), !.rd = Rd(w), !.rm = Rm(w),
     !.shiftType = Field(w, 15, 13), !.shiftAmount = IF 12 \in w THEN Field(w, 31, 30) ELSE 0]

IsLoadStoreRegIndexed(w) ==
  Field(w, 29, 27) = \b111 /\ Field(w, 25, 24) = \b00 /\ 21 \notin w
DecodeLoadStoreRegIndexed(w) ==
  [Unknown EXCEPT !.fmt = "LoadStore", !.op = SizedAccess(w).op, !.is64 = SizedAccess(w).is64,
     !.index = <<"none", "post", "none", "pre">>[Field(w, 11, 10) + 1],
     !.signedImm = SignedField(w, 20, 12, 0), !.rn = Rn(w), !.rd = Rd(w)]

IsLoadStorePair(w) ==
  Field(w, 29, 27) = \b101 /\ Field(w, 25, 23) \in {\b001, \b010, \b011}
DecodeLoadStorePair(w) ==
  LET is64 == Field(w, 31, 30) = \b10
  IN [Unknown EXCEPT !.fmt = "LoadStorePair", !.op = IF 22 \in w THEN "LDP" ELSE "STP",
        !.is64 = is64, !.index = <<"post", "signed", "pre">>[Field(w, 25, 23)],
        !.signedImm = SignedField(w, 21, 15, IF is64 THEN 3 ELSE 2),
        !.rd = Rd(w), !.rn = Rn(w), !.rt2 = Ra(w)]

IsLoadStoreLiteral(w) == Field(w, 29, 27) = \b011 /\ Field(w, 25, 24) = \b00
DecodeLoadStoreLiteral(w) ==
  WithOffset([Unknown EXCEPT !.fmt = "LoadStoreLit", !.op = "LDRLit", !.rd = Rd(w),
                !.is64 = Field(w, 31, 30) = \b01], SignedField(w, 23, 5, 2))

IsPCRelAddressing(w) == Field(w, 28, 24) = \b10000
DecodePCRelAddressing(w) ==
  LET bytes == SignExtend(Shl(Slice(w, 23, 5), 2, 21) \cup Slice(w, 30, 29), 21, 64)
  IN [Unknown EXCEPT !.fmt = "PCRel", !.op = IF 31 \in w THEN "ADRP" ELSE "ADR",
        !.is64 = TRUE, !.rd = Rd(w), !.offset = IF 31 \in w THEN Shl(bytes, 12, 64) ELSE bytes]

---------------------------------------------------------------------------
IsMoveWide(w) == Field(w, 28, 23) = \b100101
DecodeMoveWide(w) ==
  [Unknown EXCEPT !.fmt = "MoveWide", !.rd = Rd(w), !.is64 = 31 \in w, !.imm = Slice(w, 20, 5),
     !.shift = 16 * Field(w, 22, 21),
     !.op = <<"MOVN", "Unknown", "MOVZ", "MOVK">>[Field(w, 30, 29) + 1]]

IsCondCmp(w) ==
  Field(w, 28, 25) = \b1101 /\ Field(w, 24, 21) = \b0010 /\ 10 \notin w /\ 4 \notin w
DecodeCondCmp(w) ==
  [Unknown EXCEPT !.fmt = "CondCmp", !.op = IF 30 \in w THEN "CCMP" ELSE "CCMN",
     !.is64 = 31 \in w, !.rn = Rn(w), !.cond = Field(w, 15, 12), !.imm = Slice(w, 3, 0),
     !.rm = IF 11 \in w THEN NoRegister ELSE Rm(w),
     !.imm2 = IF 11 \in w THEN Slice(w, 20, 16) ELSE {}]

IsConditionalSelect(w) == Field(w, 29, 21) = \b011010100
DecodeConditionalSelect(w) ==
  [Unknown EXCEPT !.fmt = "CondSelect", !.is64 = 31 \in w, !.rd = Rd(w), !.rn = Rn(w),
     !.rm = Rm(w), !.cond = Field(w, 15, 12),
     !.op = IF 30 \in w THEN (IF 10 \in w THEN "CSNEG" ELSE "CSINV")
            ELSE (IF 10 \in w THEN "CSINC" ELSE "CSEL")]

\* Mutation: bits 23 to 21 are not tested.
AnyTwoSource(w) == Field(w, 29, 24) = \b011010

IsDataProc2Src(w) == Field(w, 29, 21) = \b011010110

DecodeDataProc2Src(w) ==
  LET code == Field(w, 15, 10)
      op == CASE code = \b000010 -> "UDIV" [] code = \b000011 -> "SDIV"
              [] code = \b001000 -> "LSLV" [] code = \b001001 -> "LSRV"
              [] code = \b001010 -> "ASRV" [] code = \b001011 -> "RORV"
              [] OTHER -> "Unknown"
  IN [Unknown EXCEPT !.fmt = "DataProc2Src", !.op = op,
        !.is64 = 31 \in w, !.rd = Rd(w), !.rn = Rn(w), !.rm = Rm(w)]

IsDataProc3Src(w) == Field(w, 28, 24) = \b11011
DecodeDataProc3Src(w) ==
  [Unknown EXCEPT !.fmt = "DataProc3Src", !.op = IF 15 \in w THEN "MSUB" ELSE "MADD",
     !.is64 = 31 \in w, !.rd = Rd(w), !.rn = Rn(w), !.rm = Rm(w), !.rt2 = Ra(w)]

\* The bitmask immediate: imms + 1 ones in an element of 2^len bits, rotated and repeated.
DecodeBitmaskImmediate(n, immr, imms, is64) ==
  LET zeros == {k \in 1 .. 5 : k \notin imms}
      len == IF n THEN 6 ELSE IF zeros = {} THEN 1 ELSE CHOOSE k \in zeros : \A j \in zeros : j <= k
      esize == 2^len
      ones == 0 .. Num(imms) % esize
      element == {(b - Num(immr)) % esize : b \in ones}
      repeated == {b \in Ones(64) : b % esize \in element}
  IN IF is64 THEN repeated ELSE Low(repeated, 32)

IsLogicalImm(w) == Field(w, 28, 23) = \b100100
DecodeLogicalImm(w) ==
  [Unknown EXCEPT !.fmt = "LogicalImm", !.is64 = 31 \in w, !.rd = Rd(w), !.rn = Rn(w),
     !.imm = DecodeBitmaskImmediate(22 \in w, Slice(w, 21, 16), Slice(w, 15, 10), 31 \in w),
     !.op = <<"AND", "ORR", "EOR", "AND">>[Field(w, 30, 29) + 1],
     !.setFlags = Field(w, 30, 29) = \b11]

IsExtract(w) == Field(w, 28, 23) = \b100111 /\ Slice(w, 30, 29) = {} /\ 21 \notin w
DecodeExtract(w) ==
  [Unknown EXCEPT !.fmt = "Extract", !.op = "EXTR", !.is64 = 31 \in w, !.rd = Rd(w),
     !.rn = Rn(w), !.rm = Rm(w), !.imm = Slice(w, 15, 10)]

IsBitfield(w) == Field(w, 28, 23) = \b100110
DecodeBitfield(w) ==
  [Unknown EXCEPT !.fmt = "Bitfield", !.is64 = 31 \in w, !.rd = Rd(w), !.rn = Rn(w),
     !.imm = Slice(w, 21, 16), !.imm2 = Slice(w, 15, 10),
     !.op = <<"SBFM", "BFM", "UBFM", "Unknown">>[Field(w, 30, 29) + 1]]

---------------------------------------------------------------------------
IsTestBranch(w) == Field(w, 30, 25) = \b011011
DecodeTestBranch(w) ==
  [Unknown EXCEPT !.fmt = "TestBranch", !.op = IF 24 \in w THEN "TBNZ" ELSE "TBZ",
     !.is64 = 31 \in w, !.rd = Rd(w), !.offset = SignedField(w, 18, 5, 2),
     !.imm = Slice(w, 23, 19) \cup (IF 31 \in w THEN {5} ELSE {})]

IsCompareBranch(w) == Field(w, 30, 25) = \b011010
DecodeCompareBranch(w) ==
  [Unknown EXCEPT !.fmt = "CompareBranch", !.op = IF 24 \in w THEN "CBNZ" ELSE "CBZ",
     !.is64 = 31 \in w, !.rd = Rd(w), !.offset = SignedField(w, 23, 5, 2)]

IsNOP(w) == Field(w, 31, 16) = \hD503 /\ Field(w, 15, 0) = \h201F

IsException(w) ==
  \/ Field(w, 31, 21) = \b11010100000 /\ Field(w, 4, 0) = \b00001
  \/ Field(w, 31, 21) = \b11010100001 /\ Field(w, 4, 0) = \b00000
DecodeException(w) ==
  [Unknown EXCEPT !.fmt = "Exception", !.op = IF 21 \in w THEN "BRK" ELSE "SVC",
     !.imm = Slice(w, 20, 5)]

IsSystemReg(w) == Field(w, 31, 20) = \hD53
DecodeSystemReg(w) ==
  [Unknown EXCEPT !.fmt = "SystemReg", !.op = "MRS", !.is64 = TRUE, !.rd = Rd(w),
     !.sysReg = Slice(w, 19, 5)]

\* Vector instructions.  A D or S register is accessed with the op of a Q register.
IsSIMDLoadStore(w) == Field(w, 29, 26) = \b1111
DecodeSIMDLoadStore(w) ==
  LET size == Field(w, 31, 30)
      scale == CASE size = \b01 -> 3 [] size = \b10 -> 2 [] OTHER -> 4
  IN [Unknown EXCEPT !.fmt = "SIMDLoadStore", !.op = IF 22 \in w THEN "LDRQ" ELSE "STRQ",
        !.is64 = size = \b00 /\ 23 \in w, !.rn = Rn(w), !.rd = Rd(w),
        !.imm = Shl(Slice(w, 21, 10), scale, 64),
        !.arr = CASE size = \b01 -> Arr(8, FALSE) [] size = \b10 -> Arr(32, FALSE)
                  [] OTHER -> Arr(8, TRUE)]

\* getSIMDArrangement: one doubleword is taken for sixteen bytes.
GetSIMDArrangement(isQ, size) ==
  IF ~isQ /\ size = 3 THEN Arr(8, TRUE) ELSE Arr(8 * 2^size, isQ)

IsSIMDThreeSame(w) == 31 \notin w /\ Field(w, 28, 24) = \b01110 /\ 21 \in w
DecodeSIMDThreeSame(w) ==
  LET code == Field(w, 15, 11)
      float == Field(w, 23, 22) >= 2
      u == 29 \in w
      op == CASE code = \b10000 -> IF u THEN "VSUB" ELSE "VADD"
              [] code = \b10011 /\ ~u -> "VMUL"
              [] code = \b11010 /\ float -> IF u THEN "VFSUB" ELSE "VFADD"
              [] code = \b11011 /\ float /\ u -> "VFMUL"
              [] OTHER -> "Unknown"
  IN [Unknown EXCEPT !.fmt = "SIMDReg", !.op = op, !.is64 = 30 \in w,
        !.rd = Rd(w), !.rn = Rn(w), !.rm = Rm(w),
        !.arr = GetSIMDArrangement(30 \in w, Field(w, 23, 22))]

IsSIMDCopy(w) == Field(w, 31, 24) = \b01001110 /\ 21 \notin w /\ Field(w, 15, 10) = \b000011
\* The lowest one of imm5 gives the size of a lane.
DecodeSIMDCopy(w) ==
  LET size == IF 16 \in w THEN 0 ELSE IF 17 \in w THEN 1 ELSE IF 18 \in w THEN 2 ELSE 3
      valid == Slice(w, 19, 16) # {} /\ (size = 3 => 30 \in w)
  IN [Unknown EXCEPT !.fmt = "SIMDCopy", !.rd = Rd(w), !.rn = Rn(w), !.is64 = 30 \in w,
        !.imm = Slice(w, 20, 16), !.op = IF valid THEN "DUP" ELSE "Unknown",
        !.arr = IF valid THEN Arr(8 * 2^size, 30 \in w) ELSE @]

---------------------------------------------------------------------------
Decode(w) ==
  IF IsSIMDLoadStore(w) THEN DecodeSIMDLoadStore(w)
  ELSE IF IsSIMDThreeSame(w) THEN DecodeSIMDThreeSame(w)
  ELSE IF IsSIMDCopy(w) THEN DecodeSIMDCopy(w)
  ELSE IF IsLoadStorePair(w) THEN DecodeLoadStorePair(w)
  ELSE IF IsLoadStoreLiteral(w) THEN DecodeLoadStoreLiteral(w)
  ELSE IF IsLoadStoreRegOffset(w) THEN DecodeLoadStoreRegOffset(w)
  ELSE IF IsLoadStoreRegIndexed(w) THEN DecodeLoadStoreRegIndexed(w)
  ELSE IF IsLoadStoreImm(w) THEN DecodeLoadStoreImm(w)
  ELSE IF IsPCRelAddressing(w) THEN DecodePCRelAddressing(w)
  ELSE IF IsMoveWide(w) THEN DecodeMoveWide(w)
  ELSE IF IsCondCmp(w) THEN DecodeCondCmp(w)
  ELSE IF IsConditionalSelect(w) THEN DecodeConditionalSelect(w)
  ELSE IF IsDataProc2Src(w) THEN DecodeDataProc2Src(w)
  ELSE IF IsDataProc3Src(w) THEN DecodeDataProc3Src(w)
  ELSE IF IsLogicalImm(w) THEN DecodeLogicalImm(w)
  ELSE IF IsExtract(w) THEN DecodeExtract(w)
  ELSE IF IsBitfield(w) THEN DecodeBitfield(w)
  ELSE IF IsDataProcessingImm(w) THEN DecodeDataProcessingImm(w)
  ELSE IF IsDataProcessingReg(w) THEN DecodeDataProcessingReg(w)
  ELSE IF IsTestBranch(w) THEN DecodeTestBranch(w)
  ELSE IF IsCompareBranch(w) THEN DecodeCompareBranch(w)
  ELSE IF IsBranchImm(w) THEN DecodeBranchImm(w)
  ELSE IF IsBranchCond(w) THEN DecodeBranchCond(w)
  ELSE IF IsBranchReg(w) THEN DecodeBranchReg(w)
  ELSE IF IsNOP(w) THEN [Unknown EXCEPT !.op = "NOP"]
  ELSE IF IsException(w) THEN DecodeException(w)
  ELSE IF IsSystemReg(w) THEN DecodeSystemReg(w)
  ELSE Unknown
==========================================================================
