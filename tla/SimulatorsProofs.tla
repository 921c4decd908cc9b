------------------------- MODULE SimulatorsProofs -------------------------
(* Theorems about Simulators, for every program, setup and word: what the    *)
(* decoder's classes have in common, what addition, subtraction and division *)
(* compute bit by bit, what follows for compares, conditions, the fused pair  *)
(* and 32-bit results, that the stages do what the emulator does, that the    *)
(* lanes of a vector sum or difference do not disturb one another, and that    *)
(* fast timing does what the emulator does but for the differences named.     *)
EXTENDS Simulators, FiniteSetTheorems, WellFoundedInduction, TLAPS

---------------------------------------------------------------------------
LEMMA Least ==
  ASSUME NEW T \in SUBSET Nat, T # {}
  PROVE  \E x \in T : \A y \in T : x <= y
<1> DEFINE R == {ss \in Nat \X Nat : ss[1] < ss[2]}
<1>1. IsWellFoundedOn(R, Nat)
  BY NatLessThanWellFounded DEF OpToRel
<1>2. PICK x \in T : \A y \in T : ~ (<<y, x>> \in R)
  BY <1>1, WFMin
<1>3. \A y \in T : <<y, x>> \in Nat \X Nat
  OBVIOUS
<1>4. \A y \in T : ~ (y < x) /\ x \in Nat /\ y \in Nat
  BY <1>2, <1>3
<1>5. QED
  BY <1>4

---------------------------------------------------------------------------
(* The number a word of up to 16 bits stands for, bit by bit.              *)

Bits16 == 0 .. 15
Part(s, b, v) == IF b \in s THEN v ELSE 0
Value(s) ==
  Part(s, 0, 1) + Part(s, 1, 2) + Part(s, 2, 4) + Part(s, 3, 8)
  + Part(s, 4, 16) + Part(s, 5, 32) + Part(s, 6, 64) + Part(s, 7, 128)
  + Part(s, 8, 256) + Part(s, 9, 512) + Part(s, 10, 1024) + Part(s, 11, 2048)
  + Part(s, 12, 4096) + Part(s, 13, 8192) + Part(s, 14, 16384) + Part(s, 15, 32768)

LEMMA ValueWithout ==
  ASSUME NEW s \in SUBSET Bits16, NEW x \in s
  PROVE  Value(s) = 2^x + Value(s \ {x})
<1>1. /\ 2^0 = 1 /\ 2^1 = 2 /\ 2^2 = 4 /\ 2^3 = 8 /\ 2^4 = 16 /\ 2^5 = 32 /\ 2^6 = 64 /\ 2^7 = 128
      /\ 2^8 = 256 /\ 2^9 = 512 /\ 2^10 = 1024 /\ 2^11 = 2048 /\ 2^12 = 4096 /\ 2^13 = 8192
      /\ 2^14 = 16384 /\ 2^15 = 32768
  BY SMT
<1>2. \A b : ~ (b = x) => (b \in s <=> b \in s \ {x})
  OBVIOUS
<1>3. CASE x = 0
  BY <1>1, <1>2, <1>3 DEF Value, Part
<1>4. CASE x = 1
  BY <1>1, <1>2, <1>4 DEF Value, Part
<1>5. CASE x = 2
  BY <1>1, <1>2, <1>5 DEF Value, Part
<1>6. CASE x = 3
  BY <1>1, <1>2, <1>6 DEF Value, Part
<1>7. CASE x = 4
  BY <1>1, <1>2, <1>7 DEF Value, Part
<1>8. CASE x = 5
  BY <1>1, <1>2, <1>8 DEF Value, Part
<1>9. CASE x = 6
  BY <1>1, <1>2, <1>9 DEF Value, Part
<1>10. CASE x = 7
  BY <1>1, <1>2, <1>10 DEF Value, Part
<1>11. CASE x = 8
  BY <1>1, <1>2, <1>11 DEF Value, Part
<1>12. CASE x = 9
  BY <1>1, <1>2, <1>12 DEF Value, Part
<1>13. CASE x = 10
  BY <1>1, <1>2, <1>13 DEF Value, Part
<1>14. CASE x = 11
  BY <1>1, <1>2, <1>14 DEF Value, Part
<1>15. CASE x = 12
  BY <1>1, <1>2, <1>15 DEF Value, Part
<1>16. CASE x = 13
  BY <1>1, <1>2, <1>16 DEF Value, Part
<1>17. CASE x = 14
  BY <1>1, <1>2, <1>17 DEF Value, Part
<1>18. CASE x = 15
  BY <1>1, <1>2, <1>18 DEF Value, Part
<1>19. QED
  BY <1>3, <1>4, <1>5, <1>6, <1>7, <1>8, <1>9, <1>10, <1>11, <1>12, <1>13, <1>14, <1>15, <1>16, <1>17,
     <1>18 DEF Bits16

\* The function Num folds with, defined on the subsets of S.
Sums(S) == CHOOSE f : f = [s \in SUBSET S |->
             IF s = {} THEN 0
             ELSE 2^(CHOOSE b \in s : TRUE) + f[s \ {CHOOSE b \in s : TRUE}]]

LEMMA NumAs ==
  ASSUME NEW S
  PROVE  Num(S) = Sums(S)[S]
  BY DEF Num, MapThenFoldSet, Sums

LEMMA SumsUnfold ==
  ASSUME NEW S \in SUBSET Bits16
  PROVE  /\ Sums(S)[{}] = 0
         /\ \A s \in SUBSET S : s # {} =>
              \E b \in s : Sums(S)[s] = 2^b + Sums(S)[s \ {b}]
<1> DEFINE first(s) == CHOOSE b \in s : TRUE
           g == [s \in SUBSET S |-> Value(s)]
<1>1. \A s \in SUBSET S : s # {} => first(s) \in s
  OBVIOUS
<1>2. \A s \in SUBSET S : Value(s) = IF s = {} THEN 0 ELSE 2^first(s) + g[s \ {first(s)}]
  <2> SUFFICES ASSUME NEW s \in SUBSET S
               PROVE  Value(s) = IF s = {} THEN 0 ELSE 2^first(s) + g[s \ {first(s)}]
    OBVIOUS
  <2>1. CASE s = {}
    BY <2>1 DEF Value, Part
  <2>2. CASE s # {}
    <3>1. first(s) \in s /\ s \in SUBSET Bits16
      BY <1>1, <2>2
    <3> HIDE DEF first
    <3>2. s \ {first(s)} \in SUBSET S
      OBVIOUS
    <3>3. g[s \ {first(s)}] = Value(s \ {first(s)})
      BY <3>2
    <3>4. QED
      BY <3>1, <3>3, <2>2, ValueWithout
  <2>3. QED
    BY <2>1, <2>2
<1>3. g = [s \in SUBSET S |-> IF s = {} THEN 0 ELSE 2^first(s) + g[s \ {first(s)}]]
  BY <1>2
<1>4. Sums(S) = [s \in SUBSET S |-> IF s = {} THEN 0 ELSE 2^first(s) + Sums(S)[s \ {first(s)}]]
  BY <1>3 DEF Sums
<1> HIDE DEF first
<1>5. \A s \in SUBSET S : Sums(S)[s] = IF s = {} THEN 0 ELSE 2^first(s) + Sums(S)[s \ {first(s)}]
  BY <1>4
<1>6. QED
  BY <1>1, <1>5

LEMMA NumIsValue ==
  ASSUME NEW S \in SUBSET Bits16
  PROVE  Num(S) = Value(S)
<1> DEFINE T == {Cardinality(s) : s \in {s \in SUBSET S : Sums(S)[s] # Value(s)}}
<1>1. IsFiniteSet(S) /\ \A s \in SUBSET S : IsFiniteSet(s) /\ Cardinality(s) \in Nat
  <2>1. IsFiniteSet(Bits16)
    <3>1. \A n \in Int : IsFiniteSet(0 .. n)
      BY FS_Interval
    <3> DEFINE n == 15
    <3>2. n \in Int /\ Bits16 = 0 .. n
      BY DEF Bits16
    <3> HIDE DEF n
    <3>3. IsFiniteSet(0 .. n)
      BY <3>1, <3>2
    <3>4. QED
      BY <3>2, <3>3
  <2>2. QED
    BY <2>1, FS_Subset, FS_CardinalityType
<1>2. T \in SUBSET Nat
  BY <1>1
<1>3. ASSUME T # {} PROVE FALSE
  <2>1. PICK n \in T : \A m \in T : n <= m
    BY <1>2, <1>3, Least
  <2>2. PICK s \in SUBSET S : Sums(S)[s] # Value(s) /\ n = Cardinality(s)
    BY <2>1
  <2>3. s # {}
    <3>1. Value({}) = 0
      BY DEF Value, Part
    <3>2. Sums(S)[{}] = 0
      BY SumsUnfold
    <3>3. QED
      BY <2>2, <3>1, <3>2
  <2>4. PICK b \in s : Sums(S)[s] = 2^b + Sums(S)[s \ {b}]
    BY <2>3, SumsUnfold
  <2>5. Cardinality(s \ {b}) < n
    BY <1>1, <2>2, <2>4, FS_RemoveElement
  <2>6. Sums(S)[s \ {b}] = Value(s \ {b})
    <3>1. s \ {b} \in SUBSET S
      OBVIOUS
    <3>2. Cardinality(s \ {b}) \in Nat /\ n \in Nat
      BY <1>1, <3>1, <2>2
    <3>3. Cardinality(s \ {b}) \notin T
      BY <2>1, <2>5, <3>2
    <3>4. QED
      BY <3>1, <3>3
  <2>7. QED
    BY <2>2, <2>4, <2>6, ValueWithout
<1>4. QED
  BY <1>3, NumAs

---------------------------------------------------------------------------
(* Fields of a word, and what the tests of the encoding classes fix.       *)

LEMMA SliceBits ==
  ASSUME NEW w, NEW hi \in Int, NEW lo \in Int
  PROVE  \A k : k \in Slice(w, hi, lo) <=> k \in 0 .. hi - lo /\ k + lo \in w
<1> SUFFICES ASSUME NEW k
             PROVE  k \in Slice(w, hi, lo) <=> k \in 0 .. hi - lo /\ k + lo \in w
  OBVIOUS
<1>1. ASSUME k \in Slice(w, hi, lo) PROVE k \in 0 .. hi - lo /\ k + lo \in w
  <2>1. PICK b \in w \cap (lo .. hi) : k = b - lo
    BY <1>1 DEF Slice
  <2>2. k + lo = b
    BY <2>1
  <2>3. QED
    BY <2>1, <2>2
<1>2. ASSUME k \in 0 .. hi - lo, k + lo \in w PROVE k \in Slice(w, hi, lo)
  <2>1. k + lo \in w \cap (lo .. hi) /\ k = (k + lo) - lo
    BY <1>2
  <2>2. QED
    BY <2>1 DEF Slice
<1>3. QED
  BY <1>1, <1>2

LEMMA FieldDigits ==
  ASSUME NEW w, NEW hi \in Int, NEW lo \in Int, hi - lo < 16
  PROVE  \E s : /\ Field(w, hi, lo) = Value(s)
                /\ \A k \in lo .. hi : k \in w <=> k - lo \in s
<1>1. Slice(w, hi, lo) \in SUBSET Bits16
  BY SliceBits DEF Bits16
<1>2. Field(w, hi, lo) = Value(Slice(w, hi, lo))
  BY <1>1, NumIsValue DEF Field
<1>3. ASSUME NEW k \in lo .. hi PROVE k \in w <=> k - lo \in Slice(w, hi, lo)
  <2>1. k - lo \in 0 .. hi - lo /\ (k - lo) + lo = k
    OBVIOUS
  <2>2. QED
    BY <2>1, SliceBits
<1>4. QED
  BY <1>2, <1>3

\* The bits a class of encodings requires to be 1 and to be 0.
Fixed(w, ones, zeros) == (\A b \in ones : b \in w) /\ (\A b \in zeros : b \notin w)

LEMMA Patterns ==
  ASSUME NEW w
  PROVE  /\ IsSIMDLoadStore(w) => Fixed(w, {29, 28, 27, 26}, {})
         /\ IsSIMDThreeSame(w) => Fixed(w, {27, 26, 25, 21}, {31, 28, 24})
         /\ IsSIMDCopy(w) => Fixed(w, {30, 27, 26, 25, 11, 10}, {31, 29, 28, 24, 21, 15, 14, 13, 12})
         /\ IsLoadStorePair(w) => Fixed(w, {29, 27}, {28, 25})
         /\ IsLoadStoreLiteral(w) => Fixed(w, {28, 27}, {29, 25, 24})
         /\ IsLoadStoreRegOffset(w) => Fixed(w, {29, 28, 27, 21, 11}, {25, 24, 10})
         /\ IsLoadStoreRegIndexed(w) => Fixed(w, {29, 28, 27}, {25, 24, 21})
         /\ IsLoadStoreImm(w) => Fixed(w, {29, 28, 27, 24}, {26, 25})
         /\ IsPCRelAddressing(w) => Fixed(w, {28}, {27, 26, 25, 24})
         /\ IsMoveWide(w) => Fixed(w, {28, 25, 23}, {27, 26, 24})
         /\ IsCondCmp(w) => Fixed(w, {28, 27, 25, 22}, {26, 24, 23, 21, 10, 4})
         /\ IsConditionalSelect(w) => Fixed(w, {28, 27, 25, 23}, {29, 26, 24, 22, 21})
         /\ IsDataProc2Src(w) => Fixed(w, {28, 27, 25, 23, 22}, {29, 26, 24, 21})
         /\ IsDataProc3Src(w) => Fixed(w, {28, 27, 25, 24}, {26})
         /\ IsLogicalImm(w) => Fixed(w, {28, 25}, {27, 26, 24, 23})
         /\ IsExtract(w) => Fixed(w, {28, 25, 24, 23}, {27, 26, 21})
         /\ IsBitfield(w) => Fixed(w, {28, 25, 24}, {27, 26, 23})
         /\ IsDataProcessingImm(w) => Fixed(w, {28, 24}, {27, 26, 25, 23})
         /\ IsDataProcessingReg(w) => Fixed(w, {27, 25}, {28, 26})
         /\ IsTestBranch(w) => Fixed(w, {29, 28, 26, 25}, {30, 27})
         /\ IsCompareBranch(w) => Fixed(w, {29, 28, 26}, {30, 27, 25})
         /\ IsBranchImm(w) => Fixed(w, {28, 26}, {30, 29, 27})
         /\ IsBranchCond(w) => Fixed(w, {30, 28, 26}, {31, 29, 27, 25, 4})
         /\ IsBranchReg(w) => Fixed(w, {31, 30, 28, 26, 25}, {29, 27})
         /\ IsNOP(w) => Fixed(w, {31, 30, 28, 26, 24, 17, 16}, {29, 27, 25, 23, 22, 21, 20, 19, 18})
         /\ IsException(w) => Fixed(w, {31, 30, 28, 26}, {29, 27, 25, 24, 23, 22})
         /\ IsSystemReg(w) => Fixed(w, {31, 30, 28, 26, 24, 21, 20}, {29, 27, 25, 23, 22})

<1>1. IsSIMDLoadStore(w) => Fixed(w, {29, 28, 27, 26}, {})
  <2>1. Field(w, 29, 26) = \b1111 => Fixed(w, {29, 28, 27, 26}, {})
    <3>1. PICK s : /\ Field(w, 29, 26) = Value(s)
                  /\ \A k \in 26 .. 29 : k \in w <=> k - 26 \in s
      BY FieldDigits
    <3>2. QED
      BY <3>1 DEF Fixed, Value, Part
  <2>2. QED
    BY <2>1 DEF IsSIMDLoadStore, Fixed
<1>2. IsSIMDThreeSame(w) => Fixed(w, {27, 26, 25, 21}, {31, 28, 24})
  <2>1. Field(w, 28, 24) = \b01110 => Fixed(w, {27, 26, 25}, {28, 24})
    <3>1. PICK s : /\ Field(w, 28, 24) = Value(s)
                  /\ \A k \in 24 .. 28 : k \in w <=> k - 24 \in s
      BY FieldDigits
    <3>2. QED
      BY <3>1 DEF Fixed, Value, Part
  <2>2. QED
    BY <2>1 DEF IsSIMDThreeSame, Fixed
<1>3. IsSIMDCopy(w) => Fixed(w, {30, 27, 26, 25, 11, 10}, {31, 29, 28, 24, 21, 15, 14, 13, 12})
  <2>1. Field(w, 31, 24) = \b01001110 => Fixed(w, {30, 27, 26, 25}, {31, 29, 28, 24})
    <3>1. PICK s : /\ Field(w, 31, 24) = Value(s)
                  /\ \A k \in 24 .. 31 : k \in w <=> k - 24 \in s
      BY FieldDigits
    <3>2. QED
      BY <3>1 DEF Fixed, Value, Part
  <2>2. Field(w, 15, 10) = \b000011 => Fixed(w, {11, 10}, {15, 14, 13, 12})
    <3>1. PICK s : /\ Field(w, 15, 10) = Value(s)
                  /\ \A k \in 10 .. 15 : k \in w <=> k - 10 \in s
      BY FieldDigits
    <3>2. QED
      BY <3>1 DEF Fixed, Value, Part
  <2>3. QED
    BY <2>1, <2>2 DEF IsSIMDCopy, Fixed
<1>4. IsLoadStorePair(w) => Fixed(w, {29, 27}, {28, 25})
  <2>1. Field(w, 29, 27) = \b101 => Fixed(w, {29, 27}, {28})
    <3>1. PICK s : /\ Field(w, 29, 27) = Value(s)
                  /\ \A k \in 27 .. 29 : k \in w <=> k - 27 \in s
      BY FieldDigits
    <3>2. QED
      BY <3>1 DEF Fixed, Value, Part
  <2>2. Field(w, 25, 23) = \b001 => Fixed(w, {23}, {25, 24})
    <3>1. PICK s : /\ Field(w, 25, 23) = Value(s)
                  /\ \A k \in 23 .. 25 : k \in w <=> k - 23 \in s
      BY FieldDigits
    <3>2. QED
      BY <3>1 DEF Fixed, Value, Part
  <2>3. Field(w, 25, 23) = \b010 => Fixed(w, {24}, {25, 23})
    <3>1. PICK s : /\ Field(w, 25, 23) = Value(s)
                  /\ \A k \in 23 .. 25 : k \in w <=> k - 23 \in s
      BY FieldDigits
    <3>2. QED
      BY <3>1 DEF Fixed, Value, Part
  <2>4. Field(w, 25, 23) = \b011 => Fixed(w, {24, 23}, {25})
    <3>1. PICK s : /\ Field(w, 25, 23) = Value(s)
                  /\ \A k \in 23 .. 25 : k \in w <=> k - 23 \in s
      BY FieldDigits
    <3>2. QED
      BY <3>1 DEF Fixed, Value, Part
  <2>5. QED
    BY <2>1, <2>2, <2>3, <2>4 DEF IsLoadStorePair, Fixed
<1>5. IsLoadStoreLiteral(w) => Fixed(w, {28, 27}, {29, 25, 24})
  <2>1. Field(w, 29, 27) = \b011 => Fixed(w, {28, 27}, {29})
    <3>1. PICK s : /\ Field(w, 29, 27) = Value(s)
                  /\ \A k \in 27 .. 29 : k \in w <=> k - 27 \in s
      BY FieldDigits
    <3>2. QED
      BY <3>1 DEF Fixed, Value, Part
  <2>2. Field(w, 25, 24) = \b00 => Fixed(w, {}, {25, 24})
    <3>1. PICK s : /\ Field(w, 25, 24) = Value(s)
                  /\ \A k \in 24 .. 25 : k \in w <=> k - 24 \in s
      BY FieldDigits
    <3>2. QED
      BY <3>1 DEF Fixed, Value, Part
  <2>3. QED
    BY <2>1, <2>2 DEF IsLoadStoreLiteral, Fixed
<1>6. IsLoadStoreRegOffset(w) => Fixed(w, {29, 28, 27, 21, 11}, {25, 24, 10})
  <2>1. Field(w, 29, 27) = \b111 => Fixed(w, {29, 28, 27}, {})
    <3>1. PICK s : /\ Field(w, 29, 27) = Value(s)
                  /\ \A k \in 27 .. 29 : k \in w <=> k - 27 \in s
      BY FieldDigits
    <3>2. QED
      BY <3>1 DEF Fixed, Value, Part
  <2>2. Field(w, 25, 24) = \b00 => Fixed(w, {}, {25, 24})
    <3>1. PICK s : /\ Field(w, 25, 24) = Value(s)
                  /\ \A k \in 24 .. 25 : k \in w <=> k - 24 \in s
      BY FieldDigits
    <3>2. QED
      BY <3>1 DEF Fixed, Value, Part
  <2>3. Field(w, 11, 10) = \b10 => Fixed(w, {11}, {10})
    <3>1. PICK s : /\ Field(w, 11, 10) = Value(s)
                  /\ \A k \in 10 .. 11 : k \in w <=> k - 10 \in s
      BY FieldDigits
    <3>2. QED
      BY <3>1 DEF Fixed, Value, Part
  <2>4. QED
    BY <2>1, <2>2, <2>3 DEF IsLoadStoreRegOffset, Fixed
<1>7. IsLoadStoreRegIndexed(w) => Fixed(w, {29, 28, 27}, {25, 24, 21})
  <2>1. Field(w, 29, 27) = \b111 => Fixed(w, {29, 28, 27}, {})
    <3>1. PICK s : /\ Field(w, 29, 27) = Value(s)
                  /\ \A k \in 27 .. 29 : k \in w <=> k - 27 \in s
      BY FieldDigits
    <3>2. QED
      BY <3>1 DEF Fixed, Value, Part
  <2>2. Field(w, 25, 24) = \b00 => Fixed(w, {}, {25, 24})
    <3>1. PICK s : /\ Field(w, 25, 24) = Value(s)
                  /\ \A k \in 24 .. 25 : k \in w <=> k - 24 \in s
      BY FieldDigits
    <3>2. QED
      BY <3>1 DEF Fixed, Value, Part
  <2>3. QED
    BY <2>1, <2>2 DEF IsLoadStoreRegIndexed, Fixed
<1>8. IsLoadStoreImm(w) => Fixed(w, {29, 28, 27, 24}, {26, 25})
  <2>1. Field(w, 29, 27) = \b111 => Fixed(w, {29, 28, 27}, {})
    <3>1. PICK s : /\ Field(w, 29, 27) = Value(s)
                  /\ \A k \in 27 .. 29 : k \in w <=> k - 27 \in s
      BY FieldDigits
    <3>2. QED
      BY <3>1 DEF Fixed, Value, Part
  <2>2. Field(w, 25, 24) = \b01 => Fixed(w, {24}, {25})
    <3>1. PICK s : /\ Field(w, 25, 24) = Value(s)
                  /\ \A k \in 24 .. 25 : k \in w <=> k - 24 \in s
      BY FieldDigits
    <3>2. QED
      BY <3>1 DEF Fixed, Value, Part
  <2>3. QED
    BY <2>1, <2>2 DEF IsLoadStoreImm, Fixed
<1>9. IsPCRelAddressing(w) => Fixed(w, {28}, {27, 26, 25, 24})
  <2>1. Field(w, 28, 24) = \b10000 => Fixed(w, {28}, {27, 26, 25, 24})
    <3>1. PICK s : /\ Field(w, 28, 24) = Value(s)
                  /\ \A k \in 24 .. 28 : k \in w <=> k - 24 \in s
      BY FieldDigits
    <3>2. QED
      BY <3>1 DEF Fixed, Value, Part
  <2>2. QED
    BY <2>1 DEF IsPCRelAddressing, Fixed
<1>10. IsMoveWide(w) => Fixed(w, {28, 25, 23}, {27, 26, 24})
  <2>1. Field(w, 28, 23) = \b100101 => Fixed(w, {28, 25, 23}, {27, 26, 24})
    <3>1. PICK s : /\ Field(w, 28, 23) = Value(s)
                  /\ \A k \in 23 .. 28 : k \in w <=> k - 23 \in s
      BY FieldDigits
    <3>2. QED
      BY <3>1 DEF Fixed, Value, Part
  <2>2. QED
    BY <2>1 DEF IsMoveWide, Fixed
<1>11. IsCondCmp(w) => Fixed(w, {28, 27, 25, 22}, {26, 24, 23, 21, 10, 4})
  <2>1. Field(w, 28, 25) = \b1101 => Fixed(w, {28, 27, 25}, {26})
    <3>1. PICK s : /\ Field(w, 28, 25) = Value(s)
                  /\ \A k \in 25 .. 28 : k \in w <=> k - 25 \in s
      BY FieldDigits
    <3>2. QED
      BY <3>1 DEF Fixed, Value, Part
  <2>2. Field(w, 24, 21) = \b0010 => Fixed(w, {22}, {24, 23, 21})
    <3>1. PICK s : /\ Field(w, 24, 21) = Value(s)
                  /\ \A k \in 21 .. 24 : k \in w <=> k - 21 \in s
      BY FieldDigits
    <3>2. QED
      BY <3>1 DEF Fixed, Value, Part
  <2>3. QED
    BY <2>1, <2>2 DEF IsCondCmp, Fixed
<1>12. IsConditionalSelect(w) => Fixed(w, {28, 27, 25, 23}, {29, 26, 24, 22, 21})
  <2>1. Field(w, 29, 21) = \b011010100 => Fixed(w, {28, 27, 25, 23}, {29, 26, 24, 22, 21})
    <3>1. PICK s : /\ Field(w, 29, 21) = Value(s)
                  /\ \A k \in 21 .. 29 : k \in w <=> k - 21 \in s
      BY FieldDigits
    <3>2. QED
      BY <3>1 DEF Fixed, Value, Part
  <2>2. QED
    BY <2>1 DEF IsConditionalSelect, Fixed
<1>13. IsDataProc2Src(w) => Fixed(w, {28, 27, 25, 23, 22}, {29, 26, 24, 21})
  <2>1. Field(w, 29, 21) = \b011010110 => Fixed(w, {28, 27, 25, 23, 22}, {29, 26, 24, 21})
    <3>1. PICK s : /\ Field(w, 29, 21) = Value(s)
                  /\ \A k \in 21 .. 29 : k \in w <=> k - 21 \in s
      BY FieldDigits
    <3>2. QED
      BY <3>1 DEF Fixed, Value, Part
  <2>2. QED
    BY <2>1 DEF IsDataProc2Src, Fixed
<1>14. IsDataProc3Src(w) => Fixed(w, {28, 27, 25, 24}, {26})
  <2>1. Field(w, 28, 24) = \b11011 => Fixed(w, {28, 27, 25, 24}, {26})
    <3>1. PICK s : /\ Field(w, 28, 24) = Value(s)
                  /\ \A k \in 24 .. 28 : k \in w <=> k - 24 \in s
      BY FieldDigits
    <3>2. QED
      BY <3>1 DEF Fixed, Value, Part
  <2>2. QED
    BY <2>1 DEF IsDataProc3Src, Fixed
<1>15. IsLogicalImm(w) => Fixed(w, {28, 25}, {27, 26, 24, 23})
  <2>1. Field(w, 28, 23) = \b100100 => Fixed(w, {28, 25}, {27, 26, 24, 23})
    <3>1. PICK s : /\ Field(w, 28, 23) = Value(s)
                  /\ \A k \in 23 .. 28 : k \in w <=> k - 23 \in s
      BY FieldDigits
    <3>2. QED
      BY <3>1 DEF Fixed, Value, Part
  <2>2. QED
    BY <2>1 DEF IsLogicalImm, Fixed
<1>16. IsExtract(w) => Fixed(w, {28, 25, 24, 23}, {27, 26, 21})
  <2>1. Field(w, 28, 23) = \b100111 => Fixed(w, {28, 25, 24, 23}, {27, 26})
    <3>1. PICK s : /\ Field(w, 28, 23) = Value(s)
                  /\ \A k \in 23 .. 28 : k \in w <=> k - 23 \in s
      BY FieldDigits
    <3>2. QED
      BY <3>1 DEF Fixed, Value, Part
  <2>2. QED
    BY <2>1 DEF IsExtract, Fixed
<1>17. IsBitfield(w) => Fixed(w, {28, 25, 24}, {27, 26, 23})
  <2>1. Field(w, 28, 23) = \b100110 => Fixed(w, {28, 25, 24}, {27, 26, 23})
    <3>1. PICK s : /\ Field(w, 28, 23) = Value(s)
                  /\ \A k \in 23 .. 28 : k \in w <=> k - 23 \in s
      BY FieldDigits
    <3>2. QED
      BY <3>1 DEF Fixed, Value, Part
  <2>2. QED
    BY <2>1 DEF IsBitfield, Fixed
<1>18. IsDataProcessingImm(w) => Fixed(w, {28, 24}, {27, 26, 25, 23})
  <2>1. Field(w, 28, 23) = \b100010 => Fixed(w, {28, 24}, {27, 26, 25, 23})
    <3>1. PICK s : /\ Field(w, 28, 23) = Value(s)
                  /\ \A k \in 23 .. 28 : k \in w <=> k - 23 \in s
      BY FieldDigits
    <3>2. QED
      BY <3>1 DEF Fixed, Value, Part
  <2>2. QED
    BY <2>1 DEF IsDataProcessingImm, Fixed
<1>19. IsDataProcessingReg(w) => Fixed(w, {27, 25}, {28, 26})
  <2>1. Field(w, 28, 24) = \b01011 => Fixed(w, {27, 25, 24}, {28, 26})
    <3>1. PICK s : /\ Field(w, 28, 24) = Value(s)
                  /\ \A k \in 24 .. 28 : k \in w <=> k - 24 \in s
      BY FieldDigits
    <3>2. QED
      BY <3>1 DEF Fixed, Value, Part
  <2>2. Field(w, 28, 24) = \b01010 => Fixed(w, {27, 25}, {28, 26, 24})
    <3>1. PICK s : /\ Field(w, 28, 24) = Value(s)
                  /\ \A k \in 24 .. 28 : k \in w <=> k - 24 \in s
      BY FieldDigits
    <3>2. QED
      BY <3>1 DEF Fixed, Value, Part
  <2>3. QED
    BY <2>1, <2>2 DEF IsDataProcessingReg, Fixed
<1>20. IsTestBranch(w) => Fixed(w, {29, 28, 26, 25}, {30, 27})
  <2>1. Field(w, 30, 25) = \b011011 => Fixed(w, {29, 28, 26, 25}, {30, 27})
    <3>1. PICK s : /\ Field(w, 30, 25) = Value(s)
                  /\ \A k \in 25 .. 30 : k \in w <=> k - 25 \in s
      <4>1. \A hi, lo \in Int : hi - lo < 16 =>
              \E s : Field(w, hi, lo) = Value(s) /\ \A k \in lo .. hi : k \in w <=> k - lo \in s
        BY FieldDigits
      <4>2. 30 \in Int /\ 25 \in Int /\ 30 - 25 < 16
        OBVIOUS
      <4>3. QED
        BY <4>1, <4>2, Zenon
    <3>2. QED
      BY <3>1 DEF Fixed, Value, Part
  <2>2. QED
    BY <2>1 DEF IsTestBranch, Fixed
<1>21. IsCompareBranch(w) => Fixed(w, {29, 28, 26}, {30, 27, 25})
  <2>1. Field(w, 30, 25) = \b011010 => Fixed(w, {29, 28, 26}, {30, 27, 25})
    <3>1. PICK s : /\ Field(w, 30, 25) = Value(s)
                  /\ \A k \in 25 .. 30 : k \in w <=> k - 25 \in s
      <4>1. \A hi, lo \in Int : hi - lo < 16 =>
              \E s : Field(w, hi, lo) = Value(s) /\ \A k \in lo .. hi : k \in w <=> k - lo \in s
        BY FieldDigits
      <4>2. 30 \in Int /\ 25 \in Int /\ 30 - 25 < 16
        OBVIOUS
      <4>3. QED
        BY <4>1, <4>2, Zenon
    <3>2. QED
      BY <3>1 DEF Fixed, Value, Part
  <2>2. QED
    BY <2>1 DEF IsCompareBranch, Fixed
<1>22. IsBranchImm(w) => Fixed(w, {28, 26}, {30, 29, 27})
  <2>1. Field(w, 31, 26) = \b000101 => Fixed(w, {28, 26}, {31, 30, 29, 27})
    <3>1. PICK s : /\ Field(w, 31, 26) = Value(s)
                  /\ \A k \in 26 .. 31 : k \in w <=> k - 26 \in s
      BY FieldDigits
    <3>2. QED
      BY <3>1 DEF Fixed, Value, Part
  <2>2. Field(w, 31, 26) = \b100101 => Fixed(w, {31, 28, 26}, {30, 29, 27})
    <3>1. PICK s : /\ Field(w, 31, 26) = Value(s)
                  /\ \A k \in 26 .. 31 : k \in w <=> k - 26 \in s
      BY FieldDigits
    <3>2. QED
      BY <3>1 DEF Fixed, Value, Part
  <2>3. QED
    BY <2>1, <2>2 DEF IsBranchImm, Fixed
<1>23. IsBranchCond(w) => Fixed(w, {30, 28, 26}, {31, 29, 27, 25, 4})
  <2>1. Field(w, 31, 25) = \b0101010 => Fixed(w, {30, 28, 26}, {31, 29, 27, 25})
    <3>1. PICK s : /\ Field(w, 31, 25) = Value(s)
                  /\ \A k \in 25 .. 31 : k \in w <=> k - 25 \in s
      BY FieldDigits
    <3>2. QED
      BY <3>1 DEF Fixed, Value, Part
  <2>2. QED
    BY <2>1 DEF IsBranchCond, Fixed
<1>24. IsBranchReg(w) => Fixed(w, {31, 30, 28, 26, 25}, {29, 27})
  <2>1. Field(w, 31, 25) = \b1101011 => Fixed(w, {31, 30, 28, 26, 25}, {29, 27})
    <3>1. PICK s : /\ Field(w, 31, 25) = Value(s)
                  /\ \A k \in 25 .. 31 : k \in w <=> k - 25 \in s
      BY FieldDigits
    <3>2. QED
      BY <3>1 DEF Fixed, Value, Part
  <2>2. QED
    BY <2>1 DEF IsBranchReg, Fixed
<1>25. IsNOP(w) => Fixed(w, {31, 30, 28, 26, 24, 17, 16}, {29, 27, 25, 23, 22, 21, 20, 19, 18})
  <2>1. Field(w, 31, 16) = \hD503 => Fixed(w, {31, 30, 28, 26, 24, 17, 16}, {29, 27, 25, 23, 22, 21, 20, 19, 18})
    <3>1. PICK s : /\ Field(w, 31, 16) = Value(s)
                  /\ \A k \in 16 .. 31 : k \in w <=> k - 16 \in s
      BY FieldDigits
    <3>2. QED
      BY <3>1 DEF Fixed, Value, Part
  <2>2. QED
    BY <2>1 DEF IsNOP, Fixed
<1>26. IsException(w) => Fixed(w, {31, 30, 28, 26}, {29, 27, 25, 24, 23, 22})
  <2>1. Field(w, 31, 21) = \b11010100000 => Fixed(w, {31, 30, 28, 26}, {29, 27, 25, 24, 23, 22, 21})
    <3>1. PICK s : /\ Field(w, 31, 21) = Value(s)
                  /\ \A k \in 21 .. 31 : k \in w <=> k - 21 \in s
      BY FieldDigits
    <3>2. QED
      BY <3>1 DEF Fixed, Value, Part
  <2>2. Field(w, 31, 21) = \b11010100001 => Fixed(w, {31, 30, 28, 26, 21}, {29, 27, 25, 24, 23, 22})
    <3>1. PICK s : /\ Field(w, 31, 21) = Value(s)
                  /\ \A k \in 21 .. 31 : k \in w <=> k - 21 \in s
      BY FieldDigits
    <3>2. QED
      BY <3>1 DEF Fixed, Value, Part
  <2>3. QED
    BY <2>1, <2>2 DEF IsException, Fixed
<1>27. IsSystemReg(w) => Fixed(w, {31, 30, 28, 26, 24, 21, 20}, {29, 27, 25, 23, 22})
  <2>1. Field(w, 31, 20) = \hD53 => Fixed(w, {31, 30, 28, 26, 24, 21, 20}, {29, 27, 25, 23, 22})
    <3>1. PICK s : /\ Field(w, 31, 20) = Value(s)
                  /\ \A k \in 20 .. 31 : k \in w <=> k - 20 \in s
      BY FieldDigits
    <3>2. QED
      BY <3>1 DEF Fixed, Value, Part
  <2>2. QED
    BY <2>1 DEF IsSystemReg, Fixed
<1>28. QED
  BY <1>1, <1>2, <1>3, <1>4, <1>5, <1>6, <1>7, <1>8, <1>9, <1>10, <1>11, <1>12, <1>13, <1>14, <1>15,
     <1>16, <1>17, <1>18, <1>19, <1>20, <1>21, <1>22, <1>23, <1>24, <1>25, <1>26, <1>27

\* The classes SIMDLoadStore, which is tested first, takes words from.
Shadowed(w) == IF IsSIMDLoadStore(w) THEN {"LoadStoreRegOffset", "LoadStoreRegIndexed"} ELSE {}
Apart(w) == Classes(w) \ Shadowed(w)

LEMMA ClassTests ==
  ASSUME NEW w, NEW c \in Classes(w)
  PROVE  \/ c = "SIMDLoadStore" /\ IsSIMDLoadStore(w)
         \/ c = "SIMDThreeSame" /\ IsSIMDThreeSame(w)
         \/ c = "SIMDCopy" /\ IsSIMDCopy(w)
         \/ c = "LoadStorePair" /\ IsLoadStorePair(w)
         \/ c = "LoadStoreLiteral" /\ IsLoadStoreLiteral(w)
         \/ c = "LoadStoreRegOffset" /\ IsLoadStoreRegOffset(w)
         \/ c = "LoadStoreRegIndexed" /\ IsLoadStoreRegIndexed(w)
         \/ c = "LoadStoreImm" /\ IsLoadStoreImm(w)
         \/ c = "PCRelAddressing" /\ IsPCRelAddressing(w)
         \/ c = "MoveWide" /\ IsMoveWide(w)
         \/ c = "CondCmp" /\ IsCondCmp(w)
         \/ c = "ConditionalSelect" /\ IsConditionalSelect(w)
         \/ c = "DataProc2Src" /\ IsDataProc2Src(w)
         \/ c = "DataProc3Src" /\ IsDataProc3Src(w)
         \/ c = "LogicalImm" /\ IsLogicalImm(w)
         \/ c = "Extract" /\ IsExtract(w)
         \/ c = "Bitfield" /\ IsBitfield(w)
         \/ c = "DataProcessingImm" /\ IsDataProcessingImm(w)
         \/ c = "DataProcessingReg" /\ IsDataProcessingReg(w)
         \/ c = "TestBranch" /\ IsTestBranch(w)
         \/ c = "CompareBranch" /\ IsCompareBranch(w)
         \/ c = "BranchImm" /\ IsBranchImm(w)
         \/ c = "BranchCond" /\ IsBranchCond(w)
         \/ c = "BranchReg" /\ IsBranchReg(w)
         \/ c = "NOP" /\ IsNOP(w)
         \/ c = "Exception" /\ IsException(w)
         \/ c = "SystemReg" /\ IsSystemReg(w)
  BY DEF Classes, When

LEMMA OneClass ==
  ASSUME NEW w, NEW c \in Apart(w), NEW d \in Apart(w)
  PROVE  c = d
<1>1. IsSIMDLoadStore(w) => d = "SIMDLoadStore"
  BY ClassTests, Patterns DEF Apart, Shadowed, Fixed
<1>2. IsSIMDThreeSame(w) => d = "SIMDThreeSame"
  BY ClassTests, Patterns DEF Apart, Shadowed, Fixed
<1>3. IsSIMDCopy(w) => d = "SIMDCopy"
  BY ClassTests, Patterns DEF Apart, Shadowed, Fixed
<1>4. IsLoadStorePair(w) => d = "LoadStorePair"
  BY ClassTests, Patterns DEF Apart, Shadowed, Fixed
<1>5. IsLoadStoreLiteral(w) => d = "LoadStoreLiteral"
  BY ClassTests, Patterns DEF Apart, Shadowed, Fixed
<1>6. IsLoadStoreRegOffset(w) /\ ~IsSIMDLoadStore(w) => d = "LoadStoreRegOffset"
  BY ClassTests, Patterns DEF Apart, Shadowed, Fixed
<1>7. IsLoadStoreRegIndexed(w) /\ ~IsSIMDLoadStore(w) => d = "LoadStoreRegIndexed"
  BY ClassTests, Patterns DEF Apart, Shadowed, Fixed
<1>8. IsLoadStoreImm(w) => d = "LoadStoreImm"
  BY ClassTests, Patterns DEF Apart, Shadowed, Fixed
<1>9. IsPCRelAddressing(w) => d = "PCRelAddressing"
  BY ClassTests, Patterns DEF Apart, Shadowed, Fixed
<1>10. IsMoveWide(w) => d = "MoveWide"
  BY ClassTests, Patterns DEF Apart, Shadowed, Fixed
<1>11. IsCondCmp(w) => d = "CondCmp"
  BY ClassTests, Patterns DEF Apart, Shadowed, Fixed
<1>12. IsConditionalSelect(w) => d = "ConditionalSelect"
  BY ClassTests, Patterns DEF Apart, Shadowed, Fixed
<1>13. IsDataProc2Src(w) => d = "DataProc2Src"
  BY ClassTests, Patterns DEF Apart, Shadowed, Fixed
<1>14. IsDataProc3Src(w) => d = "DataProc3Src"
  BY ClassTests, Patterns DEF Apart, Shadowed, Fixed
<1>15. IsLogicalImm(w) => d = "LogicalImm"
  BY ClassTests, Patterns DEF Apart, Shadowed, Fixed
<1>16. IsExtract(w) => d = "Extract"
  BY ClassTests, Patterns DEF Apart, Shadowed, Fixed
<1>17. IsBitfield(w) => d = "Bitfield"
  BY ClassTests, Patterns DEF Apart, Shadowed, Fixed
<1>18. IsDataProcessingImm(w) => d = "DataProcessingImm"
  BY ClassTests, Patterns DEF Apart, Shadowed, Fixed
<1>19. IsDataProcessingReg(w) => d = "DataProcessingReg"
  BY ClassTests, Patterns DEF Apart, Shadowed, Fixed
<1>20. IsTestBranch(w) => d = "TestBranch"
  BY ClassTests, Patterns DEF Apart, Shadowed, Fixed
<1>21. IsCompareBranch(w) => d = "CompareBranch"
  BY ClassTests, Patterns DEF Apart, Shadowed, Fixed
<1>22. IsBranchImm(w) => d = "BranchImm"
  BY ClassTests, Patterns DEF Apart, Shadowed, Fixed
<1>23. IsBranchCond(w) => d = "BranchCond"
  BY ClassTests, Patterns DEF Apart, Shadowed, Fixed
<1>24. IsBranchReg(w) => d = "BranchReg"
  BY ClassTests, Patterns DEF Apart, Shadowed, Fixed
<1>25. IsNOP(w) => d = "NOP"
  BY ClassTests, Patterns DEF Apart, Shadowed, Fixed
<1>26. IsException(w) => d = "Exception"
  BY ClassTests, Patterns DEF Apart, Shadowed, Fixed
<1>27. IsSystemReg(w) => d = "SystemReg"
  BY ClassTests, Patterns DEF Apart, Shadowed, Fixed
<1>28. c \in {"LoadStoreRegOffset", "LoadStoreRegIndexed"} => ~IsSIMDLoadStore(w)
  BY DEF Apart, Shadowed
<1>29. \A k \in Apart(w) : k \in Classes(w)
  BY DEF Apart
<1>30. QED
  BY <1>1, <1>2, <1>3, <1>4, <1>5, <1>6, <1>7, <1>8, <1>9, <1>10, <1>11, <1>12, <1>13, <1>14,
     <1>15, <1>16, <1>17, <1>18, <1>19, <1>20, <1>21, <1>22, <1>23, <1>24, <1>25, <1>26, <1>27,
     <1>28, <1>29, ClassTests

LEMMA Unambiguous ==
  ASSUME NEW w
  PROVE  ~Ambiguous(w)
<1>1. Apart(w) = {} \/ \E c : Apart(w) = {c}
  BY OneClass
<1>2. Cardinality(Apart(w)) \in {0, 1}
  BY <1>1, FS_EmptySet, FS_Singleton
<1>3. QED
  BY <1>2 DEF Ambiguous, Apart, Shadowed

(* No 32-bit word is in two encoding classes: whatever words are loaded and    *)
(* probed, the order of the tests in DecodeInto decides nothing but that       *)
(* vector loads and stores come first.                                        *)
THEOREM DecodingIsUnambiguous == SimSpec => []ClassesAreDisjoint
<1>1. ClassesAreDisjoint
  BY Unambiguous DEF ClassesAreDisjoint, AmbiguousProbes
<1>2. QED
  BY <1>1, PTL

---------------------------------------------------------------------------
(* Addition: every carry Add finds at once is the one from below.          *)

\* A carry into position b: some position generates one and those between pass it on.
Carry(x, y, b) ==
  \E j \in x \cap y : j < b /\ \A i \in j + 1 .. b - 1 : i \in Xor(x, y)

\* Of the d positions up to b: one generates a carry that comes out of b; all pass one on.
Generates(x, y, d) ==
  {b \in Nat : \E j \in x \cap y : j <= b /\ b < j + d /\ \A i \in j + 1 .. b : i \in Xor(x, y)}
Passes(x, y, d) ==
  {b \in Nat : d <= b + 1 /\ \A i \in b - d + 1 .. b : i \in Xor(x, y)}

LEMMA ShlBits ==
  ASSUME NEW x, x \subseteq Int, NEW k \in Nat, NEW n \in Nat
  PROVE  \A b : b \in Shl(x, k, n) <=> b \in 0 .. n - 1 /\ b - k \in x
<1> SUFFICES ASSUME NEW b
             PROVE  b \in Shl(x, k, n) <=> b \in 0 .. n - 1 /\ b - k \in x
  OBVIOUS
<1>1. b \in Shl(x, k, n) <=> b \in 0 .. n - 1 /\ \E c \in x : b = c + k
  BY DEF Shl, Low, Ones
<1>2. ASSUME b \in 0 .. n - 1 PROVE (\E c \in x : b = c + k) <=> b - k \in x
  <2>1. b \in Int /\ b = (b - k) + k
    BY <1>2
  <2>2. \A c \in x : b = c + k => c = b - k
    BY <2>1
  <2>3. QED
    BY <2>1, <2>2
<1>3. QED
  BY <1>1, <1>2

LEMMA XorBits ==
  ASSUME NEW x, NEW y
  PROVE  \A b : b \in Xor(x, y) <=> ~(b \in x <=> b \in y)
  BY DEF Xor

LEMMA SingleSpan ==
  ASSUME NEW x \in SUBSET Nat, NEW y \in SUBSET Nat
  PROVE  Generates(x, y, 1) = x \cap y /\ Passes(x, y, 1) = Xor(x, y)
<1>1. ASSUME NEW b PROVE b \in Generates(x, y, 1) <=> b \in x \cap y
  <2>1. ASSUME b \in x \cap y PROVE b \in Generates(x, y, 1)
    BY <2>1 DEF Generates
  <2>2. ASSUME b \in Generates(x, y, 1) PROVE b \in x \cap y
    <3>1. PICK j \in x \cap y : j <= b /\ b < j + 1 /\ b \in Nat
      BY <2>2 DEF Generates
    <3>2. j = b
      BY <3>1
    <3>3. QED
      BY <3>1, <3>2
  <2>3. QED
    BY <2>1, <2>2
<1>2. ASSUME NEW b PROVE b \in Passes(x, y, 1) <=> b \in Xor(x, y)
  <2>1. b \in Xor(x, y) => b \in Nat
    BY XorBits
  <2>2. ASSUME b \in Nat PROVE b \in Passes(x, y, 1) <=> b \in Xor(x, y)
    BY <2>2 DEF Passes
  <2>3. QED
    BY <2>1, <2>2 DEF Passes
<1>3. QED
  BY <1>1, <1>2

LEMMA DoubleSpan ==
  ASSUME NEW n \in Nat, NEW x \in SUBSET Ones(n), NEW y \in SUBSET Ones(n),
         NEW d \in Nat, d > 0
  PROVE  LET g == Generates(x, y, d)
             p == Passes(x, y, d)
         IN /\ Generates(x, y, 2 * d) = g \cup (p \cap Shl(g, d, n))
            /\ Passes(x, y, 2 * d) = p \cap Shl(p, d, n)
<1> DEFINE g == Generates(x, y, d)
           p == Passes(x, y, d)
<1>1. /\ x \subseteq Nat /\ y \subseteq Nat /\ g \subseteq Nat /\ p \subseteq Nat
      /\ \A b \in Xor(x, y) : b \in 0 .. n - 1
  <2>1. x \subseteq Nat /\ y \subseteq Nat
    BY DEF Ones
  <2>2. g \subseteq Nat /\ p \subseteq Nat
    BY DEF Generates, Passes
  <2>3. \A b \in Xor(x, y) : b \in 0 .. n - 1
    BY XorBits DEF Ones
  <2>4. QED
    BY <2>1, <2>2, <2>3
<1>2. \A b \in g \cup p : b < n
  <2>1. ASSUME NEW b \in p PROVE b < n
    <3>1. b \in b - d + 1 .. b
      BY <1>1
    <3>2. b \in Xor(x, y)
      BY <3>1 DEF Passes
    <3>3. QED
      BY <1>1, <3>2
  <2>2. ASSUME NEW b \in g PROVE b < n
    <3>1. PICK j \in x \cap y : j <= b /\ \A i \in j + 1 .. b : i \in Xor(x, y)
      BY DEF Generates
    <3>2. CASE j = b
      BY <3>2 DEF Ones
    <3>3. CASE j # b
      <4>1. b \in j + 1 .. b
        BY <1>1, <3>1, <3>3
      <4>2. QED
        BY <1>1, <3>1, <4>1
    <3>4. QED
      BY <3>2, <3>3
  <2>3. QED
    BY <2>1, <2>2
<1>3. ASSUME NEW b PROVE b \in Generates(x, y, 2 * d) <=> b \in g \cup (p \cap Shl(g, d, n))
  <2>1. ASSUME b \in g PROVE b \in Generates(x, y, 2 * d)
    BY <1>1, <2>1 DEF Generates
  <2>2. ASSUME b \in p, b \in Shl(g, d, n) PROVE b \in Generates(x, y, 2 * d)
    <3>1. b - d \in g /\ b \in Nat
      BY <1>1, <2>2, ShlBits
    <3>2. PICK j \in x \cap y : /\ j <= b - d /\ b - d < j + d
                                /\ \A i \in j + 1 .. b - d : i \in Xor(x, y)
      BY <3>1 DEF Generates
    <3>3. \A i \in b - d + 1 .. b : i \in Xor(x, y)
      BY <2>2 DEF Passes
    <3>4. \A i \in j + 1 .. b : i \in j + 1 .. b - d \/ i \in b - d + 1 .. b
      BY <1>1, <3>1
    <3>5. j \in Nat /\ j <= b /\ b < j + 2 * d
      BY <1>1, <3>1, <3>2
    <3>6. QED
      BY <3>1, <3>2, <3>3, <3>4, <3>5 DEF Generates
  <2>3. ASSUME b \in Generates(x, y, 2 * d), b \notin g
        PROVE  b \in p /\ b \in Shl(g, d, n)
    <3>1. PICK j \in x \cap y : /\ j <= b /\ b < j + 2 * d /\ b \in Nat
                                /\ \A i \in j + 1 .. b : i \in Xor(x, y)
      BY <2>3 DEF Generates
    <3>2. j \in Nat
      BY <1>1
    <3>3. j + d <= b
      BY <2>3, <3>1, <3>2 DEF Generates
    <3>4. b \in p
      <4>1. \A i \in b - d + 1 .. b : i \in j + 1 .. b
        BY <3>1, <3>2, <3>3
      <4>2. QED
        BY <3>1, <3>2, <3>3, <4>1 DEF Passes
    <3>5. b - d \in g
      <4>1. \A i \in j + 1 .. b - d : i \in j + 1 .. b
        BY <3>1, <3>2, <3>3
      <4>2. b - d \in Nat /\ j <= b - d /\ b - d < j + d
        BY <3>1, <3>2, <3>3
      <4>3. QED
        BY <3>1, <4>1, <4>2 DEF Generates
    <3>6. b \in 0 .. n - 1
      BY <1>1, <1>2, <3>1, <3>4
    <3>7. QED
      BY <1>1, <3>4, <3>5, <3>6, ShlBits
  <2>4. QED
    BY <2>1, <2>2, <2>3
<1>4. ASSUME NEW b PROVE b \in Passes(x, y, 2 * d) <=> b \in p \cap Shl(p, d, n)
  <2>1. ASSUME b \in p, b \in Shl(p, d, n) PROVE b \in Passes(x, y, 2 * d)
    <3>1. b - d \in p /\ b \in Nat /\ b - d \in Nat
      BY <1>1, <2>1, ShlBits
    <3>2. \A i \in b - 2 * d + 1 .. b : i \in (b - d) - d + 1 .. b - d \/ i \in b - d + 1 .. b
      BY <3>1
    <3>3. /\ d <= (b - d) + 1
          /\ \A i \in (b - d) - d + 1 .. b - d : i \in Xor(x, y)
          /\ \A i \in b - d + 1 .. b : i \in Xor(x, y)
      BY <2>1, <3>1 DEF Passes
    <3>4. 2 * d <= b + 1
      BY <3>1, <3>3
    <3>5. QED
      BY <3>1, <3>2, <3>3, <3>4 DEF Passes
  <2>2. ASSUME b \in Passes(x, y, 2 * d) PROVE b \in p /\ b \in Shl(p, d, n)
    <3>1. /\ b \in Nat /\ 2 * d <= b + 1
          /\ \A i \in b - 2 * d + 1 .. b : i \in Xor(x, y)
      BY <2>2 DEF Passes
    <3>2. \A i \in b - d + 1 .. b : i \in b - 2 * d + 1 .. b
      BY <3>1
    <3>3. \A i \in (b - d) - d + 1 .. b - d : i \in b - 2 * d + 1 .. b
      BY <3>1
    <3>4. b \in p
      BY <3>1, <3>2 DEF Passes
    <3>5. b - d \in p
      <4>1. b - d \in Nat /\ d <= (b - d) + 1
        BY <3>1
      <4>2. QED
        BY <3>1, <3>3, <4>1 DEF Passes
    <3>6. b \in 0 .. n - 1
      BY <1>1, <1>2, <3>1, <3>4
    <3>7. QED
      BY <1>1, <3>4, <3>5, <3>6, ShlBits
  <2>3. QED
    BY <2>1, <2>2
<1>5. QED
  BY <1>3, <1>4

\* The function Add finds all carries with.
Spans(x, y, n) == CHOOSE f : f = [k \in 0 .. 6 |->
  IF k = 0 THEN [generate |-> x \cap y, pass |-> Xor(x, y)]
  ELSE [generate |-> f[k - 1].generate
                       \cup (f[k - 1].pass \cap Shl(f[k - 1].generate, 2^(k - 1), n)),
        pass |-> f[k - 1].pass \cap Shl(f[k - 1].pass, 2^(k - 1), n)]]

LEMMA AddAs ==
  ASSUME NEW x, NEW y, NEW n
  PROVE  Add(x, y, n) = Low(Xor(Xor(x, y), Shl(Spans(x, y, n)[6].generate, 1, n)), n)
  BY DEF Add, Spans

LEMMA LastSpan ==
  ASSUME NEW n \in Nat, NEW x \in SUBSET Ones(n), NEW y \in SUBSET Ones(n)
  PROVE  Spans(x, y, n)[6].generate = Generates(x, y, 64)
<1> DEFINE Over(d) == [generate |-> Generates(x, y, d), pass |-> Passes(x, y, d)]
           Twice(h, d) == [generate |-> h.generate \cup (h.pass \cap Shl(h.generate, d, n)),
                           pass |-> h.pass \cap Shl(h.pass, d, n)]
           Is(f) == f = [k \in 0 .. 6 |->
                           IF k = 0 THEN [generate |-> x \cap y, pass |-> Xor(x, y)]
                           ELSE Twice(f[k - 1], 2^(k - 1))]
           g == [k \in 0 .. 6 |-> Over(2^k)]
           s == Spans(x, y, n)
<1>1. /\ 2^0 = 1 /\ 2^1 = 2 /\ 2^2 = 4 /\ 2^3 = 8 /\ 2^4 = 16 /\ 2^5 = 32 /\ 2^6 = 64
  BY SMT
<1>2. [generate |-> x \cap y, pass |-> Xor(x, y)] = Over(1)
  <2>1. x \in SUBSET Nat /\ y \in SUBSET Nat
    BY DEF Ones
  <2>2. QED
    BY <2>1, SingleSpan
<1>3. ASSUME NEW d \in Nat, d > 0 PROVE Twice(Over(d), d) = Over(2 * d)
  <2>1. /\ Generates(x, y, 2 * d)
             = Generates(x, y, d) \cup (Passes(x, y, d) \cap Shl(Generates(x, y, d), d, n))
        /\ Passes(x, y, 2 * d) = Passes(x, y, d) \cap Shl(Passes(x, y, d), d, n)
    BY <1>3, DoubleSpan
  <2>2. QED
    BY <2>1
<1> HIDE DEF Over, Twice
<1>4. Is(g)
  <2>1. ASSUME NEW k \in 0 .. 6, k # 0
        PROVE  Over(2^k) = Twice(g[k - 1], 2^(k - 1))
    <3>1. g[k - 1] = Over(2^(k - 1))
      BY <2>1
    <3>2. CASE k = 1
      BY <1>1, <1>3, <3>1, <3>2
    <3>3. CASE k = 2
      BY <1>1, <1>3, <3>1, <3>3
    <3>4. CASE k = 3
      BY <1>1, <1>3, <3>1, <3>4
    <3>5. CASE k = 4
      BY <1>1, <1>3, <3>1, <3>5
    <3>6. CASE k = 5
      BY <1>1, <1>3, <3>1, <3>6
    <3>7. CASE k = 6
      BY <1>1, <1>3, <3>1, <3>7
    <3>8. QED
      BY <2>1, <3>2, <3>3, <3>4, <3>5, <3>6, <3>7
  <2>2. QED
    BY <1>1, <1>2, <2>1
<1>5. Is(s)
  <2>1. s = CHOOSE f : Is(f)
    BY DEF Spans, Twice
  <2> HIDE DEF s, g, Is
  <2>2. QED
    BY <1>4, <2>1
<1> HIDE DEF g, s
<1>6. s[0] = Over(1) /\ \A k \in 0 .. 6 : k # 0 => s[k] = Twice(s[k - 1], 2^(k - 1))
  BY <1>2, <1>5
<1>7. /\ s[1] = Twice(s[0], 1) /\ s[2] = Twice(s[1], 2) /\ s[3] = Twice(s[2], 4)
      /\ s[4] = Twice(s[3], 8) /\ s[5] = Twice(s[4], 16) /\ s[6] = Twice(s[5], 32)
  BY <1>1, <1>6
<1>8. s[6] = Over(64)
  BY <1>3, <1>6, <1>7
<1>9. QED
  BY <1>8 DEF s, Over

LEMMA AddBits ==
  ASSUME NEW n \in 0 .. 64, NEW x \in SUBSET Ones(n), NEW y \in SUBSET Ones(n)
  PROVE  \A b : b \in Add(x, y, n) <=> b \in 0 .. n - 1 /\ ~(b \in Xor(x, y) <=> Carry(x, y, b))
<1> DEFINE G == Generates(x, y, 64)
<1>1. G \subseteq Int /\ x \subseteq 0 .. n - 1 /\ y \subseteq 0 .. n - 1
  BY DEF Generates, Ones
<1>2. ASSUME NEW b \in 0 .. n - 1 PROVE b \in Shl(G, 1, n) <=> Carry(x, y, b)
  <2>1. b \in Shl(G, 1, n) <=> b - 1 \in G
    BY <1>1, ShlBits
  <2>2. ASSUME b - 1 \in G PROVE Carry(x, y, b)
    <3>1. PICK j \in x \cap y : j <= b - 1 /\ \A i \in j + 1 .. b - 1 : i \in Xor(x, y)
      BY <2>2 DEF Generates
    <3>2. j < b
      BY <1>1, <3>1
    <3>3. QED
      BY <3>1, <3>2 DEF Carry
  <2>3. ASSUME Carry(x, y, b) PROVE b - 1 \in G
    <3>1. PICK j \in x \cap y : j < b /\ \A i \in j + 1 .. b - 1 : i \in Xor(x, y)
      BY <2>3 DEF Carry
    <3>2. b - 1 \in Nat /\ j <= b - 1 /\ b - 1 < j + 64
      BY <1>1, <3>1
    <3>3. QED
      BY <3>1, <3>2 DEF Generates
  <2>4. QED
    BY <2>1, <2>2, <2>3
<1>3. Add(x, y, n) = Low(Xor(Xor(x, y), Shl(G, 1, n)), n)
  BY AddAs, LastSpan
<1> HIDE DEF G
<1>4. QED
  BY <1>2, <1>3, XorBits DEF Low, Ones

---------------------------------------------------------------------------
(* Subtraction and the order of words.                                     *)

\* A borrow from position b: below it y has a one where x has none, and they agree between.
Borrow(x, y, b) ==
  \E j \in y \ x : j < b /\ \A i \in j + 1 .. b - 1 : i \in x <=> i \in y

LEMMA NotBits ==
  ASSUME NEW x, NEW n \in Nat
  PROVE  \A b : b \in Not(x, n) <=> b \in 0 .. n - 1 /\ b \notin x
  BY DEF Not, Ones

LEMMA SubBits ==
  ASSUME NEW n \in 0 .. 64, NEW x \in SUBSET Ones(n), NEW y \in SUBSET Ones(n)
  PROVE  \A b : b \in Sub(x, y, n) <=> b \in 0 .. n - 1 /\ ~(b \in Xor(x, y) <=> Borrow(x, y, b))
<1> DEFINE u == Not(x, n)
<1>1. n \in Nat /\ x \subseteq 0 .. n - 1 /\ y \subseteq 0 .. n - 1
  BY DEF Ones
<1>2. u \in SUBSET Ones(n) /\ \A b : b \in u <=> b \in 0 .. n - 1 /\ b \notin x
  BY <1>1, NotBits DEF Ones
<1>3. Low(y, n) = y
  BY DEF Low
<1> HIDE DEF u
<1>4. ASSUME NEW b \in 0 .. n - 1
      PROVE  Carry(u, y, b) <=> Borrow(x, y, b)
  <2>1. \A j \in u \cap y : j \in y \ x
    BY <1>2
  <2>2. \A j \in y \ x : j \in u \cap y
    BY <1>1, <1>2
  <2>3. \A j \in y : \A i \in j + 1 .. b - 1 : i \in Xor(u, y) <=> (i \in x <=> i \in y)
    <3>1. \A j \in y : \A i \in j + 1 .. b - 1 : i \in 0 .. n - 1
      BY <1>1
    <3>2. QED
      BY <1>2, <3>1, XorBits
  <2>4. QED
    BY <2>1, <2>2, <2>3 DEF Carry, Borrow
<1>5. \A b : b \in Add(u, y, n) <=> b \in 0 .. n - 1 /\ ~(b \in Xor(u, y) <=> Carry(u, y, b))
  BY <1>2, AddBits
<1>6. \A b : b \in Sub(x, y, n) <=> b \in 0 .. n - 1 /\ b \notin Add(u, y, n)
  BY <1>1, <1>3, NotBits DEF Sub, u
<1>7. \A b \in 0 .. n - 1 : b \in Xor(u, y) <=> b \notin Xor(x, y)
  BY <1>2, XorBits
<1>8. QED
  BY <1>4, <1>5, <1>6, <1>7

LEMMA Greatest ==
  ASSUME NEW n \in Nat, NEW T \in SUBSET (0 .. n - 1), T # {}
  PROVE  \E m \in T : \A b \in T : b <= m
<1> DEFINE D == {d \in Nat : n - 1 - d \in T}
<1>1. \A b \in T : n - 1 - b \in D
  BY DEF D
<1>2. D # {}
  BY <1>1
<1>3. PICK d \in D : \A e \in D : d <= e
  BY <1>2, Least
<1>4. \A b \in T : b <= n - 1 - d
  BY <1>1, <1>3
<1>5. QED
  BY <1>4

\* Of two words that differ the one with the highest differing bit is the greater.
LEMMA HighestDecides ==
  ASSUME NEW n \in Nat, NEW x \in SUBSET Ones(n), NEW y \in SUBSET Ones(n),
         NEW m \in Xor(x, y), \A b \in Xor(x, y) : b <= m
  PROVE  (m \in y <=> Less(x, y)) /\ (m \in x <=> Less(y, x))
<1>1. Xor(x, y) \subseteq 0 .. n - 1
  BY XorBits DEF Ones
<1>2. \A b : b \in (x \ y) \cup (y \ x) <=> b \in Xor(x, y)
  BY XorBits
<1>3. ASSUME m \in y PROVE Less(x, y)
  <2>1. m \in y \ x
    BY <1>2, <1>3
  <2>2. \A c \in x \ y : c <= m /\ c # m /\ c \in Int /\ m \in Int
    BY <1>1, <1>2, <2>1
  <2>3. QED
    BY <2>1, <2>2 DEF Less
<1>4. ASSUME m \in x PROVE Less(y, x)
  <2>1. m \in x \ y
    BY <1>2, <1>4
  <2>2. \A c \in y \ x : c <= m /\ c # m /\ c \in Int /\ m \in Int
    BY <1>1, <1>2, <2>1
  <2>3. QED
    BY <2>1, <2>2 DEF Less
<1>5. ASSUME Less(x, y), m \in x PROVE FALSE
  <2>1. PICK b \in y \ x : \A c \in x \ y : c < b
    BY <1>5 DEF Less
  <2>2. m < b /\ b <= m
    BY <1>2, <1>5, <2>1
  <2>3. QED
    BY <1>1, <1>2, <2>1, <2>2
<1>6. ASSUME Less(y, x), m \in y PROVE FALSE
  <2>1. PICK b \in x \ y : \A c \in y \ x : c < b
    BY <1>6 DEF Less
  <2>2. m < b /\ b <= m
    BY <1>2, <1>6, <2>1
  <2>3. QED
    BY <1>1, <1>2, <2>1, <2>2
<1>7. QED
  BY <1>2, <1>3, <1>4, <1>5, <1>6

LEMMA LessIsTotal ==
  ASSUME NEW n \in Nat, NEW x \in SUBSET Ones(n), NEW y \in SUBSET Ones(n)
  PROVE  /\ x = y => ~Less(x, y) /\ ~Less(y, x)
         /\ x # y => (Less(x, y) <=> ~Less(y, x))
<1>1. ASSUME x = y PROVE ~Less(x, y) /\ ~Less(y, x)
  BY <1>1 DEF Less
<1>2. ASSUME x # y PROVE Less(x, y) <=> ~Less(y, x)
  <2>1. Xor(x, y) # {}
    BY <1>2, XorBits
  <2>2. Xor(x, y) \in SUBSET (0 .. n - 1)
    BY XorBits DEF Ones
  <2>3. PICK m \in Xor(x, y) : \A b \in Xor(x, y) : b <= m
    BY <2>1, <2>2, Greatest
  <2>4. ~(m \in x <=> m \in y)
    BY XorBits
  <2>5. QED
    BY <2>3, <2>4, HighestDecides
<1>3. QED
  BY <1>1, <1>2

\* A difference is 0 between equal words only; otherwise the lowest differing bit is in it.
LEMMA ZeroDifference ==
  ASSUME NEW n \in 0 .. 64, NEW x \in SUBSET Ones(n), NEW y \in SUBSET Ones(n)
  PROVE  Sub(x, y, n) = {} <=> x = y
<1>1. Xor(x, y) \subseteq 0 .. n - 1
  BY XorBits DEF Ones
<1>2. ASSUME x = y PROVE Sub(x, y, n) = {}
  <2>1. \A b : ~Borrow(x, y, b) /\ b \notin Xor(x, y)
    BY <1>2, XorBits DEF Borrow
  <2>2. QED
    BY <2>1, SubBits
<1>3. ASSUME x # y PROVE Sub(x, y, n) # {}
  <2>1. Xor(x, y) # {} /\ Xor(x, y) \in SUBSET Nat
    <3>1. \E b : ~(b \in x <=> b \in y)
      BY <1>3
    <3>2. QED
      BY <1>1, <3>1, XorBits
  <2>2. PICK m \in Xor(x, y) : \A b \in Xor(x, y) : m <= b
    BY <2>1, Least
  <2>3. ~Borrow(x, y, m)
    <3>1. \A j \in y \ x : j \in Xor(x, y)
      BY XorBits
    <3>2. \A j \in y \ x : ~(j < m)
      BY <1>1, <2>2, <3>1
    <3>3. QED
      BY <3>2 DEF Borrow
  <2>4. m \in Sub(x, y, n)
    BY <1>1, <2>3, SubBits
  <2>5. QED
    BY <2>4
<1>4. QED
  BY <1>2, <1>3

\* Between words with the same top bit the difference is negative when x is the smaller.
LEMMA SignOfDifference ==
  ASSUME NEW n \in 1 .. 64, NEW x \in SUBSET Ones(n), NEW y \in SUBSET Ones(n),
         n - 1 \in x <=> n - 1 \in y
  PROVE  n - 1 \in Sub(x, y, n) <=> Less(x, y)
<1>1. Xor(x, y) \subseteq 0 .. n - 1 /\ n - 1 \notin Xor(x, y)
  <2>1. Xor(x, y) \subseteq 0 .. n - 1
    BY XorBits DEF Ones
  <2>2. n - 1 \notin Xor(x, y)
    BY XorBits
  <2>3. QED
    BY <2>1, <2>2
<1>2. n - 1 \in Sub(x, y, n) <=> Borrow(x, y, n - 1)
  BY <1>1, SubBits
<1>3. ASSUME Borrow(x, y, n - 1) PROVE Less(x, y)
  <2>1. PICK j \in y \ x : j < n - 1 /\ \A i \in j + 1 .. n - 1 - 1 : i \in x <=> i \in y
    BY <1>3 DEF Borrow
  <2>2. j \in Xor(x, y)
    BY XorBits
  <2>3. ASSUME NEW b \in Xor(x, y) PROVE b <= j
    <3>1. b \notin j + 1 .. n - 1 - 1
      BY <2>1, XorBits
    <3>2. b \in 0 .. n - 1 /\ b # n - 1 /\ j \in 0 .. n - 1
      BY <1>1, <2>2
    <3>3. QED
      BY <3>1, <3>2
  <2>4. QED
    BY <2>2, <2>3, HighestDecides
<1>4. ASSUME Less(x, y) PROVE Borrow(x, y, n - 1)
  <2>1. x # y
    BY <1>4 DEF Less
  <2>2. Xor(x, y) # {}
    BY <2>1, XorBits
  <2>3. PICK m \in Xor(x, y) : \A b \in Xor(x, y) : b <= m
    BY <1>1, <2>2, Greatest
  <2>4. m \in y \ x
    BY <1>4, <2>3, HighestDecides, XorBits
  <2>5. m < n - 1
    BY <1>1, <2>3
  <2>6. \A i \in m + 1 .. n - 1 - 1 : i \in x <=> i \in y
    <3>1. \A i \in m + 1 .. n - 1 - 1 : ~(i <= m)
      BY <1>1, <2>3
    <3>2. QED
      BY <2>3, <3>1, XorBits
  <2>7. QED
    BY <2>4, <2>5, <2>6 DEF Borrow
<1>5. QED
  BY <1>2, <1>3, <1>4

---------------------------------------------------------------------------
(* Conditions after a compare.                                             *)

FlagSet == [n : BOOLEAN, z : BOOLEAN, c : BOOLEAN, v : BOOLEAN]

LEMMA FlagFields ==
  ASSUME NEW a, NEW b, NEW c, NEW d, NEW f, f = [n |-> a, z |-> b, c |-> c, v |-> d]
  PROVE  f.n = a /\ f.z = b /\ f.c = c /\ f.v = d
  OBVIOUS

\* What each flag says of two words that were compared.
LEMMA FlagsAfterCompare ==
  ASSUME NEW n \in 1 .. 64, NEW x \in SUBSET Ones(n), NEW y \in SUBSET Ones(n),
         NEW f, f = SetSubFlags(x, y, Sub(x, y, n), n)
  PROVE  /\ f \in FlagSet
         /\ f.z <=> x = y
         /\ f.c <=> ~Less(x, y)
         /\ (f.n <=> f.v) <=> ~SignedLess(x, y, n)
<1> DEFINE r == Sub(x, y, n)
<1>1. f = [n |-> n - 1 \in r, z |-> r = {}, c |-> ~Less(x, y),
           v |-> (n - 1 \in x) # (n - 1 \in y) /\ (n - 1 \in y) = (n - 1 \in r)]
  BY DEF SetSubFlags
<1> HIDE DEF r
<1>2. f \in FlagSet
  BY <1>1, SMT DEF FlagSet
<1>3. f.n = (n - 1 \in r) /\ f.z = (r = {}) /\ f.c = ~Less(x, y)
      /\ f.v = ((n - 1 \in x) # (n - 1 \in y) /\ (n - 1 \in y) = (n - 1 \in r))
  <2> DEFINE negative == n - 1 \in r
             zero == r = {}
             noBorrow == ~Less(x, y)
             overflow == (n - 1 \in x) # (n - 1 \in y) /\ (n - 1 \in y) = (n - 1 \in r)
  <2>1. f = [n |-> negative, z |-> zero, c |-> noBorrow, v |-> overflow]
    BY <1>1, Zenon
  <2> HIDE DEF negative, zero, noBorrow, overflow
  <2>2. f.n = negative /\ f.z = zero /\ f.c = noBorrow /\ f.v = overflow
    BY <2>1, FlagFields
  <2>3. QED
    BY <2>2, Zenon DEF negative, zero, noBorrow, overflow
<1>7. r = {} <=> x = y
  BY ZeroDifference DEF r
<1>8. SignedLess(x, y, n) <=> IF n - 1 \in x <=> n - 1 \in y THEN Less(x, y) ELSE n - 1 \in x
  BY DEF SignedLess
<1>9. (n - 1 \in x <=> n - 1 \in y) => (n - 1 \in r <=> Less(x, y))
  BY SignOfDifference DEF r
<1>10. f.z <=> x = y
  BY <1>3, <1>7, Zenon
<1>11. f.c <=> ~Less(x, y)
  BY <1>3, Zenon
<1>12. f.n <=> n - 1 \in r
  BY <1>3, Zenon
<1>13. f.v <=> ~(n - 1 \in x <=> n - 1 \in y) /\ (n - 1 \in y <=> n - 1 \in r)
  <2>1. ((n - 1 \in x) # (n - 1 \in y)) <=> ~(n - 1 \in x <=> n - 1 \in y)
    OBVIOUS
  <2>2. ((n - 1 \in y) = (n - 1 \in r)) <=> (n - 1 \in y <=> n - 1 \in r)
    OBVIOUS
  <2>3. QED
    BY <1>3, <2>1, <2>2, Zenon
<1>14. (f.n <=> f.v) <=> ~SignedLess(x, y, n)
  BY <1>8, <1>9, <1>12, <1>13, Zenon
<1>15. QED
  BY <1>2, <1>10, <1>11, <1>14, Zenon

LEMMA SignedLessIsTotal ==
  ASSUME NEW n \in 1 .. 64, NEW x \in SUBSET Ones(n), NEW y \in SUBSET Ones(n)
  PROVE  /\ x = y => ~SignedLess(x, y, n) /\ ~SignedLess(y, x, n)
         /\ x # y => (SignedLess(x, y, n) <=> ~SignedLess(y, x, n))
  BY LessIsTotal DEF SignedLess

LEMMA ConditionsOfFlags ==
  ASSUME NEW n \in 1 .. 64, NEW x \in SUBSET Ones(n), NEW y \in SUBSET Ones(n),
         NEW f \in FlagSet,
         f.z <=> x = y, f.c <=> ~Less(x, y), (f.n <=> f.v) <=> ~SignedLess(x, y, n),
         NEW cond \in Comparisons
  PROVE  /\ CheckCondition(f, cond) <=> Holds(cond, x, y, n)
         /\ EvaluateCondition(f, cond) <=> Holds(cond, x, y, n)
<1>1. f.n \in BOOLEAN /\ f.z \in BOOLEAN /\ f.c \in BOOLEAN /\ f.v \in BOOLEAN
  BY DEF FlagSet
<1>2. cond = 0 \/ cond = 1 \/ cond = 2 \/ cond = 3 \/ cond = 8 \/ cond = 9 \/ cond = 10 \/ cond = 11
      \/ cond = 12 \/ cond = 13
  BY DEF Comparisons
<1>3. /\ x = y => ~Less(x, y) /\ ~Less(y, x) /\ ~SignedLess(x, y, n) /\ ~SignedLess(y, x, n)
      /\ x # y => (Less(x, y) <=> ~Less(y, x))
      /\ x # y => (SignedLess(x, y, n) <=> ~SignedLess(y, x, n))
  BY LessIsTotal, SignedLessIsTotal
<1>4. /\ f.c /\ ~f.z <=> Less(y, x)
      /\ ~f.c \/ f.z <=> ~Less(y, x)
      /\ ~f.z /\ (f.n <=> f.v) <=> SignedLess(y, x, n)
      /\ f.z \/ ~(f.n <=> f.v) <=> ~SignedLess(y, x, n)
  BY <1>1, <1>3
<1>5. f.n = f.v <=> (f.n <=> f.v)
  BY <1>1, Zenon
<1>6. f.n # f.v <=> ~(f.n <=> f.v)
  BY <1>5, Zenon
<1>7. CASE cond = 0
  <2>1. CheckCondition(f, cond) <=> f.z
    BY <1>1, <1>5, <1>6, <1>7 DEF CheckCondition
  <2>2. EvaluateCondition(f, cond) <=> f.z
    BY <1>1, <1>5, <1>6, <1>7 DEF EvaluateCondition
  <2>3. Holds(cond, x, y, n) <=> x = y
    BY <1>7 DEF Holds
  <2>4. QED
    BY <1>4, <2>1, <2>2, <2>3, Zenon
<1>8. CASE cond = 1
  <2>1. CheckCondition(f, cond) <=> ~f.z
    BY <1>1, <1>5, <1>6, <1>8 DEF CheckCondition
  <2>2. EvaluateCondition(f, cond) <=> ~f.z
    BY <1>1, <1>5, <1>6, <1>8 DEF EvaluateCondition
  <2>3. Holds(cond, x, y, n) <=> x # y
    BY <1>8 DEF Holds
  <2>4. QED
    BY <1>4, <2>1, <2>2, <2>3, Zenon
<1>9. CASE cond = 2
  <2>1. CheckCondition(f, cond) <=> f.c
    BY <1>1, <1>5, <1>6, <1>9 DEF CheckCondition
  <2>2. EvaluateCondition(f, cond) <=> f.c
    BY <1>1, <1>5, <1>6, <1>9 DEF EvaluateCondition
  <2>3. Holds(cond, x, y, n) <=> ~Less(x, y)
    BY <1>9 DEF Holds
  <2>4. QED
    BY <1>4, <2>1, <2>2, <2>3, Zenon
<1>10. CASE cond = 3
  <2>1. CheckCondition(f, cond) <=> ~f.c
    BY <1>1, <1>5, <1>6, <1>10 DEF CheckCondition
  <2>2. EvaluateCondition(f, cond) <=> ~f.c
    BY <1>1, <1>5, <1>6, <1>10 DEF EvaluateCondition
  <2>3. Holds(cond, x, y, n) <=> Less(x, y)
    BY <1>10 DEF Holds
  <2>4. QED
    BY <1>4, <2>1, <2>2, <2>3, Zenon
<1>11. CASE cond = 8
  <2>1. CheckCondition(f, cond) <=> f.c /\ ~f.z
    BY <1>1, <1>5, <1>6, <1>11 DEF CheckCondition
  <2>2. EvaluateCondition(f, cond) <=> f.c /\ ~f.z
    BY <1>1, <1>5, <1>6, <1>11 DEF EvaluateCondition
  <2>3. Holds(cond, x, y, n) <=> Less(y, x)
    BY <1>11 DEF Holds
  <2>4. QED
    BY <1>4, <2>1, <2>2, <2>3, Zenon
<1>12. CASE cond = 9
  <2>1. CheckCondition(f, cond) <=> ~f.c \/ f.z
    BY <1>1, <1>5, <1>6, <1>12 DEF CheckCondition
  <2>2. EvaluateCondition(f, cond) <=> ~f.c \/ f.z
    BY <1>1, <1>5, <1>6, <1>12 DEF EvaluateCondition
  <2>3. Holds(cond, x, y, n) <=> ~Less(y, x)
    BY <1>12 DEF Holds
  <2>4. QED
    BY <1>4, <2>1, <2>2, <2>3, Zenon
<1>13. CASE cond = 10
  <2>1. CheckCondition(f, cond) <=> (f.n <=> f.v)
    BY <1>1, <1>5, <1>6, <1>13 DEF CheckCondition
  <2>2. EvaluateCondition(f, cond) <=> (f.n <=> f.v)
    BY <1>1, <1>5, <1>6, <1>13 DEF EvaluateCondition
  <2>3. Holds(cond, x, y, n) <=> ~SignedLess(x, y, n)
    BY <1>13 DEF Holds
  <2>4. QED
    BY <1>4, <2>1, <2>2, <2>3, Zenon
<1>14. CASE cond = 11
  <2>1. CheckCondition(f, cond) <=> ~(f.n <=> f.v)
    BY <1>1, <1>5, <1>6, <1>14 DEF CheckCondition
  <2>2. EvaluateCondition(f, cond) <=> ~(f.n <=> f.v)
    BY <1>1, <1>5, <1>6, <1>14 DEF EvaluateCondition
  <2>3. Holds(cond, x, y, n) <=> SignedLess(x, y, n)
    BY <1>14 DEF Holds
  <2>4. QED
    BY <1>4, <2>1, <2>2, <2>3, Zenon
<1>15. CASE cond = 12
  <2>1. CheckCondition(f, cond) <=> ~f.z /\ (f.n <=> f.v)
    BY <1>1, <1>5, <1>6, <1>15 DEF CheckCondition
  <2>2. EvaluateCondition(f, cond) <=> ~f.z /\ (f.n <=> f.v)
    BY <1>1, <1>5, <1>6, <1>15 DEF EvaluateCondition
  <2>3. Holds(cond, x, y, n) <=> SignedLess(y, x, n)
    BY <1>15 DEF Holds
  <2>4. QED
    BY <1>4, <2>1, <2>2, <2>3, Zenon
<1>16. CASE cond = 13
  <2>1. CheckCondition(f, cond) <=> f.z \/ ~(f.n <=> f.v)
    BY <1>1, <1>5, <1>6, <1>16 DEF CheckCondition
  <2>2. EvaluateCondition(f, cond) <=> f.z \/ ~(f.n <=> f.v)
    BY <1>1, <1>5, <1>6, <1>16 DEF EvaluateCondition
  <2>3. Holds(cond, x, y, n) <=> ~SignedLess(y, x, n)
    BY <1>16 DEF Holds
  <2>4. QED
    BY <1>4, <2>1, <2>2, <2>3, Zenon
<1>17. QED
  BY <1>2, <1>7, <1>8, <1>9, <1>10, <1>11, <1>12, <1>13, <1>14, <1>15, <1>16, Zenon

---------------------------------------------------------------------------
(* What the emulator executes: the forms Decode gives and the shape of arch. *)

LEMMA TwoBits ==
  ASSUME NEW w, NEW hi \in Int, NEW lo \in Int, hi = lo + 1
  PROVE  Field(w, hi, lo) \in 0 .. 3
<1>1. Slice(w, hi, lo) \in SUBSET Bits16 /\ \A k \in 2 .. 15 : k \notin Slice(w, hi, lo)
  BY SliceBits DEF Bits16
<1> DEFINE s == Slice(w, hi, lo)
<1>2. Field(w, hi, lo) = Value(s)
  BY <1>1, NumIsValue DEF Field
<1> HIDE DEF s
<1>3. \A k \in 2 .. 15 : k \notin s
  BY <1>1 DEF s
<1>4. /\ 2 \notin s /\ 3 \notin s /\ 4 \notin s /\ 5 \notin s /\ 6 \notin s /\ 7 \notin s /\ 8 \notin s
      /\ 9 \notin s /\ 10 \notin s /\ 11 \notin s /\ 12 \notin s /\ 13 \notin s /\ 14 \notin s
      /\ 15 \notin s
  BY <1>3
<1>5. Value(s) \in 0 .. 3
  BY <1>4 DEF Value, Part
<1>6. QED
  BY <1>2, <1>5

LEMMA FieldIsNumber ==
  ASSUME NEW w, NEW hi \in Int, NEW lo \in Int, hi - lo < 16
  PROVE  Field(w, hi, lo) \in Nat
<1>1. PICK s : Field(w, hi, lo) = Value(s)
  BY FieldDigits
<1>2. Value(s) \in Nat
  BY DEF Value, Part
<1>3. QED
  BY <1>1, <1>2

Formats == {"Branch", "BranchCond", "BranchReg", "TestBranch", "CompareBranch", "DPImm", "DPReg",
            "LogicalImm", "Bitfield", "Extract", "LoadStore", "LoadStorePair", "LoadStoreLit",
            "PCRel", "MoveWide", "CondSelect", "CondCmp", "DataProc2Src", "DataProc3Src",
            "SystemReg", "SIMDReg", "SIMDLoadStore", "SIMDCopy"}

\* Execute has a case for it; subtractions and conditional branches have their formats.
HasForm(i) ==
  /\ i.op \in {"Unknown", "NOP", "SVC", "BRK"} \/ i.fmt \in Formats
  /\ i.op = "SUB" => i.fmt \in {"DPImm", "DPReg"}
  /\ i.op = "BCond" => i.fmt = "BranchCond"
  /\ i.fmt = "DPReg" => i.shiftType \in 0 .. 3 /\ i.shiftAmount \in Nat

LEMMA DecodedForms ==
  ASSUME NEW w
  PROVE  HasForm(Decode(w))
<1>1. /\ Field(w, 23, 22) \in 0 .. 3 /\ Field(w, 22, 21) \in 0 .. 3 /\ Field(w, 30, 29) \in 0 .. 3
      /\ Field(w, 31, 30) \in 0 .. 3 /\ Field(w, 15, 10) \in Nat
  <2>1. Field(w, 15, 10) \in Nat
    BY FieldIsNumber
  <2>2. QED
    BY <2>1, TwoBits
<1>2. HasForm(Unknown) /\ HasForm([Unknown EXCEPT !.op = "NOP"])
  BY DEF HasForm, Unknown, Formats
<1>3. HasForm(DecodeSIMDLoadStore(w))
  BY DEF HasForm, Unknown, Formats, DecodeSIMDLoadStore
<1>4. HasForm(DecodeSIMDCopy(w))
  BY DEF HasForm, Unknown, Formats, DecodeSIMDCopy
<1>5. HasForm(DecodeLoadStorePair(w))
  BY DEF HasForm, Unknown, Formats, DecodeLoadStorePair
<1>6. HasForm(DecodeDataProcessingImm(w))
  BY DEF HasForm, Unknown, Formats, DecodeDataProcessingImm
<1>7. HasForm(DecodeSIMDThreeSame(w))
  BY DEF HasForm, Unknown, Formats, DecodeSIMDThreeSame
<1>8. HasForm(DecodePCRelAddressing(w))
  BY DEF HasForm, Unknown, Formats, DecodePCRelAddressing
<1>9. HasForm(DecodeCondCmp(w))
  BY DEF HasForm, Unknown, Formats, DecodeCondCmp
<1>10. HasForm(DecodeConditionalSelect(w))
  BY DEF HasForm, Unknown, Formats, DecodeConditionalSelect
<1>11. HasForm(DecodeDataProc2Src(w))
  BY DEF HasForm, Unknown, Formats, DecodeDataProc2Src
<1>12. HasForm(DecodeDataProc3Src(w))
  BY DEF HasForm, Unknown, Formats, DecodeDataProc3Src
<1>13. HasForm(DecodeExtract(w))
  BY DEF HasForm, Unknown, Formats, DecodeExtract
<1>14. HasForm(DecodeTestBranch(w))
  BY DEF HasForm, Unknown, Formats, DecodeTestBranch
<1>15. HasForm(DecodeCompareBranch(w))
  BY DEF HasForm, Unknown, Formats, DecodeCompareBranch
<1>16. HasForm(DecodeException(w))
  BY DEF HasForm, Unknown, Formats, DecodeException
<1>17. HasForm(DecodeSystemReg(w))
  BY DEF HasForm, Unknown, Formats, DecodeSystemReg
<1>18. HasForm(DecodeLoadStoreLiteral(w))
  BY DEF HasForm, Unknown, Formats, DecodeLoadStoreLiteral, WithOffset
<1>19. HasForm(DecodeBranchImm(w))
  BY DEF HasForm, Unknown, Formats, DecodeBranchImm, WithOffset
<1>20. HasForm(DecodeBranchCond(w))
  BY DEF HasForm, Unknown, Formats, DecodeBranchCond, WithOffset
<1>21. HasForm(DecodeLoadStoreRegOffset(w))
  BY <1>1 DEF HasForm, Unknown, Formats, DecodeLoadStoreRegOffset, SizedAccess
<1>22. HasForm(DecodeLoadStoreRegIndexed(w))
  BY <1>1 DEF HasForm, Unknown, Formats, DecodeLoadStoreRegIndexed, SizedAccess
<1>23. HasForm(DecodeLoadStoreImm(w))
  BY <1>1 DEF HasForm, Unknown, Formats, DecodeLoadStoreImm
<1>24. HasForm(DecodeMoveWide(w))
  BY <1>1 DEF HasForm, Unknown, Formats, DecodeMoveWide
<1>25. HasForm(DecodeLogicalImm(w))
  BY <1>1 DEF HasForm, Unknown, Formats, DecodeLogicalImm
<1>26. HasForm(DecodeBitfield(w))
  BY <1>1 DEF HasForm, Unknown, Formats, DecodeBitfield
<1>27. HasForm(DecodeBranchReg(w))
  BY <1>1 DEF HasForm, Unknown, Formats, DecodeBranchReg
<1>28. HasForm(DecodeDataProcessingReg(w))
  BY <1>1 DEF HasForm, Unknown, Formats, DecodeDataProcessingReg
<1>29. QED
  BY <1>2, <1>3, <1>4, <1>5, <1>6, <1>7, <1>8, <1>9, <1>10, <1>11, <1>12, <1>13, <1>14, <1>15, <1>16,
     <1>17, <1>18, <1>19, <1>20, <1>21, <1>22, <1>23, <1>24, <1>25, <1>26, <1>27, <1>28 DEF Decode

\* A state of RegFile, PSTATE, Memory and the run, with each of its parts.
IsRegFile(regs) == regs = [r \in RegNums |-> regs[r]]
IsState(a) ==
  /\ a = [pc |-> a.pc, regs |-> a.regs, sp |-> a.sp, fl |-> a.fl, vec |-> a.vec, mem |-> a.mem,
          count |-> a.count, status |-> a.status, code |-> a.code]
  /\ IsRegFile(a.regs)

LEMMA PartsChange ==
  ASSUME NEW a, IsState(a), NEW v
  PROVE  /\ IsState([a EXCEPT !.pc = v]) /\ IsState([a EXCEPT !.sp = v])
         /\ IsState([a EXCEPT !.fl = v]) /\ IsState([a EXCEPT !.vec = v])
         /\ IsState([a EXCEPT !.mem = v]) /\ IsState([a EXCEPT !.count = v])
         /\ IsState([a EXCEPT !.status = v]) /\ IsState([a EXCEPT !.code = v])
         /\ IsRegFile(v) => IsState([a EXCEPT !.regs = v])
  BY DEF IsState

LEMMA WritesKeepState ==
  ASSUME NEW a, IsState(a), NEW r, NEW v
  PROVE  IsState(WriteReg(a, r, v)) /\ IsState(WriteRegOrSP(a, r, v))
<1>1. IsRegFile([a.regs EXCEPT ![r] = v])
  BY DEF IsState, IsRegFile
<1>2. IsState([a EXCEPT !.regs = [a.regs EXCEPT ![r] = v]])
  BY <1>1, PartsChange
<1>3. IsState([a EXCEPT !.sp = v])
  BY PartsChange
<1>4. QED
  BY <1>2, <1>3 DEF WriteReg, WriteRegOrSP

LEMMA JumpsKeepState ==
  ASSUME NEW a, IsState(a), NEW i, NEW code
  PROVE  IsState(Skip(a)) /\ IsState(Jump(a, i)) /\ IsState(Link(a)) /\ IsState(Stop(a, code))
<1>1. IsState(Skip(a))
  BY PartsChange DEF Skip
<1>2. IsState(Jump(a, i))
  BY PartsChange DEF Jump
<1>3. IsState(Link(a))
  BY WritesKeepState DEF Link
<1>4. IsState(Stop(a, code))
  <2> DEFINE b == [a EXCEPT !.status = "exited"]
  <2>1. IsState(b)
    BY PartsChange
  <2>2. Stop(a, code) = [b EXCEPT !.code = code]
    BY DEF Stop
  <2> HIDE DEF b
  <2>3. QED
    <3>1. IsState([b EXCEPT !.code = code])
      BY <2>1, PartsChange
    <3>2. QED
      BY <2>2, <3>1, Zenon
<1>5. QED
  BY <1>1, <1>2, <1>3, <1>4

LEMMA InstructionsKeepState ==
  ASSUME NEW a, IsState(a), NEW i
  PROVE  /\ IsState(ExecuteDPImm(a, i)) /\ IsState(ExecuteDPReg(a, i))
         /\ IsState(ExecuteLogicalImm(a, i)) /\ IsState(ExecuteBitfield(a, i))
         /\ IsState(ExecuteExtract(a, i)) /\ IsState(ExecuteMoveWide(a, i))
         /\ IsState(ExecuteCondSelect(a, i)) /\ IsState(ExecuteCondCmp(a, i))
         /\ IsState(ExecuteDataProc2Src(a, i)) /\ IsState(ExecuteDataProc3Src(a, i))
         /\ IsState(ExecutePCRel(a, i)) /\ IsState(ExecuteMRS(a, i))
         /\ IsState(ExecuteLoadStore(a, i)) /\ IsState(ExecuteLoadStorePair(a, i))
         /\ IsState(ExecuteLoadStoreLit(a, i)) /\ IsState(ExecuteSIMDReg(a, i))
         /\ IsState(ExecuteSIMDLoadStore(a, i)) /\ IsState(ExecuteSIMDCopy(a, i))
         /\ IsState(ExecuteBranch(a, i)) /\ IsState(ExecuteBranchCond(a, i))
         /\ IsState(ExecuteBranchReg(a, i)) /\ IsState(ExecuteTestBranch(a, i))
         /\ IsState(ExecuteCompareBranch(a, i)) /\ IsState(Handle(a))
<1>1. \A b, r, v : IsState(b) => IsState(WriteReg(b, r, v)) /\ IsState(WriteRegOrSP(b, r, v))
  BY WritesKeepState
<1>2. \A b, fl : IsState(b) => IsState(Flagged(b, i, fl)) /\ IsState([b EXCEPT !.fl = fl])
  BY PartsChange DEF Flagged
<1>3. \A b, v : IsState(b) => IsState([b EXCEPT !.mem = v]) /\ IsState([b EXCEPT !.vec = v])
                              /\ IsState([b EXCEPT !.pc = v])
  BY PartsChange
<1>4. \A b, code : IsState(b) => /\ IsState(Skip(b)) /\ IsState(Jump(b, i)) /\ IsState(Link(b))
                                 /\ IsState(Stop(b, code))
  BY JumpsKeepState
<1>5. \A b : IsState(b) => IsState(BaseWriteback(a, b, i))
  BY <1>1 DEF BaseWriteback
<1> HIDE DEF IsState
<1>6. IsState(ExecuteDPImm(a, i))
  BY <1>1, <1>2 DEF ExecuteDPImm
<1>7. IsState(ExecuteDPReg(a, i))
  BY <1>1, <1>2 DEF ExecuteDPReg
<1>8. IsState(ExecuteLogicalImm(a, i))
  BY <1>1, <1>2 DEF ExecuteLogicalImm
<1>9. IsState(ExecuteBitfield(a, i))
  BY <1>1 DEF ExecuteBitfield
<1>10. IsState(ExecuteExtract(a, i))
  BY <1>1 DEF ExecuteExtract
<1>11. IsState(ExecuteMoveWide(a, i))
  BY <1>1 DEF ExecuteMoveWide
<1>12. IsState(ExecuteCondSelect(a, i))
  BY <1>1 DEF ExecuteCondSelect
<1>13. IsState(ExecuteCondCmp(a, i))
  BY <1>2 DEF ExecuteCondCmp
<1>14. IsState(ExecuteDataProc2Src(a, i))
  BY <1>1 DEF ExecuteDataProc2Src
<1>15. IsState(ExecuteDataProc3Src(a, i))
  BY <1>1 DEF ExecuteDataProc3Src
<1>16. IsState(ExecutePCRel(a, i))
  BY <1>1 DEF ExecutePCRel
<1>17. IsState(ExecuteMRS(a, i))
  BY <1>1 DEF ExecuteMRS
<1>18. IsState(ExecuteLoadStore(a, i))
  BY <1>1, <1>3, <1>5 DEF ExecuteLoadStore
<1>19. IsState(ExecuteLoadStorePair(a, i))
  BY <1>1, <1>3, <1>5 DEF ExecuteLoadStorePair
<1>20. IsState(ExecuteLoadStoreLit(a, i))
  BY <1>1 DEF ExecuteLoadStoreLit
<1>21. IsState(ExecuteSIMDReg(a, i))
  BY <1>3 DEF ExecuteSIMDReg
<1>22. IsState(ExecuteSIMDLoadStore(a, i))
  BY <1>3 DEF ExecuteSIMDLoadStore
<1>23. IsState(ExecuteSIMDCopy(a, i))
  BY <1>3 DEF ExecuteSIMDCopy
<1>24. IsState(ExecuteBranch(a, i))
  BY <1>4 DEF ExecuteBranch
<1>25. IsState(ExecuteBranchCond(a, i))
  BY <1>4 DEF ExecuteBranchCond
<1>26. IsState(ExecuteBranchReg(a, i))
  BY <1>3, <1>4 DEF ExecuteBranchReg
<1>27. IsState(ExecuteTestBranch(a, i))
  BY <1>4 DEF ExecuteTestBranch
<1>28. IsState(ExecuteCompareBranch(a, i))
  BY <1>4 DEF ExecuteCompareBranch
<1>29. IsState(Handle(a))
  BY <1>1, <1>4 DEF Handle
<1>30. QED
  BY <1>6, <1>7, <1>8, <1>9, <1>10, <1>11, <1>12, <1>13, <1>14, <1>15, <1>16, <1>17, <1>18, <1>19,
     <1>20, <1>21, <1>22, <1>23, <1>24, <1>25, <1>26, <1>27, <1>28, <1>29, Zenon

LEMMA ExecuteKeepsState ==
  ASSUME NEW a, IsState(a), NEW i, HasForm(i)
  PROVE  IsState(Execute(a, i))
<1>1. \A b : IsState(b) => IsState(Skip(b)) /\ IsState(Handle(b)) /\ IsState(Stop(b, Failed))
  BY JumpsKeepState, InstructionsKeepState
<1>2. /\ IsState(Skip(ExecuteDPImm(a, i)))
      /\ IsState(Skip(ExecuteDPReg(a, i)))
      /\ IsState(Skip(ExecuteLogicalImm(a, i)))
      /\ IsState(Skip(ExecuteBitfield(a, i)))
      /\ IsState(Skip(ExecuteExtract(a, i)))
      /\ IsState(Skip(ExecuteMoveWide(a, i)))
      /\ IsState(Skip(ExecuteCondSelect(a, i)))
      /\ IsState(Skip(ExecuteCondCmp(a, i)))
      /\ IsState(Skip(ExecuteDataProc2Src(a, i)))
      /\ IsState(Skip(ExecuteDataProc3Src(a, i)))
      /\ IsState(Skip(ExecutePCRel(a, i)))
      /\ IsState(Skip(ExecuteMRS(a, i)))
      /\ IsState(Skip(ExecuteLoadStore(a, i)))
      /\ IsState(Skip(ExecuteLoadStorePair(a, i)))
      /\ IsState(Skip(ExecuteLoadStoreLit(a, i)))
      /\ IsState(Skip(ExecuteSIMDReg(a, i)))
      /\ IsState(Skip(ExecuteSIMDLoadStore(a, i)))
      /\ IsState(Skip(ExecuteSIMDCopy(a, i)))
  BY <1>1, InstructionsKeepState, Zenon
<1>3. /\ IsState(ExecuteBranch(a, i))
      /\ IsState(ExecuteBranchCond(a, i))
      /\ IsState(ExecuteBranchReg(a, i))
      /\ IsState(ExecuteTestBranch(a, i))
      /\ IsState(ExecuteCompareBranch(a, i))
  BY InstructionsKeepState, Zenon
<1>4. IsState(Stop(a, Failed)) /\ IsState(Handle(Skip(a))) /\ IsState(Skip(a))
  BY <1>1
<1>5. QED
  BY <1>2, <1>3, <1>4 DEF Execute, HasForm, Formats

LEMMA InstructionsHaveForms ==
  ASSUME NEW p \in Programs, NEW addr
  PROVE  HasForm(InstAt(p, addr))
<1>1. HasForm(Unknown)
  BY DEF HasForm, Unknown, Formats
<1>2. ASSUME addr \in DOMAIN p PROVE Decoded[p[addr]] = Decode(p[addr])
  BY <1>2 DEF Decoded
<1>3. QED
  BY <1>1, <1>2, DecodedForms DEF InstAt

LEMMA StepKeepsState ==
  ASSUME prog \in Programs, IsState(arch)
  PROVE  HasForm(Current) /\ IsState(Step(arch))
<1>1. HasForm(Current)
  BY InstructionsHaveForms DEF Current
<1>2. IsState(Execute(arch, Current))
  BY <1>1, ExecuteKeepsState
<1>3. IsState([Execute(arch, Current) EXCEPT !.count = @ + 1]) /\ IsState(Stop(arch, Failed))
  BY <1>2, PartsChange, JumpsKeepState
<1>4. QED
  BY <1>1, <1>3 DEF Step, Current

\* What is shifted within n bits stays within them.
LEMMA ApplyShiftStays ==
  ASSUME NEW n \in {32, 64}, NEW x \in SUBSET Ones(n), NEW type \in 0 .. 3, NEW k \in Nat
  PROVE  ApplyShift(x, type, k, n) \in SUBSET Ones(n)
<1>1. \A j : Shl(x, j, n) \in SUBSET Ones(n)
  BY DEF Shl, Low
<1>2. Shr(x, k) \in SUBSET Ones(n)
  BY DEF Shr, Ones
<1>3. Sar(x, k, n) \in SUBSET Ones(n)
  BY <1>2 DEF Sar, Ones
<1>4. Ror(x, k, n) \in SUBSET Ones(n)
  BY <1>1, <1>2 DEF Ror
<1>5. QED
  BY <1>1, <1>2, <1>3, <1>4 DEF ApplyShift

\* The flags a compare leaves are those of the two words it is said to compare.
LEMMA CompareSetsFlags ==
  ASSUME NEW a, IsState(a), NEW i, HasForm(i), i.op = "SUB", i.setFlags, i.rn # 31,
         NEW n, n = Size(i), NEW x, x = Compared(a, i)[1], NEW y, y = Compared(a, i)[2]
  PROVE  /\ n \in {32, 64} /\ x \in SUBSET Ones(n) /\ y \in SUBSET Ones(n)
         /\ Execute(a, i).fl = SetSubFlags(x, y, Sub(x, y, n), n)
<1>1. n \in {32, 64}
  BY DEF Size
<1>2. x = Low(ReadReg(a, i.rn), n)
  BY DEF Compared
<1>3. x \in SUBSET Ones(n) /\ y \in SUBSET Ones(n)
  BY DEF Compared, Low
<1>4. \A r, v, f : (Skip(Flagged(WriteReg(a, r, v), i, f))).fl = f
  <2> SUFFICES ASSUME NEW r, NEW v, NEW f
               PROVE  Skip(Flagged(WriteReg(a, r, v), i, f)).fl = f
    OBVIOUS
  <2> DEFINE b == WriteReg(a, r, v)
  <2>1. IsState(b)
    BY WritesKeepState
  <2> HIDE DEF b
  <2>2. IsState([b EXCEPT !.fl = f])
    BY <2>1, PartsChange
  <2>3. [b EXCEPT !.fl = f].fl = f
    BY <2>1 DEF IsState
  <2>4. Flagged(b, i, f) = [b EXCEPT !.fl = f]
    BY DEF Flagged
  <2>5. \A c : IsState(c) => Skip(c).fl = c.fl
    BY DEF IsState, Skip
  <2>6. QED
    BY <2>2, <2>3, <2>4, <2>5 DEF b
<1>5. CASE i.fmt = "DPImm"
  <2>1. y = Low(Shl(i.imm, i.shift, 64), n)
    BY <1>5 DEF Compared, Low
  <2>2. ExecuteDPImm(a, i) = Flagged(WriteReg(a, i.rd, Sub(x, y, n)), i, SetSubFlags(x, y, Sub(x, y, n), n))
    BY <1>2, <2>1 DEF ExecuteDPImm, ReadReg, ReadRegOrSP, AddOrSub, ArithFlags
  <2>3. Execute(a, i) = Skip(ExecuteDPImm(a, i))
    BY <1>5 DEF Execute
  <2>4. QED
    BY <1>1, <1>3, <1>4, <2>2, <2>3
<1>6. CASE i.fmt = "DPReg"
  <2> DEFINE z == ApplyShift(Low(ReadReg(a, i.rm), n), i.shiftType, i.shiftAmount, n)
  <2>1. z \in SUBSET Ones(n)
    <3>1. Low(ReadReg(a, i.rm), n) \in SUBSET Ones(n)
      BY DEF Low
    <3>2. i.shiftType \in 0 .. 3 /\ i.shiftAmount \in Nat
      BY <1>6 DEF HasForm
    <3>3. \A X \in SUBSET Ones(n), type \in 0 .. 3, k \in Nat : ApplyShift(X, type, k, n) \in SUBSET Ones(n)
      BY ONLY <1>1, ApplyShiftStays
    <3>4. QED
      BY <3>1, <3>2, <3>3, Zenon
  <2>2. y = Low(z, n)
    BY <1>6 DEF Compared
  <2>3. y = z
    BY <2>1, <2>2 DEF Low
  <2>4. ExecuteDPReg(a, i) = Flagged(WriteReg(a, i.rd, Sub(x, y, n)), i, SetSubFlags(x, y, Sub(x, y, n), n))
    BY <1>2, <2>3 DEF ExecuteDPReg, AddOrSub, ArithFlags
  <2>5. Execute(a, i) = Skip(ExecuteDPReg(a, i))
    BY <1>6 DEF Execute
  <2>6. QED
    BY <1>1, <1>3, <1>4, <2>4, <2>5
<1>7. QED
  BY <1>5, <1>6 DEF HasForm

\* While the emulator runs, the program is one of the loaded ones and arch a whole state.
EmulatorRuns == machine = "emulator" => prog \in Programs /\ IsState(arch)

LEMMA EmulatorKeepsRunning == SimSpec => []EmulatorRuns
<1>1. SimInit => EmulatorRuns
  BY SetupAssumption DEF SimInit, FastInit, Init, EmulatorRuns, Start, IsState, IsRegFile
<1>2. EmulatorRuns /\ [SimNext]_simVars => EmulatorRuns'
  <2> SUFFICES ASSUME EmulatorRuns, [SimNext]_simVars, machine' = "emulator"
               PROVE  prog' \in Programs /\ IsState(arch')
    BY DEF EmulatorRuns
  <2>1. CASE Emulates
    <3>1. prog' = prog /\ arch' = Step(arch) /\ prog \in Programs /\ IsState(arch)
      BY <2>1 DEF Emulates, Next, EmulatorRuns
    <3>2. QED
      BY <3>1, StepKeepsState
  <2>2. CASE Ticks \/ GoesThrough \/ Fuses
    BY <2>2 DEF Ticks, GoesThrough, Fuses
  <2>3. CASE UNCHANGED simVars
    BY <2>3 DEF simVars, fastVars, EmulatorRuns, IsState
  <2>4. QED
    BY <2>1, <2>2, <2>3 DEF SimNext
<1>3. QED
  BY <1>1, <1>2, PTL DEF SimSpec

(* After a compare every condition stands for the comparison it is named for,  *)
(* signed and unsigned, in CheckCondition and in evaluateCondition: for any     *)
(* two operands of either width, immediate, plain or shifted.                  *)
THEOREM ConditionsStandForComparisons == SimSpec => ConditionsMeanComparisons
<1>1. ASSUME EmulatorRuns, SimNext, machine = "emulator", Current.op = "SUB", Current.setFlags,
             Current.rn # 31, arch'.status = "running"
      PROVE  LET operands == Compared(arch, Current)
             IN \A cond \in Comparisons :
                  LET meant == Holds(cond, operands[1], operands[2], Size(Current))
                  IN (CheckCondition(arch'.fl, cond) <=> meant) /\ (EvaluateCondition(arch'.fl, cond) <=> meant)
  <2>1. prog \in Programs /\ IsState(arch) /\ arch' = Step(arch)
    BY <1>1 DEF EmulatorRuns, SimNext, Emulates, Ticks, GoesThrough, Fuses, Next
  <2>2. HasForm(Current)
    BY <2>1, StepKeepsState
  <2>3. arch' = [Execute(arch, Current) EXCEPT !.count = @ + 1]
    <3>1. Stop(arch, Failed).status = "exited"
      BY <2>1 DEF Stop, IsState
    <3>2. QED
      BY <1>1, <2>1, <3>1 DEF Step, Current
  <2>4. arch'.fl = Execute(arch, Current).fl
    <3>1. IsState(Execute(arch, Current))
      BY <2>1, <2>2, ExecuteKeepsState
    <3>2. QED
      BY <2>3, <3>1 DEF IsState
  <2> DEFINE n == Size(Current)
             x == Compared(arch, Current)[1]
             y == Compared(arch, Current)[2]
             f == arch'.fl
  <2>5. /\ n \in {32, 64} /\ x \in SUBSET Ones(n) /\ y \in SUBSET Ones(n)
        /\ f = SetSubFlags(x, y, Sub(x, y, n), n)
    BY <1>1, <2>1, <2>2, <2>4, CompareSetsFlags
  <2> HIDE DEF n, x, y, f
  <2>6. n \in 1 .. 64
    BY <2>5
  <2>7. /\ f \in FlagSet
        /\ f.z <=> x = y
        /\ f.c <=> ~Less(x, y)
        /\ (f.n <=> f.v) <=> ~SignedLess(x, y, n)
    BY <2>5, <2>6, FlagsAfterCompare
  <2>8. ASSUME NEW cond \in Comparisons
        PROVE  /\ (CheckCondition(f, cond) <=> Holds(cond, x, y, n))
               /\ (EvaluateCondition(f, cond) <=> Holds(cond, x, y, n))
    BY <2>5, <2>6, <2>7, ConditionsOfFlags
  <2>9. QED
    BY <2>8 DEF n, x, y, f
<1>2. EmulatorRuns /\ [SimNext]_simVars
        => [machine = "emulator" /\ Current.op = "SUB" /\ Current.setFlags /\ Current.rn # 31
              /\ arch'.status = "running" =>
              LET operands == Compared(arch, Current)
              IN \A cond \in Comparisons :
                   LET meant == Holds(cond, operands[1], operands[2], Size(Current))
                   IN (CheckCondition(arch'.fl, cond) <=> meant) /\ (EvaluateCondition(arch'.fl, cond) <=> meant)
           ]_simVars
  BY <1>1
<1>3. QED
  BY <1>2, EmulatorKeepsRunning, PTL DEF SimSpec, ConditionsMeanComparisons

---------------------------------------------------------------------------
(* The fused pair.                                                          *)

\* Adding a power of two carries as far as there are ones above it.
LEMMA AddPower ==
  ASSUME NEW x \in SUBSET Ones(64), NEW k \in Ones(64), NEW b
  PROVE  b \in Add(x, {k}, 64)
           <=> b \in Ones(64) /\ ~(b \in x <=> b >= k /\ \A i \in k .. b - 1 : i \in x)
<1>1. b \in Add(x, {k}, 64) <=> b \in Ones(64) /\ ~(b \in Xor(x, {k}) <=> Carry(x, {k}, b))
  <2>1. {k} \in SUBSET Ones(64)
    OBVIOUS
  <2> DEFINE y == {k}
             n == 64
  <2>2. n \in 0 .. 64 /\ x \in SUBSET Ones(n) /\ y \in SUBSET Ones(n)
    BY <2>1
  <2> HIDE DEF y, n
  <2>3. b \in Add(x, y, n) <=> b \in 0 .. n - 1 /\ ~(b \in Xor(x, y) <=> Carry(x, y, b))
    BY <2>2, AddBits
  <2>4. QED
    BY <2>3 DEF y, n, Ones
<1>2. ASSUME b \in Ones(64)
      PROVE  Carry(x, {k}, b) <=> b > k /\ \A i \in k .. b - 1 : i \in x
  <2>1. \A i \in k + 1 .. b - 1 : i \in Xor(x, {k}) <=> i \in x
    BY <1>2, XorBits DEF Ones
  <2>2. Carry(x, {k}, b) <=> k \in x /\ k < b /\ \A i \in k + 1 .. b - 1 : i \in Xor(x, {k})
    BY DEF Carry
  <2>3. k \in Int /\ b \in Int
    BY <1>2 DEF Ones
  <2>4. b > k => ((\A i \in k .. b - 1 : i \in x) <=> k \in x /\ \A i \in k + 1 .. b - 1 : i \in x)
    BY <2>3
  <2>5. QED
    BY <2>1, <2>2, <2>3, <2>4
<1>3. b \in Xor(x, {k}) <=> ~(b \in x <=> b = k)
  BY DEF Xor
<1>4. ASSUME b \in Ones(64) PROVE b = k => \A i \in k .. b - 1 : i \in x
  BY <1>4 DEF Ones
<1>5. b \in Ones(64) => b \in Int /\ k \in Int
  BY DEF Ones
<1>6. QED
  BY <1>1, <1>2, <1>3, <1>4, <1>5

LEMMA SmallWords == W(4) = {2} /\ W(8) = {3}
<1> DEFINE digit(k, b) == (k \div 2^b) % 2
<1>1. /\ digit(4, 4) # 1 /\ digit(8, 4) # 1 /\ digit(4, 5) # 1 /\ digit(8, 5) # 1
      /\ digit(4, 6) # 1 /\ digit(8, 6) # 1 /\ digit(4, 7) # 1 /\ digit(8, 7) # 1
      /\ digit(4, 8) # 1 /\ digit(8, 8) # 1 /\ digit(4, 9) # 1 /\ digit(8, 9) # 1
      /\ digit(4, 10) # 1 /\ digit(8, 10) # 1 /\ digit(4, 11) # 1 /\ digit(8, 11) # 1
      /\ digit(4, 12) # 1 /\ digit(8, 12) # 1 /\ digit(4, 13) # 1 /\ digit(8, 13) # 1
      /\ digit(4, 14) # 1 /\ digit(8, 14) # 1 /\ digit(4, 15) # 1 /\ digit(8, 15) # 1
      /\ digit(4, 16) # 1 /\ digit(8, 16) # 1 /\ digit(4, 17) # 1 /\ digit(8, 17) # 1
      /\ digit(4, 18) # 1 /\ digit(8, 18) # 1 /\ digit(4, 19) # 1 /\ digit(8, 19) # 1
      /\ digit(4, 20) # 1 /\ digit(8, 20) # 1 /\ digit(4, 21) # 1 /\ digit(8, 21) # 1
      /\ digit(4, 22) # 1 /\ digit(8, 22) # 1 /\ digit(4, 23) # 1 /\ digit(8, 23) # 1
      /\ digit(4, 24) # 1 /\ digit(8, 24) # 1 /\ digit(4, 25) # 1 /\ digit(8, 25) # 1
      /\ digit(4, 26) # 1 /\ digit(8, 26) # 1 /\ digit(4, 27) # 1 /\ digit(8, 27) # 1
      /\ digit(4, 28) # 1 /\ digit(8, 28) # 1 /\ digit(4, 29) # 1 /\ digit(8, 29) # 1
      /\ digit(4, 30) # 1 /\ digit(8, 30) # 1
  BY SMT
<1>2. /\ digit(4, 0) # 1 /\ digit(4, 1) # 1 /\ digit(4, 2) = 1 /\ digit(4, 3) # 1
      /\ digit(8, 0) # 1 /\ digit(8, 1) # 1 /\ digit(8, 2) # 1 /\ digit(8, 3) = 1
  BY SMT
<1> HIDE DEF digit
<1>3. \A b \in 0 .. 30 : \/ b \in {0, 1, 2, 3}
      \/ b = 4 \/ b = 5 \/ b = 6 \/ b = 7 \/ b = 8 \/ b = 9 \/ b = 10 \/ b = 11 \/ b = 12
      \/ b = 13 \/ b = 14 \/ b = 15 \/ b = 16 \/ b = 17 \/ b = 18 \/ b = 19 \/ b = 20
      \/ b = 21 \/ b = 22 \/ b = 23 \/ b = 24 \/ b = 25 \/ b = 26 \/ b = 27 \/ b = 28
      \/ b = 29 \/ b = 30
  OBVIOUS
<1>4. ASSUME NEW b \in 0 .. 30, b \notin {2, 3} PROVE digit(4, b) # 1 /\ digit(8, b) # 1
  BY <1>1, <1>2, <1>3, <1>4
<1>5. /\ \A b \in 0 .. 30 : digit(4, b) = 1 <=> b = 2
      /\ \A b \in 0 .. 30 : digit(8, b) = 1 <=> b = 3
  BY <1>2, <1>4
<1>6. W(4) = {b \in 0 .. 30 : digit(4, b) = 1} /\ W(8) = {b \in 0 .. 30 : digit(8, b) = 1}
  BY DEF W, digit
<1>7. QED
  BY <1>5, <1>6

\* The instruction after the next one.
LEMMA TwoSteps ==
  ASSUME NEW x \in SUBSET Ones(64)
  PROVE  Plus(Plus(x, 4), 4) = Plus(x, 8)
<1> DEFINE p == Add(x, {2}, 64)
           q == Add(p, {2}, 64)
           r == Add(x, {3}, 64)
<1>1. Plus(Plus(x, 4), 4) = q /\ Plus(x, 8) = r
  BY SmallWords DEF Plus
<1>2. \A b : b \in p <=> b \in Ones(64) /\ ~(b \in x <=> b >= 2 /\ \A i \in 2 .. b - 1 : i \in x)
  BY AddPower DEF Ones
<1>3. p \in SUBSET Ones(64)
  BY <1>2
<1> HIDE DEF p
<1>4. \A b : b \in q <=> b \in Ones(64) /\ ~(b \in p <=> b >= 2 /\ \A i \in 2 .. b - 1 : i \in p)
  BY <1>3, AddPower DEF Ones
<1>5. \A b : b \in r <=> b \in Ones(64) /\ ~(b \in x <=> b >= 3 /\ \A i \in 3 .. b - 1 : i \in x)
  BY AddPower DEF Ones
<1> HIDE DEF q, r
<1>6. ASSUME NEW b \in Ones(64) PROVE b \in q <=> b \in r
  <2>1. b \in 0 .. 63
    BY DEF Ones
  <2>2. CASE b < 2
    BY <1>2, <1>4, <1>5, <2>1, <2>2
  <2>3. CASE b = 2
    BY <1>2, <1>4, <1>5, <2>1, <2>3
  <2>4. CASE b >= 3
    <3>1. 2 \in p <=> 2 \notin x
      BY <1>2 DEF Ones
    <3>2. 2 \notin x => \A i \in 3 .. b : i \in p <=> i \in x
      BY <1>2, <2>1 DEF Ones
    <3>3. (\A i \in 2 .. b - 1 : i \in p) <=> 2 \in p /\ \A i \in 3 .. b - 1 : i \in p
      BY <2>1, <2>4
    <3>4. (\A i \in 2 .. b - 1 : i \in x) <=> 2 \in x /\ \A i \in 3 .. b - 1 : i \in x
      BY <2>1, <2>4
    <3>5. (\A i \in 2 .. b - 1 : i \in p) <=> 2 \notin x /\ \A i \in 3 .. b - 1 : i \in x
      BY <2>1, <3>1, <3>2, <3>3
    <3>6. b \in p <=> ~(b \in x <=> 2 \in x /\ \A i \in 3 .. b - 1 : i \in x)
      BY <1>2, <2>1, <2>4, <3>4
    <3>7. b \in q <=> ~(b \in p <=> 2 \notin x /\ \A i \in 3 .. b - 1 : i \in x)
      BY <1>4, <2>1, <2>4, <3>5
    <3>8. b \in r <=> ~(b \in x <=> \A i \in 3 .. b - 1 : i \in x)
      BY <1>5, <2>1, <2>4
    <3>9. QED
      BY <3>6, <3>7, <3>8, Zenon
  <2>5. QED
    BY <2>1, <2>2, <2>3, <2>4
<1>7. q = r
  BY <1>4, <1>5, <1>6
<1>8. QED
  BY <1>1, <1>7

\* While pairs are fused, the program is one of the loaded ones and the PC an address.
FusedRuns == machine = "fused" => prog \in Programs /\ IsState(arch) /\ arch.pc \in SUBSET Ones(64)

LEMMA ThroughFusedMoves ==
  ASSUME NEW a, IsState(a), NEW i, NEW j
  PROVE  \E pc \in SUBSET Ones(64) : ThroughFused(a, i, j) = [a EXCEPT !.pc = pc]
<1>1. \A x, y : Add(x, y, 64) \in SUBSET Ones(64)
  BY DEF Add, Low
<1> DEFINE y == IF i.fmt = "DPImm" THEN Shl(i.imm, i.shift, 64) ELSE ReadReg(a, i.rm)
           flags == ComputeSubFlags(ReadReg(a, i.rn), y, Size(i))
           pc == IF CheckCondition(flags, j.cond) THEN Add(Plus(a.pc, 4), j.offset, 64) ELSE Plus(a.pc, 8)
<1>2. pc \in SUBSET Ones(64)
  BY <1>1 DEF Plus
<1>3. ThroughFused(a, i, j) = [a EXCEPT !.pc = pc]
  BY DEF ThroughFused
<1>4. QED
  BY <1>2, <1>3

LEMMA FusingKeepsRunning == SimSpec => []FusedRuns
<1>1. SimInit => FusedRuns
  BY SetupAssumption DEF SimInit, FastInit, Init, FusedRuns, Start, IsState, IsRegFile
<1>2. FusedRuns /\ [SimNext]_simVars => FusedRuns'
  <2> SUFFICES ASSUME FusedRuns, [SimNext]_simVars, machine' = "fused"
               PROVE  prog' \in Programs /\ IsState(arch') /\ arch'.pc \in SUBSET Ones(64)
    BY DEF FusedRuns
  <2>1. CASE Fuses
    <3>1. prog' = prog /\ prog \in Programs /\ IsState(arch)
      BY <2>1 DEF Fuses, Fuse, FusedRuns
    <3>2. arch' = ThroughFused(arch, InstAt(prog, arch.pc), InstAt(prog, Plus(arch.pc, 4)))
      BY <2>1 DEF Fuses, Fuse
    <3>3. PICK pc \in SUBSET Ones(64) : arch' = [arch EXCEPT !.pc = pc]
      BY <3>1, <3>2, ThroughFusedMoves
    <3>4. IsState(arch')
      BY <3>1, <3>3, PartsChange
    <3>5. arch'.pc = pc
      BY <3>1, <3>3 DEF IsState
    <3>6. QED
      BY <3>1, <3>4, <3>5
  <2>2. CASE Emulates \/ Ticks \/ GoesThrough
    BY <2>2 DEF Emulates, Ticks, GoesThrough
  <2>3. CASE UNCHANGED simVars
    BY <2>3 DEF simVars, fastVars, FusedRuns, IsState
  <2>4. QED
    BY <2>1, <2>2, <2>3 DEF SimNext
<1>3. QED
  BY <1>1, <1>2, PTL DEF SimSpec

\* A compare that names neither SP nor a shifted register sets the flags the pair goes by.
LEMMA CompareGoesBy ==
  ASSUME NEW a, IsState(a), NEW i, HasForm(i), IsCMP(i), ~NamesSP(i),
         ~(i.fmt = "DPReg" /\ i.shiftAmount > 0),
         NEW y, y = IF i.fmt = "DPImm" THEN Shl(i.imm, i.shift, 64) ELSE ReadReg(a, i.rm)
  PROVE  Execute(a, i) = Skip([a EXCEPT !.fl = ComputeSubFlags(ReadReg(a, i.rn), y, Size(i))])
<1> DEFINE n == Size(i)
           x == Low(ReadReg(a, i.rn), n)
           flags == SetSubFlags(x, Low(y, n), Sub(x, Low(y, n), n), n)
<1>1. ComputeSubFlags(ReadReg(a, i.rn), y, Size(i)) = flags
  BY DEF ComputeSubFlags
<1>2. i.op = "SUB" /\ i.setFlags /\ i.rd = 31
  BY DEF IsCMP
<1>3. CASE i.fmt = "DPImm"
  <2>1. i.rn # 31
    BY <1>3 DEF NamesSP
  <2>2. ExecuteDPImm(a, i) = [a EXCEPT !.fl = flags]
    BY <1>2, <1>3, <2>1 DEF ExecuteDPImm, ReadReg, ReadRegOrSP, WriteReg, Flagged, AddOrSub, ArithFlags
  <2>3. Execute(a, i) = Skip(ExecuteDPImm(a, i))
    BY <1>2, <1>3 DEF Execute
  <2>4. QED
    BY <1>1, <2>2, <2>3
<1>4. CASE i.fmt = "DPReg"
  <2>1. i.shiftAmount = 0
    BY <1>4 DEF HasForm
  <2>2. ApplyShift(Low(ReadReg(a, i.rm), n), i.shiftType, i.shiftAmount, n) = Low(y, n)
    BY <1>4, <2>1 DEF ApplyShift
  <2> HIDE DEF n
  <2>3. ExecuteDPReg(a, i) = [a EXCEPT !.fl = flags]
    BY <1>2, <2>2 DEF ExecuteDPReg, WriteReg, Flagged, AddOrSub, ArithFlags, n
  <2>4. Execute(a, i) = Skip(ExecuteDPReg(a, i))
    BY <1>2, <1>4 DEF Execute
  <2>5. QED
    BY <1>1, <2>3, <2>4
<1>5. QED
  BY <1>2, <1>3, <1>4 DEF HasForm

\* The branch behind it by the flags fl, and what is left when they are taken back.
LEMMA BranchBehind ==
  ASSUME NEW a, IsState(a), a.pc \in SUBSET Ones(64), NEW fl,
         NEW j, HasForm(j), IsBCond(j), NEW c, c = Skip([a EXCEPT !.fl = fl])
  PROVE  /\ c.pc = Plus(a.pc, 4)
         /\ [Execute(c, j) EXCEPT !.fl = a.fl] =
              [a EXCEPT !.pc = IF CheckCondition(fl, j.cond) THEN Add(Plus(a.pc, 4), j.offset, 64)
                               ELSE Plus(a.pc, 8)]
<1> DEFINE b == [a EXCEPT !.fl = fl]
           pc == IF CheckCondition(fl, j.cond) THEN Add(Plus(a.pc, 4), j.offset, 64) ELSE Plus(a.pc, 8)
<1>1. IsState(b)
  BY PartsChange
<1>2. b.fl = fl /\ b.pc = a.pc
  BY DEF IsState
<1>3. c = [b EXCEPT !.pc = Plus(a.pc, 4)]
  BY <1>2 DEF Skip
<1>4. [b EXCEPT !.fl = a.fl] = a
  BY DEF IsState
<1> HIDE DEF b
<1>5. c.fl = fl /\ c.pc = Plus(a.pc, 4)
  BY <1>1, <1>2, <1>3 DEF IsState
<1>6. Execute(c, j) = IF CheckCondition(fl, j.cond) THEN Jump(c, j) ELSE Skip(c)
  <2>1. Execute(c, j) = ExecuteBranchCond(c, j)
    BY DEF Execute, HasForm, IsBCond
  <2>2. QED
    BY <1>5, <2>1 DEF ExecuteBranchCond
<1>7. Execute(c, j) = [c EXCEPT !.pc = pc]
  <2>1. Jump(c, j) = [c EXCEPT !.pc = Add(Plus(a.pc, 4), j.offset, 64)]
    BY <1>5 DEF Jump
  <2>2. Skip(c) = [c EXCEPT !.pc = Plus(a.pc, 8)]
    BY <1>5, TwoSteps DEF Skip
  <2>3. QED
    BY <1>6, <2>1, <2>2
<1> HIDE DEF pc
<1>8. [Execute(c, j) EXCEPT !.fl = a.fl] = [a EXCEPT !.pc = pc]
  <2>1. Execute(c, j) = [b EXCEPT !.pc = pc]
    BY <1>1, <1>3, <1>7 DEF IsState
  <2>2. [[b EXCEPT !.pc = pc] EXCEPT !.fl = a.fl] = [[b EXCEPT !.fl = a.fl] EXCEPT !.pc = pc]
    BY <1>1 DEF IsState
  <2>3. QED
    BY <1>4, <2>1, <2>2
<1>9. QED
  BY <1>5, <1>8 DEF pc

(* A fused compare and branch ends where the emulator's two instructions end,  *)
(* for every condition, width, operand, offset and address, and changes        *)
(* nothing but the PC; a shifted register and SP as operands are excepted.     *)
THEOREM FusedPairIsTheTwo == SimSpec => FusedPairFollowsEmulator
<1>1. ASSUME FusedRuns, SimNext, machine = "fused",
             ~(Current.fmt = "DPReg" /\ Current.shiftAmount > 0), ~NamesSP(Current)
      PROVE  LET compared == Execute(arch, Current)
                 branched == Execute(compared, InstAt(prog, compared.pc))
             IN arch' = [branched EXCEPT !.fl = arch.fl]
  <2> DEFINE i == Current
             j == InstAt(prog, Plus(arch.pc, 4))
             y == IF i.fmt = "DPImm" THEN Shl(i.imm, i.shift, 64) ELSE ReadReg(arch, i.rm)
             fl == ComputeSubFlags(ReadReg(arch, i.rn), y, Size(i))
             c == Execute(arch, i)
  <2>1. prog \in Programs /\ IsState(arch) /\ arch.pc \in SUBSET Ones(64)
    BY <1>1 DEF FusedRuns
  <2>2. Fuse
    BY <1>1 DEF SimNext, Emulates, Ticks, GoesThrough, Fuses
  <2>3. IsCMP(i) /\ IsBCond(j) /\ arch' = ThroughFused(arch, i, j)
    BY <2>2 DEF Fuse, Fusable, Current
  <2>4. HasForm(i) /\ HasForm(j)
    BY <2>1, InstructionsHaveForms DEF Current
  <2>5. c = Skip([arch EXCEPT !.fl = fl])
    BY <1>1, <2>1, <2>3, <2>4, CompareGoesBy
  <2>6. arch' = [arch EXCEPT !.pc = IF CheckCondition(fl, j.cond) THEN Add(Plus(arch.pc, 4), j.offset, 64)
                                    ELSE Plus(arch.pc, 8)]
    BY <2>3 DEF ThroughFused
  <2> HIDE DEF i, j, fl, c
  <2>7. c.pc = Plus(arch.pc, 4) /\ [Execute(c, j) EXCEPT !.fl = arch.fl] = arch'
    BY <2>1, <2>3, <2>4, <2>5, <2>6, BranchBehind
  <2>8. InstAt(prog, c.pc) = j
    BY <2>7 DEF j
  <2>9. QED
    BY <2>7, <2>8 DEF i, c
<1>2. FusedRuns /\ [SimNext]_simVars
        => [machine = "fused" /\ ~(Current.fmt = "DPReg" /\ Current.shiftAmount > 0) /\ ~NamesSP(Current) =>
              LET compared == Execute(arch, Current)
                  branched == Execute(compared, InstAt(prog, compared.pc))
              IN arch' = [branched EXCEPT !.fl = arch.fl]]_simVars
  BY <1>1
<1>3. QED
  BY <1>2, FusingKeepsRunning, PTL DEF SimSpec, FusedPairFollowsEmulator

---------------------------------------------------------------------------
(* The upper half of a 32-bit result.                                       *)

\* The operations a format has, and the immediates it has them with.
HasOperation(i) ==
  /\ i.fmt \in Formats => i.op \notin {"NOP", "SVC", "BRK"}
  /\ i.fmt = "DPReg" => i.op \in {"ADD", "SUB", "AND", "BIC", "ORR", "ORN", "EOR", "EON"}
  /\ i.fmt = "LogicalImm" => i.op \in {"AND", "ORR", "EOR"}
  /\ i.fmt = "Bitfield" => i.op \in {"SBFM", "BFM", "UBFM", "Unknown"}
  /\ i.fmt = "Extract" => i.imm \in SUBSET Bits16
  /\ i.fmt = "MoveWide" => /\ i.op \in {"MOVN", "MOVZ", "MOVK", "Unknown"}
                           /\ i.imm \in SUBSET Ones(16) /\ i.shift \in {0, 16, 32, 48}
  /\ i.fmt = "CondSelect" => i.op \in {"CSEL", "CSINC", "CSINV", "CSNEG"}
  /\ i.fmt = "DataProc2Src" => i.op \in {"UDIV", "SDIV", "LSLV", "LSRV", "ASRV", "RORV", "Unknown"}

LEMMA DecodedOperations ==
  ASSUME NEW w
  PROVE  HasOperation(Decode(w))
<1>1. /\ Field(w, 23, 22) \in 0 .. 3 /\ Field(w, 22, 21) \in 0 .. 3 /\ Field(w, 30, 29) \in 0 .. 3
      /\ Field(w, 31, 30) \in 0 .. 3
  BY TwoBits
<1>2. Slice(w, 15, 10) \in SUBSET Bits16 /\ Slice(w, 20, 5) \in SUBSET Ones(16)
  BY SliceBits DEF Bits16, Ones
<1>3. HasOperation(Unknown) /\ HasOperation([Unknown EXCEPT !.op = "NOP"])
  BY DEF HasOperation, Unknown, Formats
<1>4. HasOperation(DecodeSIMDLoadStore(w))
  BY DEF HasOperation, Unknown, Formats, DecodeSIMDLoadStore
<1>5. HasOperation(DecodeSIMDCopy(w))
  BY DEF HasOperation, Unknown, Formats, DecodeSIMDCopy
<1>6. HasOperation(DecodeLoadStorePair(w))
  BY DEF HasOperation, Unknown, Formats, DecodeLoadStorePair
<1>7. HasOperation(DecodeDataProcessingImm(w))
  BY DEF HasOperation, Unknown, Formats, DecodeDataProcessingImm
<1>8. HasOperation(DecodeSIMDThreeSame(w))
  BY DEF HasOperation, Unknown, Formats, DecodeSIMDThreeSame
<1>9. HasOperation(DecodePCRelAddressing(w))
  BY DEF HasOperation, Unknown, Formats, DecodePCRelAddressing
<1>10. HasOperation(DecodeCondCmp(w))
  BY DEF HasOperation, Unknown, Formats, DecodeCondCmp
<1>11. HasOperation(DecodeConditionalSelect(w))
  BY DEF HasOperation, Unknown, Formats, DecodeConditionalSelect
<1>12. HasOperation(DecodeDataProc2Src(w))
  BY DEF HasOperation, Unknown, Formats, DecodeDataProc2Src
<1>13. HasOperation(DecodeDataProc3Src(w))
  BY DEF HasOperation, Unknown, Formats, DecodeDataProc3Src
<1>14. HasOperation(DecodeExtract(w))
  BY <1>2 DEF HasOperation, Unknown, Formats, DecodeExtract
<1>15. HasOperation(DecodeTestBranch(w))
  BY DEF HasOperation, Unknown, Formats, DecodeTestBranch
<1>16. HasOperation(DecodeCompareBranch(w))
  BY DEF HasOperation, Unknown, Formats, DecodeCompareBranch
<1>17. HasOperation(DecodeException(w))
  BY DEF HasOperation, Unknown, Formats, DecodeException
<1>18. HasOperation(DecodeSystemReg(w))
  BY DEF HasOperation, Unknown, Formats, DecodeSystemReg
<1>19. HasOperation(DecodeLoadStoreLiteral(w))
  BY DEF HasOperation, Unknown, Formats, DecodeLoadStoreLiteral, WithOffset
<1>20. HasOperation(DecodeBranchImm(w))
  BY DEF HasOperation, Unknown, Formats, DecodeBranchImm, WithOffset
<1>21. HasOperation(DecodeBranchCond(w))
  BY DEF HasOperation, Unknown, Formats, DecodeBranchCond, WithOffset
<1>22. HasOperation(DecodeLoadStoreRegOffset(w))
  BY <1>1 DEF HasOperation, Unknown, Formats, DecodeLoadStoreRegOffset, SizedAccess
<1>23. HasOperation(DecodeLoadStoreRegIndexed(w))
  BY <1>1 DEF HasOperation, Unknown, Formats, DecodeLoadStoreRegIndexed, SizedAccess
<1>24. HasOperation(DecodeLoadStoreImm(w))
  BY <1>1 DEF HasOperation, Unknown, Formats, DecodeLoadStoreImm
<1>25. HasOperation(DecodeMoveWide(w))
  BY <1>1, <1>2 DEF HasOperation, Unknown, Formats, DecodeMoveWide
<1>26. HasOperation(DecodeLogicalImm(w))
  BY <1>1 DEF HasOperation, Unknown, Formats, DecodeLogicalImm
<1>27. HasOperation(DecodeBitfield(w))
  BY <1>1 DEF HasOperation, Unknown, Formats, DecodeBitfield
<1>28. HasOperation(DecodeBranchReg(w))
  BY <1>1 DEF HasOperation, Unknown, Formats, DecodeBranchReg
<1>29. HasOperation(DecodeDataProcessingReg(w))
  BY <1>1 DEF HasOperation, Unknown, Formats, DecodeDataProcessingReg
<1>30. QED
  BY <1>3, <1>4, <1>5, <1>6, <1>7, <1>8, <1>9, <1>10, <1>11, <1>12, <1>13, <1>14, <1>15, <1>16, <1>17,
     <1>18, <1>19, <1>20, <1>21, <1>22, <1>23, <1>24, <1>25, <1>26, <1>27, <1>28, <1>29 DEF Decode

LEMMA InstructionsHaveOperations ==
  ASSUME NEW p \in Programs, NEW addr
  PROVE  HasOperation(InstAt(p, addr))
<1>1. HasOperation(Unknown)
  BY DEF HasOperation, Unknown, Formats
<1>2. ASSUME addr \in DOMAIN p PROVE Decoded[p[addr]] = Decode(p[addr])
  BY <1>2 DEF Decoded
<1>3. QED
  BY <1>1, <1>2, DecodedOperations DEF InstAt

LEMMA NumIsNumber ==
  ASSUME NEW x \in SUBSET Bits16
  PROVE  Num(x) \in Nat
<1>1. Value(x) \in Nat
  BY DEF Value, Part
<1>2. QED
  BY <1>1, NumIsValue

LEMMA Upwards ==
  ASSUME NEW T \in SUBSET Nat, 0 \in T, \A m \in T : m + 1 \in T
  PROVE  T = Nat
<1>1. SUFFICES ASSUME T # Nat PROVE FALSE
  OBVIOUS
<1>2. PICK m \in Nat \ T : \A j \in Nat \ T : m <= j
  BY <1>1, Least
<1>3. m - 1 \in Nat /\ (m - 1) + 1 = m
  BY <1>2
<1>4. m - 1 \in T
  BY <1>2, <1>3
<1>5. QED
  BY <1>2, <1>3, <1>4

\* The loop of UDiv: one bit of the quotient, and all of them.
DivisionStep(x, y, n, k, last) ==
  LET r == Shl(last.r, 1, n + 1) \cup Slice(x, n - k, n - k)
  IN IF Less(r, y) THEN [q |-> last.q, r |-> r]
     ELSE [q |-> last.q \cup {n - k}, r |-> Sub(r, y, n + 1)]
Division(x, y, n) ==
  CHOOSE f : f = [k \in 0 .. n |-> IF k = 0 THEN [q |-> {}, r |-> {}] ELSE DivisionStep(x, y, n, k, f[k - 1])]

\* The quotient of words of n bits has n bits.
LEMMA QuotientStays ==
  ASSUME NEW n \in Nat, NEW x, NEW y
  PROVE  UDiv(x, y, n) \in SUBSET Ones(n)
<1> DEFINE zero == [q |-> {}, r |-> {}]
           D(k, last) == DivisionStep(x, y, n, k, last)
           Is(f, m) == f = [k \in 0 .. m |-> IF k = 0 THEN zero ELSE D(k, f[k - 1])]
           T == {m \in Nat : \E f : Is(f, m)}
           h == Division(x, y, n)
<1>1. UDiv(x, y, n) = h[n].q
  BY DEF UDiv, Division, DivisionStep
<1>2. \A k, last : D(k, last).q \in {last.q, last.q \cup {n - k}}
  BY DEF DivisionStep
<1>3. zero.q = {}
  OBVIOUS
<1> HIDE DEF zero, D
<1>4. T = Nat
  <2>1. 0 \in T
    <3>1. Is([k \in 0 .. 0 |-> zero], 0)
      OBVIOUS
    <3>2. QED
      BY <3>1
  <2>2. ASSUME NEW m \in T PROVE m + 1 \in T
    <3>1. PICK f : Is(f, m)
      OBVIOUS
    <3> DEFINE g == [k \in 0 .. m + 1 |-> IF k = m + 1 THEN D(k, f[m]) ELSE f[k]]
    <3>2. Is(g, m + 1)
      BY <3>1
    <3> HIDE DEF g, Is
    <3>3. QED
      BY <3>2
  <2> HIDE DEF T
  <2>3. T \in SUBSET Nat
    BY DEF T
  <2>4. QED
    BY <2>1, <2>2, <2>3, Upwards
<1>5. \E f : Is(f, n)
  BY <1>4
<1>6. Is(h, n)
  BY <1>5 DEF Division, D, zero
<1> HIDE DEF h
<1>7. h[0] = zero /\ \A k \in 0 .. n - 1 : h[k + 1] = D(k + 1, h[k])
  <2>1. h[0] = zero
    BY <1>6
  <2>2. ASSUME NEW k \in 0 .. n - 1 PROVE h[k + 1] = D(k + 1, h[k])
    <3>1. k + 1 \in 0 .. n /\ k + 1 # 0 /\ (k + 1) - 1 = k
      OBVIOUS
    <3>2. QED
      BY <1>6, <3>1
  <2>3. QED
    BY <2>1, <2>2
<1>8. h[n].q \in SUBSET Ones(n)
  <2> DEFINE V == {k \in Nat : k <= n => h[k].q \in SUBSET Ones(n)}
  <2>1. 0 \in V
    BY <1>3, <1>7
  <2>2. ASSUME NEW k \in V PROVE k + 1 \in V
    <3>1. ASSUME k + 1 <= n PROVE h[k + 1].q \in SUBSET Ones(n)
      <4>1. k \in 0 .. n - 1 /\ h[k].q \in SUBSET Ones(n) /\ n - (k + 1) \in 0 .. n - 1
        BY <3>1
      <4>2. h[k + 1] = D(k + 1, h[k])
        BY <1>7, <4>1
      <4>3. h[k + 1].q \in {h[k].q, h[k].q \cup {n - (k + 1)}}
        BY <1>2, <4>2
      <4>4. QED
        BY <4>1, <4>3 DEF Ones
    <3>2. QED
      BY <3>1
  <2> HIDE DEF V
  <2>3. V = Nat
    <3>1. V \in SUBSET Nat
      BY DEF V
    <3>2. QED
      BY <2>1, <2>2, <3>1, Upwards
  <2>4. QED
    BY <2>3 DEF V
<1>9. QED
  BY <1>1, <1>8

\* A state whose register r holds a 32-bit value.
HoldsWord(b, r) == IsState(b) /\ b.regs[r] \in SUBSET Ones(32)

LEMMA WordIsHeld ==
  ASSUME NEW a, IsState(a), NEW r \in RegNums, NEW v \in SUBSET Ones(32)
  PROVE  HoldsWord(WriteReg(a, r, v), r) /\ HoldsWord(WriteRegOrSP(a, r, v), r)
<1>1. r # 31
  BY RegisterAssumption
<1> DEFINE regs == [a.regs EXCEPT ![r] = v]
           b == [a EXCEPT !.regs = regs]
<1>2. WriteReg(a, r, v) = b /\ WriteRegOrSP(a, r, v) = b
  BY <1>1 DEF WriteReg, WriteRegOrSP
<1>3. IsState(b)
  BY <1>2, WritesKeepState
<1>4. regs[r] = v
  BY DEF IsState, IsRegFile
<1> HIDE DEF regs
<1>5. b.regs = regs
  BY DEF IsState
<1> HIDE DEF b
<1>6. QED
  BY <1>2, <1>3, <1>4, <1>5 DEF HoldsWord

LEMMA WordStaysHeld ==
  ASSUME NEW r \in RegNums, NEW b, HoldsWord(b, r), NEW i, NEW fl, NEW v
  PROVE  /\ HoldsWord(Flagged(b, i, fl), r) /\ HoldsWord(Skip(b), r) /\ HoldsWord([b EXCEPT !.count = v], r)
         /\ \A a : ~(Indexed(i) /\ r = i.rn) => HoldsWord(BaseWriteback(a, b, i), r)
<1>1. IsState(b) /\ b.regs[r] \in SUBSET Ones(32)
  BY DEF HoldsWord
<1>2. \A u : [b EXCEPT !.fl = u].regs = b.regs /\ [b EXCEPT !.pc = u].regs = b.regs
             /\ [b EXCEPT !.count = u].regs = b.regs /\ [b EXCEPT !.sp = u].regs = b.regs
  BY <1>1 DEF IsState
<1>3. \A u : /\ IsState([b EXCEPT !.fl = u]) /\ IsState([b EXCEPT !.pc = u])
             /\ IsState([b EXCEPT !.count = u]) /\ IsState([b EXCEPT !.sp = u])
  BY <1>1, PartsChange
<1>4. \A u : HoldsWord([b EXCEPT !.fl = u], r) /\ HoldsWord([b EXCEPT !.pc = u], r)
             /\ HoldsWord([b EXCEPT !.count = u], r) /\ HoldsWord([b EXCEPT !.sp = u], r)
  BY <1>1, <1>2, <1>3 DEF HoldsWord
<1>5. ASSUME NEW k, NEW u, k # r PROVE HoldsWord(WriteRegOrSP(b, k, u), r)
  <2>1. IsState(WriteRegOrSP(b, k, u))
    BY <1>1, WritesKeepState
  <2> DEFINE regs == [b.regs EXCEPT ![k] = u]
  <2>2. regs[r] = b.regs[r]
    BY <1>1, <1>5 DEF IsState, IsRegFile
  <2> HIDE DEF regs
  <2>3. CASE k = 31
    BY <1>4, <2>3 DEF WriteRegOrSP
  <2>4. CASE k # 31
    <3>1. WriteRegOrSP(b, k, u) = [b EXCEPT !.regs = regs]
      BY <2>4 DEF WriteRegOrSP, regs
    <3>2. [b EXCEPT !.regs = regs].regs = regs
      BY <1>1 DEF IsState
    <3>3. QED
      BY <1>1, <2>1, <2>2, <3>1, <3>2 DEF HoldsWord
  <2>5. QED
    BY <2>3, <2>4
<1>6. ASSUME NEW a, ~(Indexed(i) /\ r = i.rn) PROVE HoldsWord(BaseWriteback(a, b, i), r)
  BY <1>5, <1>6 DEF BaseWriteback, Indexed
<1>7. HoldsWord(Flagged(b, i, fl), r)
  BY <1>4 DEF Flagged
<1>8. HoldsWord(Skip(b), r)
  BY <1>4 DEF Skip
<1>9. QED
  BY <1>4, <1>6, <1>7, <1>8

\* What the operators on words of 32 bits return.
LEMMA WordsOf32 ==
  ASSUME NEW x \in SUBSET Ones(32), NEW y \in SUBSET Ones(32)
  PROVE  /\ \A u, v : Add(u, v, 32) \in SUBSET Ones(32) /\ Sub(u, v, 32) \in SUBSET Ones(32)
         /\ \A u : Not(u, 32) \in SUBSET Ones(32) /\ Low(u, 32) \in SUBSET Ones(32)
         /\ \A u, k : Shl(u, k, 32) \in SUBSET Ones(32)
         /\ \A k \in Nat : /\ Shr(x, k) \in SUBSET Ones(32) /\ Sar(x, k, 32) \in SUBSET Ones(32)
                           /\ Ror(x, k, 32) \in SUBSET Ones(32)
         /\ \A op \in {"AND", "BIC", "ORR", "ORN", "EOR", "EON"} : Logic(op, x, y, 32) \in SUBSET Ones(32)
         /\ UDiv(x, y, 32) \in SUBSET Ones(32) /\ SDiv(x, y, 32) \in SUBSET Ones(32)
<1>1. \A u, v : Add(u, v, 32) \in SUBSET Ones(32)
  BY DEF Add, Low
<1>2. \A u : Not(u, 32) \in SUBSET Ones(32) /\ Low(u, 32) \in SUBSET Ones(32)
  BY DEF Not, Low
<1>3. \A u, v : Sub(u, v, 32) \in SUBSET Ones(32)
  BY <1>2 DEF Sub
<1>4. \A u, k : Shl(u, k, 32) \in SUBSET Ones(32)
  BY DEF Shl, Low
<1>5. ASSUME NEW k \in Nat PROVE Shr(x, k) \in SUBSET Ones(32)
  BY DEF Shr, Ones
<1>6. ASSUME NEW k \in Nat PROVE Sar(x, k, 32) \in SUBSET Ones(32)
  BY <1>5 DEF Sar, Ones
<1>7. ASSUME NEW k \in Nat PROVE Ror(x, k, 32) \in SUBSET Ones(32)
  BY <1>4, <1>5 DEF Ror
<1>8. ASSUME NEW op \in {"AND", "BIC", "ORR", "ORN", "EOR", "EON"} PROVE Logic(op, x, y, 32) \in SUBSET Ones(32)
  BY <1>2 DEF Logic, Xor
<1>9. \A u, v : UDiv(u, v, 32) \in SUBSET Ones(32)
  BY QuotientStays
<1>10. SDiv(x, y, 32) \in SUBSET Ones(32)
  BY <1>3, <1>9 DEF SDiv, Negate
<1>11. QED
  BY <1>1, <1>2, <1>3, <1>4, <1>5, <1>6, <1>7, <1>8, <1>9, <1>10

\* A narrow load reads 32 bits at most, whatever it extends them from.
LEMMA NarrowLoads ==
  ASSUME NEW i, ~i.is64, NEW mem, NEW addr
  PROVE  LET n == AccessSize(i)
             loaded == Read(mem, addr, n)
         IN loaded \in SUBSET Ones(32) /\ SignExtend(loaded, n, Size(i)) \in SUBSET Ones(32)
<1>1. AccessSize(i) \in {8, 16, 32} /\ Size(i) = 32
  BY DEF AccessSize, Size
<1>2. ASSUME NEW n \in {8, 16, 32} PROVE Read(mem, addr, n) \in SUBSET Ones(32)
  <2>1. n \div 8 \in {1, 2, 4}
    OBVIOUS
  <2> DEFINE bytes == n \div 8
  <2>2. \A k \in 0 .. bytes - 1 : \A b \in 0 .. 7 : 8 * k + b \in 0 .. 31
    BY <2>1
  <2> DEFINE byte(k) == {8 * k + b : b \in {c \in 0 .. 7 : <<Plus(addr, k), c>> \in mem}}
  <2>3. \A k \in 0 .. bytes - 1 : byte(k) \subseteq 0 .. 31
    BY <2>2
  <2>4. Read(mem, addr, n) = UNION {byte(k) : k \in 0 .. bytes - 1}
    BY DEF Read
  <2> HIDE DEF byte
  <2>5. QED
    BY <2>3, <2>4 DEF Ones
<1>3. ASSUME NEW n \in {8, 16, 32}, NEW x \in SUBSET Ones(32) PROVE SignExtend(x, n, 32) \in SUBSET Ones(32)
  BY DEF SignExtend, Low, Ones
<1>4. QED
  BY <1>1, <1>2, <1>3

\* The instructions whose result, where 32 bits wide, clears the rest.
Clears(i) ==
  /\ ~i.is64 /\ i.rd \in RegNums
  /\ i.fmt \in {"DPImm", "DPReg", "LogicalImm", "Bitfield", "Extract", "MoveWide",
                "CondSelect", "DataProc2Src", "DataProc3Src", "LoadStore"}
  /\ i.op \notin {"MOVK", "STR", "STRB", "STRH", "Unknown"}
  /\ ~(i.op = "MOVZ" /\ i.shift >= 32)
  /\ ~(Indexed(i) /\ i.rd = i.rn)

LEMMA ResultIsHeld ==
  ASSUME NEW a, IsState(a), NEW i, HasForm(i), HasOperation(i), Clears(i)
  PROVE  HoldsWord(Execute(a, i), i.rd)
<1>1. Size(i) = 32 /\ i.rd \in RegNums
  BY DEF Size, Clears
<1>2. \A v \in SUBSET Ones(32) : HoldsWord(WriteReg(a, i.rd, v), i.rd) /\ HoldsWord(WriteRegOrSP(a, i.rd, v), i.rd)
  BY <1>1, WordIsHeld
<1>3. \A b, fl : HoldsWord(b, i.rd) => HoldsWord(Flagged(b, i, fl), i.rd) /\ HoldsWord(Skip(b), i.rd)
  BY <1>1, WordStaysHeld
<1>4. \A u, v : /\ Add(u, v, 32) \in SUBSET Ones(32) /\ Sub(u, v, 32) \in SUBSET Ones(32)
                /\ Not(u, 32) \in SUBSET Ones(32) /\ Low(u, 32) \in SUBSET Ones(32)
                /\ Shl(u, v, 32) \in SUBSET Ones(32)
  BY WordsOf32
<1>5. \A x \in SUBSET Ones(32), k \in Nat :
        Shr(x, k) \in SUBSET Ones(32) /\ Sar(x, k, 32) \in SUBSET Ones(32) /\ Ror(x, k, 32) \in SUBSET Ones(32)
  BY WordsOf32
<1>6. \A x \in SUBSET Ones(32), y \in SUBSET Ones(32) :
        /\ \A op \in {"AND", "BIC", "ORR", "ORN", "EOR", "EON"} : Logic(op, x, y, 32) \in SUBSET Ones(32)
        /\ UDiv(x, y, 32) \in SUBSET Ones(32) /\ SDiv(x, y, 32) \in SUBSET Ones(32)
  BY WordsOf32
<1>7. i.op \notin {"NOP", "SVC", "BRK", "Unknown"}
  BY DEF HasOperation, Clears, Formats
<1>8. CASE i.fmt = "DPImm"
  <2>1. HoldsWord(ExecuteDPImm(a, i), i.rd)
    BY <1>1, <1>2, <1>3, <1>4 DEF ExecuteDPImm, AddOrSub
  <2>2. Execute(a, i) = Skip(ExecuteDPImm(a, i))
    BY <1>7, <1>8 DEF Execute
  <2>3. QED
    BY <1>3, <2>1, <2>2
<1>9. CASE i.fmt = "DPReg"
  <2>1. \A x : \A type \in 0 .. 3, k \in Nat : ApplyShift(Low(x, 32), type, k, 32) \in SUBSET Ones(32)
    <3> DEFINE n == 32
    <3>1. n \in {32, 64}
      OBVIOUS
    <3> HIDE DEF n
    <3>2. \A x : Low(x, n) \in SUBSET Ones(n)
      BY DEF Low
    <3>3. \A x : \A type \in 0 .. 3, k \in Nat : ApplyShift(Low(x, n), type, k, n) \in SUBSET Ones(n)
      BY <3>1, <3>2, ApplyShiftStays
    <3>4. QED
      BY <3>3 DEF n
  <2> DEFINE y == ApplyShift(Low(ReadReg(a, i.rm), 32), i.shiftType, i.shiftAmount, 32)
             x == Low(ReadReg(a, i.rn), 32)
             r == IF i.op \in {"ADD", "SUB"} THEN AddOrSub(i, x, y, 32) ELSE Logic(i.op, x, y, 32)
  <2>2. x \in SUBSET Ones(32) /\ y \in SUBSET Ones(32)
    <3>1. x \in SUBSET Ones(32)
      BY <1>4
    <3>2. i.shiftType \in 0 .. 3 /\ i.shiftAmount \in Nat
      BY <1>9 DEF HasForm
    <3>3. y \in SUBSET Ones(32)
      BY <2>1, <3>2, Zenon
    <3>4. QED
      BY <3>1, <3>3
  <2>3. ExecuteDPReg(a, i) =
          Flagged(WriteReg(a, i.rd, r), i,
                  IF i.op \in {"ADD", "SUB"} THEN ArithFlags(i, x, y, r, 32) ELSE SetLogicFlags(r, 32))
    BY <1>1 DEF ExecuteDPReg
  <2> HIDE DEF x, y
  <2>4. r \in SUBSET Ones(32)
    <3>1. CASE i.op \in {"ADD", "SUB"}
      BY <1>4, <3>1 DEF AddOrSub
    <3>2. CASE i.op \notin {"ADD", "SUB"}
      <4>1. i.op \in {"AND", "BIC", "ORR", "ORN", "EOR", "EON"}
        BY <1>9, <3>2 DEF HasOperation
      <4>2. Logic(i.op, x, y, 32) \in SUBSET Ones(32)
        BY <1>6, <2>2, <4>1, Zenon
      <4>3. QED
        BY <3>2, <4>2
    <3>3. QED
      BY <3>1, <3>2
  <2> HIDE DEF r
  <2>5. HoldsWord(ExecuteDPReg(a, i), i.rd)
    BY <1>2, <1>3, <2>3, <2>4
  <2>6. Execute(a, i) = Skip(ExecuteDPReg(a, i))
    BY <1>7, <1>9 DEF Execute
  <2>7. QED
    BY <1>3, <2>5, <2>6
<1>10. CASE i.fmt = "LogicalImm"
  <2>1. Logic(i.op, Low(ReadReg(a, i.rn), 32), Low(i.imm, 32), 32) \in SUBSET Ones(32)
    BY <1>4, <1>6, <1>10 DEF HasOperation
  <2>2. HoldsWord(ExecuteLogicalImm(a, i), i.rd)
    BY <1>1, <1>2, <1>3, <2>1 DEF ExecuteLogicalImm
  <2>3. Execute(a, i) = Skip(ExecuteLogicalImm(a, i))
    BY <1>7, <1>10 DEF Execute
  <2>4. QED
    BY <1>3, <2>2, <2>3
<1>11. CASE i.fmt = "Bitfield"
  <2>1. i.op \in {"UBFM", "SBFM", "BFM"}
    BY <1>7, <1>11 DEF HasOperation
  <2>2. \A x, f, g \in SUBSET Ones(32) : (x \ f) \cup g \in SUBSET Ones(32)
    OBVIOUS
  <2>3. HoldsWord(ExecuteBitfield(a, i), i.rd)
    BY <1>1, <1>2, <1>4, <2>1, <2>2 DEF ExecuteBitfield
  <2>4. Execute(a, i) = Skip(ExecuteBitfield(a, i))
    BY <1>7, <1>11 DEF Execute
  <2>5. QED
    BY <1>3, <2>3, <2>4
<1>12. CASE i.fmt = "Extract"
  <2>1. Num(i.imm) \in Nat
    BY <1>12, NumIsNumber DEF HasOperation
  <2>2. HoldsWord(ExecuteExtract(a, i), i.rd)
    BY <1>1, <1>2, <1>4, <1>5, <2>1 DEF ExecuteExtract
  <2>3. Execute(a, i) = Skip(ExecuteExtract(a, i))
    BY <1>7, <1>12 DEF Execute
  <2>4. QED
    BY <1>3, <2>2, <2>3
<1>13. CASE i.fmt = "MoveWide"
  <2>1. i.op \in {"MOVZ", "MOVN"}
    BY <1>7, <1>13 DEF HasOperation, Clears
  <2>2. i.op = "MOVZ" => Shl(i.imm, i.shift, 64) \in SUBSET Ones(32)
    <3>1. i.imm \in SUBSET Ones(16)
      BY <1>13 DEF HasOperation
    <3>2. i.op = "MOVZ" => i.shift \in {0, 16}
      BY <1>13 DEF HasOperation, Clears
    <3>3. \A k \in {0, 16} : \A x \in SUBSET Ones(16) : Shl(x, k, 64) \in SUBSET Ones(32)
      BY DEF Shl, Low, Ones
    <3>4. QED
      BY <3>1, <3>2, <3>3
  <2>3. HoldsWord(ExecuteMoveWide(a, i), i.rd)
    BY <1>1, <1>2, <1>4, <2>1, <2>2 DEF ExecuteMoveWide
  <2>4. Execute(a, i) = Skip(ExecuteMoveWide(a, i))
    BY <1>7, <1>13 DEF Execute
  <2>5. QED
    BY <1>3, <2>3, <2>4
<1>14. CASE i.fmt = "CondSelect"
  <2>1. HoldsWord(ExecuteCondSelect(a, i), i.rd)
    BY <1>1, <1>2, <1>4, <1>14 DEF ExecuteCondSelect, HasOperation, Negate
  <2>2. Execute(a, i) = Skip(ExecuteCondSelect(a, i))
    BY <1>7, <1>14 DEF Execute
  <2>3. QED
    BY <1>3, <2>1, <2>2
<1>15. CASE i.fmt = "DataProc2Src"
  <2>1. i.op \in {"UDIV", "SDIV", "LSLV", "LSRV", "ASRV", "RORV"}
    BY <1>7, <1>15 DEF HasOperation
  <2>2. \A y : Num(Low(y, 5)) \in Nat
    <3>1. \A y : Low(y, 5) \in SUBSET Bits16
      BY DEF Low, Ones, Bits16
    <3>2. QED
      BY <3>1, NumIsNumber
  <2>3. HoldsWord(ExecuteDataProc2Src(a, i), i.rd)
    <3> DEFINE x == Low(ReadReg(a, i.rn), 32)
               y == Low(ReadReg(a, i.rm), 32)
               k == Num(Low(y, 5))
               r == CASE i.op = "UDIV" -> IF y = {} THEN {} ELSE UDiv(x, y, 32)
                      [] i.op = "SDIV" -> IF y = {} THEN {} ELSE SDiv(x, y, 32)
                      [] i.op = "LSLV" -> Shl(x, k, 32)    [] i.op = "LSRV" -> Shr(x, k)
                      [] i.op = "ASRV" -> Sar(x, k, 32)    [] i.op = "RORV" -> Ror(x, k, 32)
    <3>1. ExecuteDataProc2Src(a, i) = WriteReg(a, i.rd, r)
      BY <1>1 DEF ExecuteDataProc2Src, Clears
    <3>2. k \in Nat /\ x \in SUBSET Ones(32) /\ y \in SUBSET Ones(32)
      BY <1>4, <2>2
    <3> HIDE DEF k, x, y
    <3>3. r \in SUBSET Ones(32)
      <4>1. CASE i.op = "UDIV"
        BY <1>6, <3>2, <4>1
      <4>2. CASE i.op = "SDIV"
        BY <1>6, <3>2, <4>2
      <4>3. CASE i.op = "LSLV"
        BY <1>4, <4>3
      <4>4. CASE i.op = "LSRV"
        BY <1>5, <3>2, <4>4
      <4>5. CASE i.op = "ASRV"
        BY <1>5, <3>2, <4>5
      <4>6. CASE i.op = "RORV"
        BY <1>5, <3>2, <4>6
      <4>7. QED
        BY <2>1, <4>1, <4>2, <4>3, <4>4, <4>5, <4>6
    <3>4. QED
      BY <1>2, <3>1, <3>3
  <2>4. Execute(a, i) = Skip(ExecuteDataProc2Src(a, i))
    BY <1>7, <1>15 DEF Execute
  <2>5. QED
    BY <1>3, <2>3, <2>4
<1>16. CASE i.fmt = "DataProc3Src"
  <2>1. HoldsWord(ExecuteDataProc3Src(a, i), i.rd)
    BY <1>1, <1>2, <1>4 DEF ExecuteDataProc3Src
  <2>2. Execute(a, i) = Skip(ExecuteDataProc3Src(a, i))
    BY <1>7, <1>16 DEF Execute
  <2>3. QED
    BY <1>3, <2>1, <2>2
<1>17. CASE i.fmt = "LoadStore"
  <2> DEFINE n == AccessSize(i)
             loaded == Read(a.mem, Address(a, i), n)
             value == IF i.op \in {"LDRSB", "LDRSH", "LDRSW"} THEN SignExtend(loaded, n, Size(i)) ELSE loaded
  <2>1. value \in SUBSET Ones(32)
    BY NarrowLoads DEF Clears
  <2>2. ExecuteLoadStore(a, i) = BaseWriteback(a, WriteReg(a, i.rd, value), i)
    BY DEF ExecuteLoadStore, Clears
  <2> HIDE DEF value
  <2>3. HoldsWord(WriteReg(a, i.rd, value), i.rd)
    BY <1>2, <2>1
  <2>4. HoldsWord(ExecuteLoadStore(a, i), i.rd)
    <3>1. ~(Indexed(i) /\ i.rd = i.rn)
      BY DEF Clears
    <3>2. \A b : HoldsWord(b, i.rd) => HoldsWord(BaseWriteback(a, b, i), i.rd)
      BY <1>1, <3>1, WordStaysHeld
    <3>3. QED
      BY <2>2, <2>3, <3>2
  <2>5. Execute(a, i) = Skip(ExecuteLoadStore(a, i))
    BY <1>7, <1>17 DEF Execute
  <2>6. QED
    BY <1>3, <2>4, <2>5
<1>18. QED
  BY <1>8, <1>9, <1>10, <1>11, <1>12, <1>13, <1>14, <1>15, <1>16, <1>17 DEF Clears

(* A 32-bit result leaves the upper half of its register 0 in the emulator.     *)
(* Excepted are MOVK, which keeps it, a MOVZ by 32 or 48 places, and a load that *)
(* leaves its address in its destination.                                       *)
THEOREM NoStaleUpperHalf == SimSpec => UpperHalfIsCleared
<1>1. ASSUME EmulatorRuns, SimNext, machine = "emulator", Clears(Current), arch'.status = "running"
      PROVE  ~Upper(arch', Current.rd)
  <2>1. prog \in Programs /\ IsState(arch) /\ arch' = Step(arch)
    BY <1>1 DEF EmulatorRuns, SimNext, Emulates, Ticks, GoesThrough, Fuses, Next
  <2>2. HasForm(Current) /\ HasOperation(Current)
    BY <2>1, InstructionsHaveForms, InstructionsHaveOperations DEF Current
  <2>3. arch' = [Execute(arch, Current) EXCEPT !.count = @ + 1]
    <3>1. Stop(arch, Failed).status = "exited"
      BY <2>1 DEF Stop, IsState
    <3>2. QED
      BY <1>1, <2>1, <3>1 DEF Step, Current
  <2>4. Current.rd \in RegNums
    BY <1>1 DEF Clears
  <2>5. HoldsWord(Execute(arch, Current), Current.rd)
    BY <1>1, <2>1, <2>2, ResultIsHeld
  <2>6. HoldsWord(arch', Current.rd)
    BY <2>3, <2>4, <2>5, WordStaysHeld
  <2>7. QED
    BY <2>6 DEF HoldsWord, Upper, ReadReg
<1>2. EmulatorRuns /\ [SimNext]_simVars
        => [machine = "emulator" /\ Narrow(Current) /\ Current.rd \in RegNums
              /\ Current.fmt \in {"DPImm", "DPReg", "LogicalImm", "Bitfield", "Extract", "MoveWide",
                                  "CondSelect", "DataProc2Src", "DataProc3Src", "LoadStore"}
              /\ Current.op \notin {"MOVK", "STR", "STRB", "STRH", "Unknown"}
              /\ ~(Current.op = "MOVZ" /\ Current.shift >= 32)
              /\ ~(Indexed(Current) /\ Current.rd = Current.rn)
              /\ arch'.status = "running"
              => ~Upper(arch', Current.rd)]_simVars
  BY <1>1 DEF Clears, Narrow
<1>3. QED
  BY <1>2, EmulatorKeepsRunning, PTL DEF SimSpec, UpperHalfIsCleared

---------------------------------------------------------------------------
(* Decoded instructions, once more: what the stages rely on.                *)

\* What else a decoded instruction is known by: the operations and index modes of its format,
\* and that only a conditional compare may name no register.
IsDecoded(i) ==
  /\ i.fmt = "Branch" => i.op \in {"B", "BL"}
  /\ i.fmt = "BranchCond" => i.op = "BCond"
  /\ i.fmt = "BranchReg" => i.op \in {"BR", "BLR", "RET", "Unknown"}
  /\ i.fmt = "TestBranch" => i.op \in {"TBZ", "TBNZ"}
  /\ i.fmt = "CompareBranch" => i.op \in {"CBZ", "CBNZ"}
  /\ i.fmt = "DPImm" => i.op \in {"ADD", "SUB"}
  /\ i.fmt = "DPReg" /\ i.setFlags => i.op \in {"ADD", "SUB", "AND", "BIC"}
  /\ i.fmt = "LoadStore" => /\ i.op \in {"LDR", "STR", "LDRB", "STRB", "LDRSB", "LDRH", "STRH",
                                         "LDRSH", "LDRSW", "Unknown"}
                            /\ i.index \in {"none", "pre", "post", "regBase"}
  /\ i.fmt = "LoadStorePair" => i.op \in {"LDP", "STP"} /\ i.index \in {"pre", "post", "signed"}
  /\ i.fmt = "LoadStoreLit" => i.op = "LDRLit"
  /\ i.fmt = "PCRel" => i.op \in {"ADR", "ADRP"}
  /\ i.fmt = "Extract" => i.op = "EXTR"
  /\ i.fmt = "CondCmp" => i.op \in {"CCMP", "CCMN"}
  /\ i.fmt = "DataProc3Src" => i.op \in {"MADD", "MSUB"}
  /\ i.fmt = "SystemReg" => i.op = "MRS"
  /\ i.fmt = "Bitfield" => i.imm \in SUBSET (0 .. 5) /\ i.imm2 \in SUBSET (0 .. 5)
  /\ i.fmt \notin {"LoadStore", "LoadStorePair"} => i.index = "none"
  /\ i.fmt # "CondCmp" => i.rm # NoRegister

LEMMA FiveBits ==
  ASSUME NEW w, NEW hi \in Int, NEW lo \in Int, hi = lo + 4
  PROVE  Field(w, hi, lo) \in 0 .. 31
<1>1. Slice(w, hi, lo) \in SUBSET Bits16 /\ \A k \in 5 .. 15 : k \notin Slice(w, hi, lo)
  BY SliceBits DEF Bits16
<1> DEFINE s == Slice(w, hi, lo)
<1>2. Field(w, hi, lo) = Value(s)
  BY <1>1, NumIsValue DEF Field
<1> HIDE DEF s
<1>3. \A k \in 5 .. 15 : k \notin s
  BY <1>1 DEF s
<1>4. /\ 5 \notin s /\ 6 \notin s /\ 7 \notin s /\ 8 \notin s /\ 9 \notin s /\ 10 \notin s
      /\ 11 \notin s /\ 12 \notin s /\ 13 \notin s /\ 14 \notin s /\ 15 \notin s
  BY <1>3
<1>5. Value(s) \in 0 .. 31
  BY <1>4 DEF Value, Part
<1>6. QED
  BY <1>2, <1>5

LEMMA DecodedIs ==
  ASSUME NEW w
  PROVE  IsDecoded(Decode(w))
<1>1. /\ Field(w, 23, 22) \in 0 .. 3 /\ Field(w, 22, 21) \in 0 .. 3 /\ Field(w, 30, 29) \in 0 .. 3
      /\ Field(w, 31, 30) \in 0 .. 3 /\ Field(w, 11, 10) \in 0 .. 3
  BY TwoBits
<1>3. Rm(w) # NoRegister
  BY FiveBits DEF Rm, NoRegister
<1>2. Slice(w, 21, 16) \in SUBSET (0 .. 5) /\ Slice(w, 15, 10) \in SUBSET (0 .. 5)
  BY SliceBits
<1>4. IsDecoded(Unknown) /\ IsDecoded([Unknown EXCEPT !.op = "NOP"])
  BY DEF IsDecoded, Unknown, NoRegister
<1>5. IsDecoded(DecodeSIMDLoadStore(w))
  BY <1>3 DEF IsDecoded, Unknown, NoRegister, DecodeSIMDLoadStore
<1>6. IsDecoded(DecodeSIMDCopy(w))
  BY <1>3 DEF IsDecoded, Unknown, NoRegister, DecodeSIMDCopy
<1>7. ASSUME IsLoadStorePair(w) PROVE IsDecoded(DecodeLoadStorePair(w))
  <2>1. Field(w, 25, 23) \in {1, 2, 3}
    BY <1>7 DEF IsLoadStorePair
  <2>2. QED
    BY <1>3, <2>1 DEF IsDecoded, Unknown, NoRegister, DecodeLoadStorePair
<1>8. IsDecoded(DecodeDataProcessingImm(w))
  BY <1>3 DEF IsDecoded, Unknown, NoRegister, DecodeDataProcessingImm
<1>9. IsDecoded(DecodeSIMDThreeSame(w))
  BY <1>3 DEF IsDecoded, Unknown, NoRegister, DecodeSIMDThreeSame
<1>10. IsDecoded(DecodePCRelAddressing(w))
  BY <1>3 DEF IsDecoded, Unknown, NoRegister, DecodePCRelAddressing
<1>11. IsDecoded(DecodeCondCmp(w))
  BY <1>3 DEF IsDecoded, Unknown, NoRegister, DecodeCondCmp
<1>12. IsDecoded(DecodeConditionalSelect(w))
  BY <1>3 DEF IsDecoded, Unknown, NoRegister, DecodeConditionalSelect
<1>13. IsDecoded(DecodeDataProc2Src(w))
  BY <1>3 DEF IsDecoded, Unknown, NoRegister, DecodeDataProc2Src
<1>14. IsDecoded(DecodeDataProc3Src(w))
  BY <1>3 DEF IsDecoded, Unknown, NoRegister, DecodeDataProc3Src
<1>15. IsDecoded(DecodeExtract(w))
  BY <1>3 DEF IsDecoded, Unknown, NoRegister, DecodeExtract
<1>16. IsDecoded(DecodeTestBranch(w))
  BY <1>3 DEF IsDecoded, Unknown, NoRegister, DecodeTestBranch
<1>17. IsDecoded(DecodeCompareBranch(w))
  BY <1>3 DEF IsDecoded, Unknown, NoRegister, DecodeCompareBranch
<1>18. IsDecoded(DecodeException(w))
  BY <1>3 DEF IsDecoded, Unknown, NoRegister, DecodeException
<1>19. IsDecoded(DecodeSystemReg(w))
  BY <1>3 DEF IsDecoded, Unknown, NoRegister, DecodeSystemReg
<1>20. IsDecoded(DecodeLoadStoreLiteral(w))
  BY <1>3 DEF IsDecoded, Unknown, NoRegister, DecodeLoadStoreLiteral, WithOffset
<1>21. IsDecoded(DecodeBranchImm(w))
  BY <1>3 DEF IsDecoded, Unknown, NoRegister, DecodeBranchImm, WithOffset
<1>22. IsDecoded(DecodeBranchCond(w))
  BY <1>3 DEF IsDecoded, Unknown, NoRegister, DecodeBranchCond, WithOffset
<1>23. IsDecoded(DecodeLoadStoreRegOffset(w))
  BY <1>1, <1>3 DEF IsDecoded, Unknown, NoRegister, DecodeLoadStoreRegOffset, SizedAccess
<1>24. IsDecoded(DecodeLoadStoreRegIndexed(w))
  BY <1>1, <1>3 DEF IsDecoded, Unknown, NoRegister, DecodeLoadStoreRegIndexed, SizedAccess
<1>25. IsDecoded(DecodeLoadStoreImm(w))
  BY <1>1, <1>3 DEF IsDecoded, Unknown, NoRegister, DecodeLoadStoreImm
<1>26. IsDecoded(DecodeMoveWide(w))
  BY <1>1, <1>3 DEF IsDecoded, Unknown, NoRegister, DecodeMoveWide
<1>27. IsDecoded(DecodeLogicalImm(w))
  BY <1>1, <1>3 DEF IsDecoded, Unknown, NoRegister, DecodeLogicalImm
<1>28. IsDecoded(DecodeBitfield(w))
  BY <1>1, <1>2, <1>3 DEF IsDecoded, Unknown, NoRegister, DecodeBitfield
<1>29. IsDecoded(DecodeBranchReg(w))
  BY <1>1, <1>3 DEF IsDecoded, Unknown, NoRegister, DecodeBranchReg
<1>30. IsDecoded(DecodeDataProcessingReg(w))
  <2> DEFINE d == DecodeDataProcessingReg(w)
             opc == Field(w, 30, 29)
             plain == <<"AND", "ORR", "EOR", "AND">>
             inverted == <<"BIC", "ORN", "EON", "BIC">>
  <2>1. d.fmt = "DPReg" /\ d.index = "none" /\ d.rm = Rm(w)
    BY DEF Unknown, DecodeDataProcessingReg
  <2>2. ASSUME 24 \in w PROVE d.op \in {"ADD", "SUB"}
    BY <2>2 DEF Unknown, DecodeDataProcessingReg
  <2>3. ASSUME 24 \notin w, d.setFlags PROVE d.op \in {"AND", "BIC"}
    <3>1. opc = 3
      BY <2>3 DEF Unknown, DecodeDataProcessingReg
    <3>2. d.op = (IF 21 \in w THEN inverted ELSE plain)[opc + 1]
      BY <2>3 DEF Unknown, DecodeDataProcessingReg
    <3> HIDE DEF d, opc
    <3>3. QED
      BY <3>1, <3>2
  <2> HIDE DEF d
  <2>4. d.setFlags => d.op \in {"ADD", "SUB", "AND", "BIC"}
    BY <2>2, <2>3
  <2>5. IsDecoded(d)
    BY <1>3, <2>1, <2>4 DEF IsDecoded
  <2>6. QED
    BY <2>5 DEF d
<1>31. QED
  BY <1>4, <1>5, <1>6, <1>7, <1>8, <1>9, <1>10, <1>11, <1>12, <1>13, <1>14, <1>15, <1>16, <1>17,
     <1>18, <1>19, <1>20, <1>21, <1>22, <1>23, <1>24, <1>25, <1>26, <1>27, <1>28, <1>29,
     <1>30 DEF Decode

LEMMA InstructionsAreDecoded ==
  ASSUME NEW p \in Programs, NEW addr
  PROVE  IsDecoded(InstAt(p, addr))
<1>1. IsDecoded(Unknown)
  BY DEF IsDecoded, Unknown, NoRegister
<1>2. ASSUME addr \in DOMAIN p PROVE Decoded[p[addr]] = Decode(p[addr])
  BY <1>2 DEF Decoded
<1>3. QED
  BY <1>1, <1>2, DecodedIs DEF InstAt

---------------------------------------------------------------------------
(* States by their parts: what an instruction leaves of a, and in what order *)
(* it writes registers.                                                     *)

Put(a, pc, regs, sp, fl, mem) ==
  [a EXCEPT !.pc = pc, !.regs = regs, !.sp = sp, !.fl = fl, !.mem = mem]

\* The registers and SP after a write.
Wrote(regs, r, v) == IF r = 31 THEN regs ELSE [regs EXCEPT ![r] = v]
WroteSP(sp, r, v) == IF r = 31 THEN v ELSE sp

LEMMA WholeState ==
  ASSUME NEW a, IsState(a)
  PROVE  a = Put(a, a.pc, a.regs, a.sp, a.fl, a.mem)
  BY DEF IsState, Put

\* A state given part by part, and with one part changed.
Whole(p, q, x, f, v, m, c, t, d) ==
  [pc |-> p, regs |-> q, sp |-> x, fl |-> f, vec |-> v, mem |-> m, count |-> c, status |-> t, code |-> d]
WithPC(s, u) == [s EXCEPT !.pc = u]
WithRegs(s, u) == [s EXCEPT !.regs = u]
WithSP(s, u) == [s EXCEPT !.sp = u]
WithFlags(s, u) == [s EXCEPT !.fl = u]
WithMem(s, u) == [s EXCEPT !.mem = u]

LEMMA WholeChanges ==
  ASSUME NEW p, NEW q, NEW x, NEW f, NEW v, NEW m, NEW c, NEW t, NEW d, NEW u
  PROVE  /\ WithPC(Whole(p, q, x, f, v, m, c, t, d), u) = Whole(u, q, x, f, v, m, c, t, d)
         /\ WithRegs(Whole(p, q, x, f, v, m, c, t, d), u) = Whole(p, u, x, f, v, m, c, t, d)
         /\ WithSP(Whole(p, q, x, f, v, m, c, t, d), u) = Whole(p, q, u, f, v, m, c, t, d)
         /\ WithFlags(Whole(p, q, x, f, v, m, c, t, d), u) = Whole(p, q, x, u, v, m, c, t, d)
         /\ WithMem(Whole(p, q, x, f, v, m, c, t, d), u) = Whole(p, q, x, f, v, u, c, t, d)
  BY DEF Whole, WithPC, WithRegs, WithSP, WithFlags, WithMem

LEMMA PutIsWhole ==
  ASSUME NEW a, IsState(a), NEW pc, NEW regs, NEW sp, NEW fl, NEW mem
  PROVE  Put(a, pc, regs, sp, fl, mem) = Whole(pc, regs, sp, fl, a.vec, mem, a.count, a.status, a.code)
<1> DEFINE p == a.pc   q == a.regs   x == a.sp   f == a.fl   v == a.vec   m == a.mem
           c == a.count   t == a.status   d == a.code
<1>1. Put(a, pc, regs, sp, fl, mem) = WithMem(WithFlags(WithSP(WithRegs(WithPC(a, pc), regs), sp), fl), mem)
  BY DEF Put, WithPC, WithRegs, WithSP, WithFlags, WithMem
<1>2. a = Whole(p, q, x, f, v, m, c, t, d)
  BY DEF IsState, Whole
<1> HIDE DEF p, q, x, f, v, m, c, t, d
<1>3. WithMem(WithFlags(WithSP(WithRegs(WithPC(a, pc), regs), sp), fl), mem) = Whole(pc, regs, sp, fl, v, mem, c, t, d)
  BY <1>2, WholeChanges
<1>4. QED
  BY <1>1, <1>3 DEF v, c, t, d

LEMMA PutParts ==
  ASSUME NEW a, IsState(a), NEW pc, NEW regs, NEW sp, NEW fl, NEW mem
  PROVE  LET s == Put(a, pc, regs, sp, fl, mem)
         IN /\ s.pc = pc /\ s.regs = regs /\ s.sp = sp /\ s.fl = fl /\ s.mem = mem
            /\ s.vec = a.vec /\ s.count = a.count /\ s.status = a.status /\ s.code = a.code
            /\ IsRegFile(regs) => IsState(s)
<1> DEFINE s == Put(a, pc, regs, sp, fl, mem)
<1>1. s = [pc |-> pc, regs |-> regs, sp |-> sp, fl |-> fl, vec |-> a.vec, mem |-> mem,
           count |-> a.count, status |-> a.status, code |-> a.code]
  BY PutIsWhole DEF Whole
<1> HIDE DEF s
<1>2. /\ s.pc = pc /\ s.regs = regs /\ s.sp = sp /\ s.fl = fl /\ s.mem = mem
      /\ s.vec = a.vec /\ s.count = a.count /\ s.status = a.status /\ s.code = a.code
  BY <1>1
<1>3. IsRegFile(regs) => IsState(s)
  BY <1>1, <1>2 DEF IsState
<1>4. QED
  BY <1>2, <1>3 DEF s

LEMMA PutChanges ==
  ASSUME NEW a, IsState(a), NEW pc, NEW regs, NEW sp, NEW fl, NEW mem, NEW v
  PROVE  /\ WithPC(Put(a, pc, regs, sp, fl, mem), v) = Put(a, v, regs, sp, fl, mem)
         /\ WithRegs(Put(a, pc, regs, sp, fl, mem), v) = Put(a, pc, v, sp, fl, mem)
         /\ WithSP(Put(a, pc, regs, sp, fl, mem), v) = Put(a, pc, regs, v, fl, mem)
         /\ WithFlags(Put(a, pc, regs, sp, fl, mem), v) = Put(a, pc, regs, sp, v, mem)
         /\ WithMem(Put(a, pc, regs, sp, fl, mem), v) = Put(a, pc, regs, sp, fl, v)
<1> DEFINE w == a.vec   c == a.count   t == a.status   d == a.code
<1>1. \A p, q, x, f, m : Put(a, p, q, x, f, m) = Whole(p, q, x, f, w, m, c, t, d)
  BY PutIsWhole
<1> HIDE DEF w, c, t, d
<1>2. QED
  BY <1>1, WholeChanges

LEMMA PutWrites ==
  ASSUME NEW a, IsState(a), NEW pc, NEW regs, NEW sp, NEW fl, NEW mem, NEW r, NEW v
  PROVE  /\ WriteReg(Put(a, pc, regs, sp, fl, mem), r, v) = Put(a, pc, Wrote(regs, r, v), sp, fl, mem)
         /\ WriteRegOrSP(Put(a, pc, regs, sp, fl, mem), r, v) =
              Put(a, pc, Wrote(regs, r, v), WroteSP(sp, r, v), fl, mem)
         /\ Skip(Put(a, pc, regs, sp, fl, mem)) = Put(a, Plus(pc, 4), regs, sp, fl, mem)
<1> DEFINE s == Put(a, pc, regs, sp, fl, mem)
<1>1. s.pc = pc /\ s.regs = regs
  BY PutParts
<1>2. /\ \A u : WithPC(s, u) = Put(a, u, regs, sp, fl, mem)
      /\ \A u : WithRegs(s, u) = Put(a, pc, u, sp, fl, mem)
      /\ \A u : WithSP(s, u) = Put(a, pc, regs, u, fl, mem)
  BY PutChanges
<1> HIDE DEF s
<1>3. Skip(s) = WithPC(s, Plus(pc, 4))
  BY <1>1 DEF Skip, WithPC
<1>4. r # 31 => WriteReg(s, r, v) = WithRegs(s, Wrote(regs, r, v))
  BY <1>1 DEF WriteReg, WithRegs, Wrote
<1>5. r # 31 => WriteRegOrSP(s, r, v) = WithRegs(s, Wrote(regs, r, v)) /\ WroteSP(sp, r, v) = sp
  BY <1>1 DEF WriteRegOrSP, WithRegs, Wrote, WroteSP
<1>6. r = 31 => WriteReg(s, r, v) = s /\ Wrote(regs, r, v) = regs /\ WroteSP(sp, r, v) = v
  BY DEF WriteReg, Wrote, WroteSP
<1>7. r = 31 => WriteRegOrSP(s, r, v) = WithSP(s, v)
  BY DEF WriteRegOrSP, WithSP
<1>8. s = Put(a, pc, regs, sp, fl, mem)
  BY DEF s
<1>9. /\ WriteReg(s, r, v) = Put(a, pc, Wrote(regs, r, v), sp, fl, mem)
      /\ WriteRegOrSP(s, r, v) = Put(a, pc, Wrote(regs, r, v), WroteSP(sp, r, v), fl, mem)
      /\ Skip(s) = Put(a, Plus(pc, 4), regs, sp, fl, mem)
  BY <1>2, <1>3, <1>4, <1>5, <1>6, <1>7, <1>8
<1>10. QED
  BY <1>9 DEF s

LEMMA PutFlags ==
  ASSUME NEW a, IsState(a), NEW pc, NEW regs, NEW sp, NEW fl, NEW mem, NEW i, NEW f
  PROVE  Skip(Flagged(Put(a, pc, regs, sp, fl, mem), i, f)) =
           Put(a, Plus(pc, 4), regs, sp, IF i.setFlags THEN f ELSE fl, mem)
<1> DEFINE s == Put(a, pc, regs, sp, fl, mem)
<1>1. WithFlags(s, f) = Put(a, pc, regs, sp, f, mem)
  BY PutChanges
<1>2. Skip(s) = Put(a, Plus(pc, 4), regs, sp, fl, mem)
  BY PutWrites
<1>3. Skip(Put(a, pc, regs, sp, f, mem)) = Put(a, Plus(pc, 4), regs, sp, f, mem)
  BY PutWrites
<1> HIDE DEF s
<1>4. Flagged(s, i, f) = IF i.setFlags THEN WithFlags(s, f) ELSE s
  BY DEF Flagged, WithFlags
<1>5. QED
  BY <1>1, <1>2, <1>3, <1>4 DEF s

LEMMA WritesCommute ==
  ASSUME NEW regs, IsRegFile(regs), NEW q, NEW r, q # r, NEW u, NEW v
  PROVE  Wrote(Wrote(regs, q, u), r, v) = Wrote(Wrote(regs, r, v), q, u)
<1>1. CASE q = 31 \/ r = 31
  BY <1>1 DEF Wrote
<1>2. CASE q # 31 /\ r # 31
  <2>1. [[regs EXCEPT ![q] = u] EXCEPT ![r] = v] = [[regs EXCEPT ![r] = v] EXCEPT ![q] = u]
    BY DEF IsRegFile
  <2>2. QED
    BY <1>2, <2>1 DEF Wrote
<1>3. QED
  BY <1>1, <1>2

LEMMA WroteIsFile ==
  ASSUME NEW regs, IsRegFile(regs), NEW r, NEW v
  PROVE  IsRegFile(Wrote(regs, r, v))
  BY DEF IsRegFile, Wrote

---------------------------------------------------------------------------
(* The stages, by parts.                                                    *)

Writes(i) ==
  i.op \in {"ADD", "SUB", "AND", "ORR", "EOR", "BIC", "ORN", "EON", "MOVZ", "MOVN",
            "MOVK", "ADR", "ADRP", "MADD", "MSUB", "UBFM", "SBFM", "BFM"}

LEMMA StagesExecute ==
  ASSUME NEW a, IsState(a), NEW i, i.rm # NoRegister, i.op # "SVC"
  PROVE  LET alu == StageALU(a, i)
         IN ThroughStages(a, i) =
              WriteBack(a, Put(a, StagePC(a, i), a.regs, a.sp, ComputeFlags(a, i, alu), Stored(a, i, alu)),
                        i, alu)
<1>1. \A fl, mem, pc : [a EXCEPT !.fl = fl, !.mem = mem, !.pc = pc] = Put(a, pc, a.regs, a.sp, fl, mem)
  BY DEF IsState, Put
<1>2. QED
  BY <1>1 DEF ThroughStages

\* An instruction that neither accesses memory nor links.
LEMMA StagesCompute ==
  ASSUME NEW a, IsState(a), NEW i, i.rm # NoRegister, i.op # "SVC", i.index = "none",
         ~IsLoadOp(i), ~IsStoreOp(i), ~Links(i)
  PROVE  ThroughStages(a, i) =
           Put(a, StagePC(a, i), IF Writes(i) THEN Wrote(a.regs, i.rd, StageALU(a, i)) ELSE a.regs,
               a.sp, ComputeFlags(a, i, StageALU(a, i)), a.mem)
<1> DEFINE alu == StageALU(a, i)
           fl == ComputeFlags(a, i, alu)
           pc == StagePC(a, i)
           b == Put(a, pc, a.regs, a.sp, fl, a.mem)
<1>1. ThroughStages(a, i) = WriteBack(a, b, i, alu)
  BY StagesExecute DEF Stored
<1> HIDE DEF alu, fl, pc
<1>2. PerformBaseWriteback(b, i, alu) = b
  BY DEF PerformBaseWriteback
<1>3. WriteReg(b, i.rd, alu) = Put(a, pc, Wrote(a.regs, i.rd, alu), a.sp, fl, a.mem)
  BY PutWrites
<1> HIDE DEF b
<1>4. WriteBack(a, b, i, alu) = IF IsRegWriteInst(i) THEN WriteReg(b, i.rd, alu) ELSE b
  BY <1>2 DEF WriteBack, IsLoadOp
<1>5. IsRegWriteInst(i) <=> i.rd # 31 /\ Writes(i)
  BY DEF IsRegWriteInst, Writes
<1>6. CASE IsRegWriteInst(i)
  BY <1>1, <1>3, <1>4, <1>5, <1>6 DEF alu, fl, pc
<1>7. CASE ~IsRegWriteInst(i)
  <2>1. (IF Writes(i) THEN Wrote(a.regs, i.rd, alu) ELSE a.regs) = a.regs
    BY <1>5, <1>7 DEF Wrote
  <2>2. QED
    BY <1>1, <1>4, <1>7, <2>1 DEF alu, fl, pc, b
<1>8. QED
  BY <1>6, <1>7

\* What the emulator makes of an instruction that computes one register and flags.
LEMMA EmulatorComputes ==
  ASSUME NEW a, IsState(a), NEW i, NEW r, NEW v, NEW fl
  PROVE  /\ Skip(WriteReg(a, r, v)) = Put(a, Plus(a.pc, 4), Wrote(a.regs, r, v), a.sp, a.fl, a.mem)
         /\ Skip(Flagged(WriteReg(a, r, v), i, fl)) =
              Put(a, Plus(a.pc, 4), Wrote(a.regs, r, v), a.sp, IF i.setFlags THEN fl ELSE a.fl, a.mem)
         /\ r # 31 => Skip(WriteRegOrSP(a, r, v)) =
                        Put(a, Plus(a.pc, 4), Wrote(a.regs, r, v), a.sp, a.fl, a.mem)
<1> DEFINE regs == Wrote(a.regs, r, v)
           s == Put(a, a.pc, regs, a.sp, a.fl, a.mem)
<1>1. a = Put(a, a.pc, a.regs, a.sp, a.fl, a.mem)
  BY WholeState
<1>2. WriteReg(a, r, v) = s
  <2>1. WriteReg(Put(a, a.pc, a.regs, a.sp, a.fl, a.mem), r, v) = s
    BY PutWrites
  <2>2. QED
    BY <1>1, <2>1, Zenon
<1> HIDE DEF regs
<1>3. r # 31 => WriteRegOrSP(a, r, v) = WriteReg(a, r, v)
  BY DEF WriteReg, WriteRegOrSP
<1>4. Skip(s) = Put(a, Plus(a.pc, 4), regs, a.sp, a.fl, a.mem)
  BY PutWrites
<1>5. Skip(Flagged(s, i, fl)) = Put(a, Plus(a.pc, 4), regs, a.sp, IF i.setFlags THEN fl ELSE a.fl, a.mem)
  BY PutFlags
<1> HIDE DEF s
<1>6. QED
  BY <1>2, <1>3, <1>4, <1>5 DEF regs

---------------------------------------------------------------------------
(* Format by format, the stages against the emulator.                       *)

\* Two operands and their result; only the flags of an immediate can differ, in C and V.
LEMMA ImmediatesAgree ==
  ASSUME NEW a, IsState(a), NEW i, HasOperation(i), IsDecoded(i), i.fmt = "DPImm",
         i.rn # 31, i.rd # 31 \/ i.setFlags
  PROVE  \E r, x, y, z :
           /\ Execute(a, i) =
                Put(a, Plus(a.pc, 4), Wrote(a.regs, i.rd, r), a.sp,
                    IF i.setFlags THEN ArithFlags(i, x, y, r, Size(i)) ELSE a.fl, a.mem)
           /\ ThroughStages(a, i) =
                Put(a, Plus(a.pc, 4), Wrote(a.regs, i.rd, r), a.sp,
                    IF i.setFlags THEN ArithFlags(i, x, z, r, Size(i)) ELSE a.fl, a.mem)
<1> DEFINE n == Size(i)
           x == Low(ReadReg(a, i.rn), n)
           y == Low(Shl(i.imm, i.shift, 64), n)
           z == Low(ShiftedRm(a, i), n)
           r == AddOrSub(i, x, y, n)
<1>1. i.op \in {"ADD", "SUB"} /\ i.index = "none" /\ i.rm # NoRegister
  BY DEF IsDecoded, NoRegister
<1>2. Execute(a, i) = Skip(ExecuteDPImm(a, i))
  BY <1>1 DEF Execute
<1>3. ExecuteDPImm(a, i) = IF i.setFlags THEN Flagged(WriteReg(a, i.rd, r), i, ArithFlags(i, x, y, r, n))
                           ELSE WriteRegOrSP(a, i.rd, r)
  BY DEF ExecuteDPImm, ReadReg, ReadRegOrSP
<1>4. StageALU(a, i) = r
  <2>1. StageArith(a, i) = r
    BY DEF StageArith
  <2>2. StageALU(a, i) = StageArith(a, i)
    BY <1>1 DEF StageALU, Links
  <2>3. QED
    BY <2>1, <2>2
<1>5. StagePC(a, i) = Plus(a.pc, 4)
  BY <1>1 DEF StagePC
<1>6. ComputeFlags(a, i, r) = IF i.setFlags THEN ArithFlags(i, x, z, r, n) ELSE a.fl
  BY <1>1 DEF ComputeFlags
<1>7. Writes(i) /\ ~IsLoadOp(i) /\ ~IsStoreOp(i) /\ ~Links(i) /\ i.op # "SVC"
  BY <1>1 DEF Writes, IsLoadOp, IsStoreOp, Links
<1> HIDE DEF n, x, y, z, r
<1>8. ThroughStages(a, i) =
        Put(a, Plus(a.pc, 4), Wrote(a.regs, i.rd, r), a.sp,
            IF i.setFlags THEN ArithFlags(i, x, z, r, n) ELSE a.fl, a.mem)
  BY <1>1, <1>4, <1>5, <1>6, <1>7, StagesCompute
<1>9. Execute(a, i) =
        Put(a, Plus(a.pc, 4), Wrote(a.regs, i.rd, r), a.sp,
            IF i.setFlags THEN ArithFlags(i, x, y, r, n) ELSE a.fl, a.mem)
  <2> DEFINE f == ArithFlags(i, x, y, r, n)
  <2> HIDE DEF f
  <2>1. CASE i.setFlags
    <3>1. Execute(a, i) = Skip(Flagged(WriteReg(a, i.rd, r), i, f))
      BY <1>2, <1>3, <2>1 DEF f
    <3>2. Execute(a, i) = Put(a, Plus(a.pc, 4), Wrote(a.regs, i.rd, r), a.sp, f, a.mem)
      BY <2>1, <3>1, EmulatorComputes
    <3>3. QED
      BY <2>1, <3>2 DEF f
  <2>2. CASE ~i.setFlags
    <3>1. Execute(a, i) = Skip(WriteRegOrSP(a, i.rd, r)) /\ i.rd # 31
      BY <1>2, <1>3, <2>2
    <3>2. Execute(a, i) = Put(a, Plus(a.pc, 4), Wrote(a.regs, i.rd, r), a.sp, a.fl, a.mem)
      BY <3>1, EmulatorComputes
    <3>3. QED
      BY <2>2, <3>2
  <2>3. QED
    BY <2>1, <2>2
<1>10. QED
  BY <1>8, <1>9 DEF n

LEMMA RegistersAgree ==
  ASSUME NEW a, IsState(a), NEW i, HasForm(i), HasOperation(i), IsDecoded(i), i.fmt = "DPReg",
         ~(i.setFlags /\ i.op \in {"AND", "BIC"})
  PROVE  ThroughStages(a, i) = Execute(a, i)
<1> DEFINE n == Size(i)
           x == Low(ReadReg(a, i.rn), n)
           m == Low(ReadReg(a, i.rm), n)
           y == ApplyShift(m, i.shiftType, i.shiftAmount, n)
           arith == i.op \in {"ADD", "SUB"}
           r == IF arith THEN AddOrSub(i, x, y, n) ELSE Logic(i.op, x, y, n)
           f == IF arith THEN ArithFlags(i, x, y, r, n) ELSE SetLogicFlags(r, n)
<1>1. /\ i.op \in {"ADD", "SUB", "AND", "BIC", "ORR", "ORN", "EOR", "EON"} /\ i.index = "none"
      /\ i.rm # NoRegister
      /\ i.setFlags => arith
  BY DEF IsDecoded, HasOperation, NoRegister
<1>2. Low(ShiftedRm(a, i), n) = y
  <2>1. i.shiftType \in 0 .. 3 /\ i.shiftAmount \in Nat /\ n \in {32, 64} /\ m \in SUBSET Ones(n)
    BY DEF HasForm, Size, Low
  <2>2. \A X \in SUBSET Ones(n), type \in 0 .. 3, k \in Nat : ApplyShift(X, type, k, n) \in SUBSET Ones(n)
    BY <2>1, ApplyShiftStays
  <2>3. y \in SUBSET Ones(n)
    BY <2>1, <2>2, Zenon
  <2>4. CASE i.shiftAmount > 0
    <3>1. ShiftedRm(a, i) = y
      BY <2>4 DEF ShiftedRm
    <3> HIDE DEF y
    <3>2. QED
      BY <3>1, <2>3 DEF Low
  <2>5. CASE i.shiftAmount = 0
    <3>1. y = m
      BY <2>5 DEF ApplyShift
    <3>2. ShiftedRm(a, i) = ReadReg(a, i.rm)
      BY <2>5 DEF ShiftedRm
    <3>3. QED
      BY <3>1, <3>2
  <2>6. QED
    BY <2>1, <2>4, <2>5
<1>3. Execute(a, i) = Skip(ExecuteDPReg(a, i))
  BY <1>1 DEF Execute
<1>4. ExecuteDPReg(a, i) = Flagged(WriteReg(a, i.rd, r), i, f)
  BY DEF ExecuteDPReg
<1>5. StageALU(a, i) = r
  <2> HIDE DEF n, y
  <2>1. StageArith(a, i) = AddOrSub(i, x, y, n)
    BY <1>2 DEF StageArith, n, ShiftedRm
  <2>2. StageLogic(a, i) = Logic(i.op, x, y, n)
    BY <1>2 DEF StageLogic, n
  <2>3. StageALU(a, i) = IF arith THEN StageArith(a, i) ELSE StageLogic(a, i)
    BY <1>1 DEF StageALU, Links
  <2>4. QED
    BY <2>1, <2>2, <2>3
<1>6. StagePC(a, i) = Plus(a.pc, 4)
  BY <1>1 DEF StagePC
<1>7. ComputeFlags(a, i, r) = IF i.setFlags THEN f ELSE a.fl
  <2> HIDE DEF y, r
  <2>1. ComputeFlags(a, i, r) = IF i.setFlags /\ arith THEN ArithFlags(i, x, y, r, n) ELSE a.fl
    BY <1>2 DEF ComputeFlags
  <2>2. arith => f = ArithFlags(i, x, y, r, n)
    OBVIOUS
  <2> HIDE DEF arith, f, x, n
  <2>3. QED
    BY <1>1, <2>1, <2>2
<1>8. Writes(i) /\ ~IsLoadOp(i) /\ ~IsStoreOp(i) /\ ~Links(i) /\ i.op # "SVC"
  BY <1>1 DEF Writes, IsLoadOp, IsStoreOp, Links
<1> HIDE DEF n, x, m, y, arith, r, f
<1>9. ThroughStages(a, i) =
        Put(a, Plus(a.pc, 4), Wrote(a.regs, i.rd, r), a.sp, IF i.setFlags THEN f ELSE a.fl, a.mem)
  <2>1. ThroughStages(a, i) =
           Put(a, StagePC(a, i), IF Writes(i) THEN Wrote(a.regs, i.rd, StageALU(a, i)) ELSE a.regs,
               a.sp, ComputeFlags(a, i, StageALU(a, i)), a.mem)
    BY <1>1, <1>8, StagesCompute
  <2>2. QED
    BY <1>5, <1>6, <1>7, <1>8, <2>1
<1>10. Skip(Flagged(WriteReg(a, i.rd, r), i, f)) =
         Put(a, Plus(a.pc, 4), Wrote(a.regs, i.rd, r), a.sp, IF i.setFlags THEN f ELSE a.fl, a.mem)
  BY EmulatorComputes
<1>11. QED
  BY <1>3, <1>4, <1>9, <1>10

\* One register is computed, without flags, and the next instruction follows.
LEMMA ResultsAgree ==
  ASSUME NEW a, IsState(a), NEW i, IsDecoded(i), Writes(i), i.op \notin {"ADD", "SUB"},
         i.fmt \notin {"CondCmp", "LoadStore", "LoadStorePair"},
         Execute(a, i) = Skip(WriteReg(a, i.rd, StageALU(a, i)))
  PROVE  ThroughStages(a, i) = Execute(a, i)
<1>1. i.index = "none" /\ i.rm # NoRegister
  BY DEF IsDecoded
<1>2. ~IsLoadOp(i) /\ ~IsStoreOp(i) /\ ~Links(i) /\ i.op # "SVC"
  BY DEF Writes, IsLoadOp, IsStoreOp, Links
<1>3. StagePC(a, i) = Plus(a.pc, 4) /\ ComputeFlags(a, i, StageALU(a, i)) = a.fl
  BY DEF Writes, StagePC, ComputeFlags
<1>4. ThroughStages(a, i) = Put(a, Plus(a.pc, 4), Wrote(a.regs, i.rd, StageALU(a, i)), a.sp, a.fl, a.mem)
  BY <1>1, <1>2, <1>3, StagesCompute
<1>5. QED
  BY <1>4, EmulatorComputes

LEMMA MovesAgree ==
  ASSUME NEW a, IsState(a), NEW i, HasOperation(i), IsDecoded(i), i.fmt = "MoveWide", i.op # "Unknown",
         i.op = "MOVK" => ReadReg(a, i.rd) = ReadReg(a, i.rn)
  PROVE  ThroughStages(a, i) = Execute(a, i)
<1>1. i.op \in {"MOVN", "MOVZ", "MOVK"}
  BY DEF HasOperation
<1>2. Execute(a, i) = Skip(ExecuteMoveWide(a, i))
  BY <1>1 DEF Execute
<1>3. ExecuteMoveWide(a, i) = WriteReg(a, i.rd, StageMove(a, i))
  BY <1>1 DEF ExecuteMoveWide, StageMove
<1>4. StageALU(a, i) = StageMove(a, i)
  BY <1>1 DEF StageALU, Links
<1>5. Writes(i)
  BY <1>1 DEF Writes
<1>6. QED
  BY <1>1, <1>2, <1>3, <1>4, <1>5, ResultsAgree

LEMMA AddressesAgree ==
  ASSUME NEW a, IsState(a), NEW i, IsDecoded(i), i.fmt = "PCRel"
  PROVE  ThroughStages(a, i) = Execute(a, i)
<1>1. i.op \in {"ADR", "ADRP"}
  BY DEF IsDecoded
<1>2. Execute(a, i) = Skip(ExecutePCRel(a, i))
  BY <1>1 DEF Execute
<1>3. ExecutePCRel(a, i) = WriteReg(a, i.rd, StageALU(a, i))
  <2>1. i.op = "ADR" => StageALU(a, i) = Add(a.pc, i.offset, 64)
    BY DEF StageALU, Links
  <2>2. i.op = "ADRP" => StageALU(a, i) = Add(a.pc \ Ones(12), i.offset, 64)
    BY DEF StageALU, Links
  <2>3. QED
    BY <1>1, <2>1, <2>2 DEF ExecutePCRel
<1>4. Writes(i)
  BY <1>1 DEF Writes
<1>5. QED
  BY <1>1, <1>2, <1>3, <1>4, ResultsAgree

LEMMA ProductsAgree ==
  ASSUME NEW a, IsState(a), NEW i, IsDecoded(i), i.fmt = "DataProc3Src",
         i.rt2 = 31 => ReadReg(a, i.rm) = {}
  PROVE  ThroughStages(a, i) = Execute(a, i)
<1>1. i.op \in {"MADD", "MSUB"}
  BY DEF IsDecoded
<1>2. Execute(a, i) = Skip(ExecuteDataProc3Src(a, i))
  BY <1>1 DEF Execute
<1>3. ReadReg(a, IF i.rt2 = 31 THEN i.rm ELSE i.rt2) = ReadReg(a, i.rt2)
  BY DEF ReadReg
<1>4. ExecuteDataProc3Src(a, i) = WriteReg(a, i.rd, StageMultiply(a, i))
  BY <1>3 DEF ExecuteDataProc3Src, StageMultiply
<1>5. StageALU(a, i) = StageMultiply(a, i)
  BY <1>1 DEF StageALU, Links
<1>6. Writes(i)
  BY <1>1 DEF Writes
<1>7. QED
  BY <1>1, <1>2, <1>4, <1>5, <1>6, ResultsAgree

\* A six-bit field is a number below 64, and below 32 without its top bit.
LEMMA SixBits ==
  ASSUME NEW x \in SUBSET (0 .. 5)
  PROVE  Num(x) \in 0 .. 63 /\ (5 \notin x => Num(x) \in 0 .. 31)
<1>1. x \in SUBSET Bits16
  BY DEF Bits16
<1>2. Num(x) = Value(x)
  BY <1>1, NumIsValue
<1>3. /\ 6 \notin x /\ 7 \notin x /\ 8 \notin x /\ 9 \notin x /\ 10 \notin x
      /\ 11 \notin x /\ 12 \notin x /\ 13 \notin x /\ 14 \notin x /\ 15 \notin x
  OBVIOUS
<1>4. Value(x) \in 0 .. 63
  BY <1>3 DEF Value, Part
<1>5. 5 \notin x => Value(x) \in 0 .. 31
  BY <1>3 DEF Value, Part
<1>6. QED
  BY <1>2, <1>4, <1>5

\* Where the field is within the word, or is not moved, the bits a rotation brings back from
\* below it are above the field.
LEMMA FieldsRotate ==
  ASSUME NEW n \in {32, 64}, NEW x \in SUBSET Ones(n), NEW lo \in Nat, NEW hi \in Nat,
         hi >= lo, hi < n \/ lo = 0
  PROVE  Low(Ror(x, lo, n), hi - lo + 1) = Slice(x, hi, lo)
<1>1. n - lo >= 0 \/ lo = 0
  OBVIOUS
<1>2. \A k : k \in Shr(x, lo) <=> k \in Nat /\ k + lo \in x
  <2>1. ASSUME NEW k \in Shr(x, lo) PROVE k \in Nat /\ k + lo \in x
    <3>1. PICK c \in x : c >= lo /\ k = c - lo
      BY DEF Shr
    <3>2. c \in Nat
      BY <3>1 DEF Ones
    <3>3. k \in Nat /\ k + lo = c
      BY <3>1, <3>2
    <3>4. QED
      BY <3>1, <3>3
  <2>2. ASSUME NEW k \in Nat, k + lo \in x PROVE k \in Shr(x, lo)
    <3>1. k + lo >= lo /\ k = (k + lo) - lo
      OBVIOUS
    <3>2. QED
      BY <2>2, <3>1 DEF Shr
  <2>3. QED
    BY <2>1, <2>2
<1>3. ASSUME NEW k \in Shl(x, n - lo, n) PROVE k \notin Ones(hi - lo + 1)
  <2>1. n - lo >= 0
    BY <1>1
  <2>2. PICK b \in x : k = b + (n - lo) /\ k \in Ones(n)
    BY <1>3, <2>1 DEF Shl, Low
  <2>3. b \in Nat /\ k \in 0 .. n - 1
    BY <2>2 DEF Ones
  <2>4. QED
    BY <2>2, <2>3 DEF Ones
<1>4. \A k : k \in Slice(x, hi, lo) <=> k \in 0 .. hi - lo /\ k + lo \in x
  BY SliceBits
<1>5. \A k : k \in Ones(hi - lo + 1) <=> k \in 0 .. hi - lo
  BY DEF Ones
<1>6. \A k : k \in 0 .. hi - lo => k \in Nat
  OBVIOUS
<1>7. \A k : k \in Low(Ror(x, lo, n), hi - lo + 1) <=>
             (k \in Shr(x, lo) \/ k \in Shl(x, n - lo, n)) /\ k \in Ones(hi - lo + 1)
  BY Zenon DEF Low, Ror
<1>8. \A k : k \in Low(Ror(x, lo, n), hi - lo + 1) <=> k \in Slice(x, hi, lo)
  BY <1>2, <1>3, <1>4, <1>5, <1>6, <1>7, Zenon
<1>9. QED
  BY <1>8

\* Such a field is what the emulator shifts down, and moving it up by 0 changes nothing.
LEMMA FieldsAgree ==
  ASSUME NEW a, IsState(a), NEW i, HasOperation(i), IsDecoded(i), i.fmt = "Bitfield",
         i.op \notin {"BFM", "Unknown"}, Extracts(i), ~(Narrow(i) /\ 5 \in i.imm2 /\ i.imm # {})
  PROVE  ThroughStages(a, i) = Execute(a, i)
<1> DEFINE n == Size(i)
           x == Low(ReadReg(a, i.rn), n)
           field == SourceField(i, x)
           signed == SignExtend(field, FieldWidth(i), n)
<1>1. i.op \in {"UBFM", "SBFM"}
  BY DEF HasOperation
<1>2. n \in {32, 64} /\ Num(i.imm) \in Nat /\ Num(i.imm2) \in Nat
  BY SixBits DEF Size, IsDecoded
<1>3. FieldShift(i) = 0 /\ FieldWidth(i) \in Nat
  BY <1>2 DEF FieldShift, FieldWidth, Extracts
<1>4. field \in SUBSET Ones(n) /\ \A k \in field : k \in Ones(FieldWidth(i))
  <2> DEFINE hi == Num(i.imm2)   lo == Num(i.imm)
  <2>1. field = Slice(x, hi, lo) /\ FieldWidth(i) = hi - lo + 1
    BY DEF SourceField, FieldWidth
  <2>2. \A k : k \in field => k \in 0 .. hi - lo /\ k + lo \in x
    BY <1>2, <2>1, SliceBits
  <2>3. \A k : k \in x => k \in 0 .. n - 1
    BY DEF Low, Ones
  <2> HIDE DEF field, hi, lo, x
  <2>4. hi \in Nat /\ lo \in Nat
    BY <1>2 DEF hi, lo
  <2>5. ASSUME NEW k \in field PROVE k \in Ones(n)
    <3>1. k \in Int /\ k >= 0 /\ k + lo <= n - 1
      BY <1>2, <2>2, <2>3, <2>4
    <3>2. QED
      BY <1>2, <2>4, <3>1 DEF Ones
  <2>6. ASSUME NEW k \in field PROVE k \in Ones(FieldWidth(i))
    BY <2>1, <2>2, <2>4 DEF Ones
  <2>7. QED
    BY <2>5, <2>6
<1>5. Low(Ror(x, Num(i.imm), n), FieldWidth(i)) = field
  <2> DEFINE hi == Num(i.imm2)   lo == Num(i.imm)
  <2>1. Num({}) = 0
    <3>1. Num({}) = Value({})
      BY NumIsValue
    <3>2. QED
      BY <3>1 DEF Value, Part
  <2>2. hi \in 0 .. 63 /\ (5 \notin i.imm2 => hi \in 0 .. 31)
    BY SixBits DEF IsDecoded
  <2>3. i.is64 => n = 64
    BY DEF Size
  <2>4. field = Slice(x, hi, lo) /\ FieldWidth(i) = hi - lo + 1
    BY DEF SourceField, FieldWidth
  <2>5. hi \in Nat /\ lo \in Nat /\ hi >= lo /\ x \in SUBSET Ones(n)
    BY <1>2 DEF Extracts, Low
  <2>6. i.imm = {} => lo = 0
    BY <2>1
  <2> HIDE DEF hi, lo, x, n, field
  <2>7. hi < n \/ lo = 0
    BY <1>2, <2>2, <2>3, <2>6 DEF Narrow
  <2>8. Low(Ror(x, lo, n), hi - lo + 1) = Slice(x, hi, lo)
    BY <1>2, <2>5, <2>7, FieldsRotate
  <2>9. QED
    BY <2>4, <2>8 DEF lo
<1> HIDE DEF n, x, field
<1>6. signed \in SUBSET Ones(n)
  BY <1>2, <1>3, <1>4 DEF SignExtend, Low, Ones
<1>7. ASSUME NEW s \in SUBSET Ones(n) PROVE Shl(s, 0, n) = s
  <2>1. {b + 0 : b \in s} = s
    <3>1. \A b \in s : b + 0 = b
      BY <1>2, <1>7 DEF Ones
    <3>2. QED
      BY <3>1, Zenon
  <2>2. QED
    BY <2>1, <1>7 DEF Shl, Low
<1> HIDE DEF signed
<1>8. Execute(a, i) = Skip(ExecuteBitfield(a, i))
  BY <1>1 DEF Execute
<1>9. StageBitfield(a, i) = IF i.op = "SBFM" THEN signed ELSE field
  <2>1. FieldWidth(i) - 1 \notin field => signed = field
    BY <1>4 DEF signed, SignExtend, Low
  <2>2. StageBitfield(a, i) =
          IF i.op = "SBFM" /\ FieldWidth(i) - 1 \in field THEN signed ELSE field
    BY <1>5 DEF StageBitfield, n, x, signed
  <2>3. QED
    BY <2>1, <2>2
<1>10. ExecuteBitfield(a, i) = WriteReg(a, i.rd, IF i.op = "UBFM" THEN Shl(field, 0, n) ELSE Shl(signed, 0, n))
  BY <1>1, <1>3 DEF ExecuteBitfield, n, x, field, signed
<1>11. ExecuteBitfield(a, i) = WriteReg(a, i.rd, StageBitfield(a, i))
  BY <1>1, <1>4, <1>6, <1>7, <1>9, <1>10
<1>12. StageALU(a, i) = StageBitfield(a, i)
  BY <1>1 DEF StageALU, Links
<1>13. Writes(i)
  BY <1>1 DEF Writes
<1>14. QED
  BY <1>1, <1>8, <1>11, <1>12, <1>13, ResultsAgree

---------------------------------------------------------------------------
\* An instruction that only moves the PC, and one that links.
LEMMA StagesMove ==
  ASSUME NEW a, IsState(a), NEW i, IsDecoded(i), i.fmt \notin {"CondCmp", "LoadStore", "LoadStorePair"},
         i.op # "SVC", ~Writes(i), ~IsLoadOp(i), ~IsStoreOp(i)
  PROVE  ThroughStages(a, i) =
           WithPC(IF Links(i) THEN Link(a) ELSE a, StagePC(a, i))
<1> DEFINE pc == StagePC(a, i)
           b == Put(a, pc, a.regs, a.sp, a.fl, a.mem)
<1>1. i.index = "none" /\ i.rm # NoRegister
  BY DEF IsDecoded
<1>2. ComputeFlags(a, i, StageALU(a, i)) = a.fl
  BY DEF ComputeFlags, Writes
<1>3. a = Put(a, a.pc, a.regs, a.sp, a.fl, a.mem)
  BY WholeState
<1>4. WithPC(a, pc) = b
  <2> HIDE DEF pc
  <2>1. WithPC(Put(a, a.pc, a.regs, a.sp, a.fl, a.mem), pc) = b
    BY PutChanges
  <2>2. QED
    BY <1>3, <2>1, Zenon
<1>5. CASE ~Links(i)
  <2>1. ThroughStages(a, i) = b
    BY <1>1, <1>2, <1>5, StagesCompute
  <2>2. QED
    BY <1>4, <1>5, <2>1
<1>6. CASE Links(i)
  <2> DEFINE alu == StageALU(a, i)
  <2>1. alu = Plus(a.pc, 4)
    BY <1>6 DEF StageALU, Links
  <2>2. ThroughStages(a, i) = WriteBack(a, b, i, alu)
    BY <1>1, <1>2, StagesExecute DEF Stored
  <2> HIDE DEF alu, b, pc
  <2>3. PerformBaseWriteback(b, i, alu) = b
    BY <1>1 DEF PerformBaseWriteback
  <2>4. IsRegWriteInst(i) /\ i.op # "LDP"
    BY <1>6 DEF IsRegWriteInst, IsLoadOp
  <2>5. WriteBack(a, b, i, alu) = WriteReg(b, 30, alu)
    BY <1>6, <2>3, <2>4 DEF WriteBack
  <2>6. WriteReg(b, 30, alu) = Put(a, pc, Wrote(a.regs, 30, alu), a.sp, a.fl, a.mem)
    BY PutWrites DEF b
  <2>7. Link(a) = Put(a, a.pc, Wrote(a.regs, 30, alu), a.sp, a.fl, a.mem)
    <3>1. WriteReg(Put(a, a.pc, a.regs, a.sp, a.fl, a.mem), 30, alu) =
            Put(a, a.pc, Wrote(a.regs, 30, alu), a.sp, a.fl, a.mem)
      BY PutWrites
    <3>2. Link(a) = WriteReg(a, 30, alu)
      BY <2>1 DEF Link
    <3>3. QED
      BY <1>3, <3>1, <3>2, Zenon
  <2>8. WithPC(Link(a), pc) = Put(a, pc, Wrote(a.regs, 30, alu), a.sp, a.fl, a.mem)
    <3> DEFINE regs == Wrote(a.regs, 30, alu)
    <3> HIDE DEF regs
    <3>1. WithPC(Put(a, a.pc, regs, a.sp, a.fl, a.mem), pc) = Put(a, pc, regs, a.sp, a.fl, a.mem)
      BY PutChanges
    <3>2. QED
      BY <2>7, <3>1 DEF regs
  <2>9. QED
    BY <1>6, <2>2, <2>5, <2>6, <2>8 DEF pc
<1>7. QED
  BY <1>5, <1>6

LEMMA BranchesAgree ==
  ASSUME NEW a, IsState(a), NEW i, IsDecoded(i), i.op # "Unknown",
         i.fmt \in {"Branch", "BranchCond", "BranchReg", "TestBranch", "CompareBranch"},
         i.fmt \in {"TestBranch", "CompareBranch"} => Execute(a, i).pc = Plus(a.pc, 4)
  PROVE  ThroughStages(a, i) = Execute(a, i)
<1>1. i.op \in {"B", "BL", "BCond", "BR", "BLR", "RET", "TBZ", "TBNZ", "CBZ", "CBNZ"}
  BY DEF IsDecoded
<1>2. ~Writes(i) /\ ~IsLoadOp(i) /\ ~IsStoreOp(i) /\ i.op # "SVC"
  BY <1>1 DEF Writes, IsLoadOp, IsStoreOp
<1>3. ThroughStages(a, i) = WithPC(IF Links(i) THEN Link(a) ELSE a, StagePC(a, i))
  BY <1>2, StagesMove
<1>4. Skip(a) = WithPC(a, Plus(a.pc, 4))
  BY DEF Skip, WithPC
<1>5. \A b : Jump(b, i) = WithPC(b, Add(b.pc, i.offset, 64))
  BY DEF Jump, WithPC
<1>6. Link(a).pc = a.pc
  BY DEF IsState, Link, WriteReg
<1>7. CASE i.fmt = "Branch"
  <2>1. i.op \in {"B", "BL"}
    BY <1>7 DEF IsDecoded
  <2>2. Execute(a, i) = Jump(IF i.op = "BL" THEN Link(a) ELSE a, i)
    BY <1>7, <2>1 DEF Execute, ExecuteBranch
  <2>3. StagePC(a, i) = Add(a.pc, i.offset, 64) /\ (Links(i) <=> i.op = "BL")
    BY <2>1 DEF StagePC, Links
  <2>4. QED
    BY <1>3, <1>5, <1>6, <2>2, <2>3
<1>8. CASE i.fmt = "BranchCond"
  <2>1. i.op = "BCond"
    BY <1>8 DEF IsDecoded
  <2>2. Execute(a, i) = IF CheckCondition(a.fl, i.cond) THEN Jump(a, i) ELSE Skip(a)
    BY <1>8, <2>1 DEF Execute, ExecuteBranchCond
  <2>3. StagePC(a, i) = IF CheckCondition(a.fl, i.cond) THEN Add(a.pc, i.offset, 64) ELSE Plus(a.pc, 4)
    BY <2>1 DEF StagePC
  <2>4. ~Links(i)
    BY <2>1 DEF Links
  <2>5. QED
    BY <1>3, <1>4, <1>5, <2>2, <2>3, <2>4
<1>9. CASE i.fmt = "BranchReg"
  <2>1. i.op \in {"BR", "BLR", "RET"}
    BY <1>9 DEF IsDecoded
  <2>2. Execute(a, i) = WithPC(IF i.op = "BLR" THEN Link(a) ELSE a, ReadReg(a, i.rn))
    BY <1>9, <2>1 DEF Execute, ExecuteBranchReg, WithPC
  <2>3. StagePC(a, i) = ReadReg(a, i.rn) /\ (Links(i) <=> i.op = "BLR")
    BY <2>1 DEF StagePC, Links
  <2>4. QED
    BY <1>3, <2>2, <2>3
<1>10. CASE i.fmt \in {"TestBranch", "CompareBranch"}
  <2>1. i.op \in {"TBZ", "TBNZ", "CBZ", "CBNZ"}
    BY <1>10 DEF IsDecoded
  <2>2. Execute(a, i) \in {Jump(a, i), Skip(a)}
    BY <1>10, <2>1 DEF Execute, ExecuteTestBranch, ExecuteCompareBranch
  <2>3. \A u : WithPC(a, u).pc = u
    BY DEF IsState, WithPC
  <2>4. Execute(a, i) = WithPC(a, Plus(a.pc, 4))
    BY <1>4, <1>5, <1>10, <2>2, <2>3
  <2>5. StagePC(a, i) = Plus(a.pc, 4) /\ ~Links(i)
    BY <2>1 DEF StagePC, Links
  <2>6. QED
    BY <1>3, <2>4, <2>5
<1>11. QED
  BY <1>7, <1>8, <1>9, <1>10

LEMMA OthersAgree ==
  ASSUME NEW a, IsState(a), NEW i, HasOperation(i), IsDecoded(i), i.op \in {"NOP", "SVC"}
  PROVE  ThroughStages(a, i) = Execute(a, i)
<1> i.fmt \notin Formats
  BY DEF HasOperation
<1> USE DEF Formats
<1>1. i.index = "none" /\ i.rm # NoRegister /\ ~Links(i)
  BY DEF IsDecoded, Links
<1>2. ~Writes(i) /\ ~IsLoadOp(i) /\ ~IsStoreOp(i)
  BY DEF Writes, IsLoadOp, IsStoreOp
<1>3. StagePC(a, i) = Plus(a.pc, 4)
  BY DEF StagePC
<1>4. Skip(a) = WithPC(a, Plus(a.pc, 4))
  BY DEF Skip, WithPC
<1>5. CASE i.op = "NOP"
  <2>1. ThroughStages(a, i) = Skip(a)
    BY <1>1, <1>2, <1>3, <1>4, <1>5, StagesMove
  <2>2. Execute(a, i) = Skip(a)
    BY <1>5 DEF Execute
  <2>3. QED
    BY <2>1, <2>2
<1>6. CASE i.op = "SVC"
  <2> DEFINE fl == ComputeFlags(a, i, StageALU(a, i))
             mem == Stored(a, i, StageALU(a, i))
             b == [a EXCEPT !.fl = fl, !.mem = mem, !.pc = StagePC(a, i)]
  <2>1. ThroughStages(a, i) = Handle(b)
    BY <1>1, <1>6 DEF ThroughStages
  <2>2. fl = a.fl /\ mem = a.mem
    BY <1>2, <1>6 DEF ComputeFlags, Stored
  <2>3. b = Put(a, Plus(a.pc, 4), a.regs, a.sp, a.fl, a.mem)
    <3> HIDE DEF fl, mem
    <3>1. [a EXCEPT !.fl = a.fl, !.mem = a.mem, !.pc = Plus(a.pc, 4)]
             = Put(a, Plus(a.pc, 4), a.regs, a.sp, a.fl, a.mem)
      BY DEF IsState, Put
    <3>2. QED
      BY <1>3, <2>2, <3>1
  <2>4. Skip(a) = Put(a, Plus(a.pc, 4), a.regs, a.sp, a.fl, a.mem)
    <3>1. Skip(Put(a, a.pc, a.regs, a.sp, a.fl, a.mem)) = Put(a, Plus(a.pc, 4), a.regs, a.sp, a.fl, a.mem)
      BY PutWrites
    <3>2. QED
      BY <3>1, WholeState, Zenon
  <2> HIDE DEF b
  <2>5. Execute(a, i) = Handle(Skip(a))
    BY <1>6 DEF Execute
  <2>6. QED
    BY <2>1, <2>3, <2>4, <2>5
<1>7. QED
  BY <1>5, <1>6

---------------------------------------------------------------------------
(* Loads and stores: the base is written before the destination in the       *)
(* stages and after it in the emulator.                                      *)

BaseValue(a, i) == Add(ReadRegOrSP(a, i.rn), i.signedImm, 64)
BaseRegs(regs, i, u) == IF Indexed(i) THEN Wrote(regs, i.rn, u) ELSE regs
BaseSP(sp, i, u) == IF Indexed(i) THEN WroteSP(sp, i.rn, u) ELSE sp

LEMMA SameAddress ==
  ASSUME NEW a, NEW i, IsDecoded(i), i.fmt \in {"LoadStore", "LoadStorePair"}, i.index # "regBase"
  PROVE  StageAddress(a, i) = Address(a, i)
<1>1. CASE i.fmt = "LoadStore"
  <2>1. i.index \in {"none", "pre", "post"}
    BY <1>1 DEF IsDecoded
  <2>2. QED
    BY <1>1, <2>1 DEF StageAddress, Address
<1>2. CASE i.fmt = "LoadStorePair"
  <2>1. i.index \in {"signed", "pre", "post"}
    BY <1>2 DEF IsDecoded
  <2>2. QED
    BY <1>2, <2>1 DEF StageAddress, Address
<1>3. QED
  BY <1>1, <1>2

LEMMA EmulatorWritesBase ==
  ASSUME NEW a, IsState(a), NEW i, NEW pc, NEW regs, NEW sp, NEW fl, NEW mem
  PROVE  BaseWriteback(a, Put(a, pc, regs, sp, fl, mem), i) =
           Put(a, pc, BaseRegs(regs, i, BaseValue(a, i)), BaseSP(sp, i, BaseValue(a, i)), fl, mem)
<1> DEFINE u == BaseValue(a, i)
           s == Put(a, pc, regs, sp, fl, mem)
<1>1. BaseWriteback(a, s, i) = IF Indexed(i) THEN WriteRegOrSP(s, i.rn, u) ELSE s
  BY DEF BaseWriteback, Indexed, BaseValue
<1> HIDE DEF u
<1>2. WriteRegOrSP(s, i.rn, u) = Put(a, pc, Wrote(regs, i.rn, u), WroteSP(sp, i.rn, u), fl, mem)
  BY PutWrites
<1>3. CASE Indexed(i)
  BY <1>1, <1>2, <1>3 DEF BaseRegs, BaseSP, u
<1>4. CASE ~Indexed(i)
  BY <1>1, <1>4 DEF BaseRegs, BaseSP, u
<1>5. QED
  BY <1>3, <1>4

LEMMA StagesWriteBase ==
  ASSUME NEW a, IsState(a), NEW i, IsDecoded(i), i.fmt \in {"LoadStore", "LoadStorePair"},
         NEW pc, NEW regs, NEW sp, NEW fl, NEW mem
  PROVE  PerformBaseWriteback(Put(a, pc, regs, sp, fl, mem), i, StageAddress(a, i)) =
           Put(a, pc, BaseRegs(regs, i, BaseValue(a, i)), BaseSP(sp, i, BaseValue(a, i)), fl, mem)
<1> DEFINE u == BaseValue(a, i)
           s == Put(a, pc, regs, sp, fl, mem)
<1>1. PerformBaseWriteback(s, i, StageAddress(a, i)) = IF Indexed(i) THEN WriteRegOrSP(s, i.rn, u) ELSE s
  <2> HIDE DEF s
  <2>1. CASE i.index = "pre"
    <3>1. StageAddress(a, i) = u
      BY <2>1 DEF StageAddress, BaseValue
    <3> HIDE DEF u
    <3>2. QED
      BY <2>1, <3>1 DEF PerformBaseWriteback, Indexed
  <2>2. CASE i.index = "post"
    <3>1. Add(StageAddress(a, i), i.signedImm, 64) = u
      BY <2>2 DEF StageAddress, BaseValue
    <3> HIDE DEF u
    <3>2. QED
      BY <2>2, <3>1 DEF PerformBaseWriteback, Indexed
  <2>3. CASE i.index \notin {"pre", "post"}
    BY <2>3 DEF PerformBaseWriteback, Indexed
  <2>4. QED
    BY <2>1, <2>2, <2>3
<1> HIDE DEF u
<1>2. WriteRegOrSP(s, i.rn, u) = Put(a, pc, Wrote(regs, i.rn, u), WroteSP(sp, i.rn, u), fl, mem)
  BY PutWrites
<1>3. CASE Indexed(i)
  BY <1>1, <1>2, <1>3 DEF BaseRegs, BaseSP, u
<1>4. CASE ~Indexed(i)
  BY <1>1, <1>4 DEF BaseRegs, BaseSP, u
<1>5. QED
  BY <1>3, <1>4

\* The order does not matter for another register than the base.
LEMMA BaseCommutes ==
  ASSUME NEW regs, IsRegFile(regs), NEW i, NEW u, NEW r, NEW v, Indexed(i) => r # i.rn \/ i.rn = 31
  PROVE  Wrote(BaseRegs(regs, i, u), r, v) = BaseRegs(Wrote(regs, r, v), i, u)
<1>1. CASE ~Indexed(i)
  BY <1>1 DEF BaseRegs
<1>2. CASE Indexed(i) /\ i.rn = 31
  BY <1>2 DEF BaseRegs, Wrote
<1>3. CASE Indexed(i) /\ r # i.rn
  BY <1>3, WritesCommute DEF BaseRegs
<1>4. QED
  BY <1>1, <1>2, <1>3

LEMMA StagesAccess ==
  ASSUME NEW a, IsState(a), NEW i, IsDecoded(i), i.fmt \in {"LoadStore", "LoadStorePair"},
         i.op \in {"LDR", "STR", "LDP", "STP"}, i.index # "regBase"
  PROVE  ThroughStages(a, i) =
           WriteBack(a, Put(a, Plus(a.pc, 4), a.regs, a.sp, a.fl, Stored(a, i, Address(a, i))), i, Address(a, i))
<1>1. i.rm # NoRegister /\ i.op # "SVC"
  BY DEF IsDecoded
<1>2. StageALU(a, i) = Address(a, i)
  <2>1. StageALU(a, i) = StageAddress(a, i)
    BY DEF StageALU, Links
  <2>2. QED
    BY <2>1, SameAddress
<1>3. StagePC(a, i) = Plus(a.pc, 4) /\ ComputeFlags(a, i, StageALU(a, i)) = a.fl
  BY DEF StagePC, ComputeFlags
<1>4. QED
  BY <1>1, <1>2, <1>3, StagesExecute

LEMMA StoresAgree ==
  ASSUME NEW a, IsState(a), NEW i, IsDecoded(i), i.fmt \in {"LoadStore", "LoadStorePair"},
         i.op = (IF i.fmt = "LoadStore" THEN "STR" ELSE "STP"), i.index # "regBase"
  PROVE  ThroughStages(a, i) = Execute(a, i)
<1> DEFINE addr == Address(a, i)
           mem == Stored(a, i, addr)
           u == BaseValue(a, i)
           regs == BaseRegs(a.regs, i, u)
           sp == BaseSP(a.sp, i, u)
           b == Put(a, Plus(a.pc, 4), a.regs, a.sp, a.fl, mem)
           s == Put(a, Plus(a.pc, 4), regs, sp, a.fl, mem)
<1>1. i.op \in {"STR", "STP"}
  OBVIOUS
<1>2. ThroughStages(a, i) = WriteBack(a, b, i, addr)
  BY <1>1, StagesAccess
<1>3. PerformBaseWriteback(b, i, addr) = s
  <2> HIDE DEF mem
  <2>1. PerformBaseWriteback(b, i, StageAddress(a, i)) = s
    BY StagesWriteBase
  <2>2. QED
    BY <2>1, SameAddress
<1>4. ~IsRegWriteInst(i)
  BY <1>1 DEF IsRegWriteInst, Links, IsLoadOp
<1>5. WriteBack(a, b, i, addr) = s
  <2> HIDE DEF b, s, addr
  <2>1. QED
    BY <1>3, <1>4 DEF WriteBack
<1>6. Execute(a, i) = Skip(BaseWriteback(a, WithMem(a, mem), i))
  <2> DEFINE n == Size(i)
             first == Write(a.mem, addr, n, ReadReg(a, i.rd))
  <2>1. CASE i.fmt = "LoadStore"
    <3>1. Execute(a, i) = Skip(ExecuteLoadStore(a, i))
      BY <2>1 DEF Execute
    <3>2. AccessSize(i) = n /\ i.op = "STR"
      BY <2>1 DEF AccessSize
    <3>3. mem = first
      BY <3>2 DEF Stored, IsStoreOp
    <3> HIDE DEF mem, addr, n
    <3>4. ExecuteLoadStore(a, i) = BaseWriteback(a, [a EXCEPT !.mem = first], i)
      BY <3>2 DEF ExecuteLoadStore, addr
    <3>5. QED
      BY <3>1, <3>3, <3>4 DEF WithMem
  <2>2. CASE i.fmt = "LoadStorePair"
    <3>1. Execute(a, i) = Skip(ExecuteLoadStorePair(a, i))
      BY <2>2 DEF Execute
    <3> DEFINE both == Write(first, Plus(addr, n \div 8), n, ReadReg(a, i.rt2))
    <3>2. i.op = "STP"
      BY <2>2
    <3>3. mem = both
      BY <3>2 DEF Stored, IsStoreOp
    <3> HIDE DEF mem, addr, n
    <3>4. ExecuteLoadStorePair(a, i) = BaseWriteback(a, [a EXCEPT !.mem = both], i)
      BY <3>2 DEF ExecuteLoadStorePair, addr, n
    <3>5. QED
      BY <3>1, <3>3, <3>4 DEF WithMem
  <2>3. QED
    BY <2>1, <2>2
<1> HIDE DEF mem, addr
<1>7. WithMem(a, mem) = Put(a, a.pc, a.regs, a.sp, a.fl, mem)
  <2>1. WithMem(Put(a, a.pc, a.regs, a.sp, a.fl, a.mem), mem) = Put(a, a.pc, a.regs, a.sp, a.fl, mem)
    BY PutChanges
  <2>2. QED
    BY <2>1, WholeState, Zenon
<1>8. BaseWriteback(a, Put(a, a.pc, a.regs, a.sp, a.fl, mem), i) = Put(a, a.pc, regs, sp, a.fl, mem)
  BY EmulatorWritesBase
<1>9. Skip(Put(a, a.pc, regs, sp, a.fl, mem)) = s
  <2> HIDE DEF regs, sp
  <2>1. QED
    BY PutWrites
<1>10. QED
  BY <1>2, <1>5, <1>6, <1>7, <1>8, <1>9

LEMMA LoadsAgree ==
  ASSUME NEW a, IsState(a), NEW i, IsDecoded(i), i.fmt = "LoadStore", i.op = "LDR",
         i.index # "regBase", ~LoadsBase(i)
  PROVE  ThroughStages(a, i) = Execute(a, i)
<1> DEFINE addr == Address(a, i)
           v == Read(a.mem, addr, Size(i))
           u == BaseValue(a, i)
           regs == BaseRegs(a.regs, i, u)
           sp == BaseSP(a.sp, i, u)
           b == Put(a, Plus(a.pc, 4), a.regs, a.sp, a.fl, a.mem)
           s == Put(a, Plus(a.pc, 4), regs, sp, a.fl, a.mem)
           t == Put(a, Plus(a.pc, 4), Wrote(regs, i.rd, v), sp, a.fl, a.mem)
<1>1. ThroughStages(a, i) = WriteBack(a, b, i, addr)
  BY StagesAccess DEF Stored, IsStoreOp
<1>2. PerformBaseWriteback(b, i, addr) = s
  <2>1. PerformBaseWriteback(b, i, StageAddress(a, i)) = s
    BY StagesWriteBase
  <2>2. QED
    BY <2>1, SameAddress
<1>3. /\ IsRegWriteInst(i) <=> i.rd # 31
      /\ MemData(a, i, addr) = v /\ IsLoadOp(i) /\ ~Links(i)
  BY DEF IsRegWriteInst, Links, IsLoadOp, MemData
<1>4. WriteBack(a, b, i, addr) = IF i.rd # 31 THEN WriteReg(s, i.rd, v) ELSE s
  <2> HIDE DEF b, s, addr, v
  <2>1. QED
    BY <1>2, <1>3 DEF WriteBack
<1>5. Execute(a, i) = Skip(BaseWriteback(a, WriteReg(a, i.rd, v), i))
  <2>1. Execute(a, i) = Skip(ExecuteLoadStore(a, i))
    BY DEF Execute
  <2>2. AccessSize(i) = Size(i)
    BY DEF AccessSize
  <2>3. ExecuteLoadStore(a, i) = BaseWriteback(a, WriteReg(a, i.rd, v), i)
    BY <2>2 DEF ExecuteLoadStore
  <2>4. QED
    BY <2>1, <2>3
<1> HIDE DEF v, addr, u
<1>6. Wrote(regs, i.rd, v) = BaseRegs(Wrote(a.regs, i.rd, v), i, u)
  <2>1. IsRegFile(a.regs) /\ (Indexed(i) => i.rd # i.rn \/ i.rn = 31)
    BY DEF IsState, LoadsBase, Indexed
  <2>2. QED
    BY <2>1, BaseCommutes
<1>7. WriteReg(s, i.rd, v) = t /\ (i.rd = 31 => s = t)
  <2> HIDE DEF regs, sp
  <2>1. QED
    BY PutWrites DEF Wrote
<1>8. Skip(BaseWriteback(a, WriteReg(a, i.rd, v), i)) = t
  <2> DEFINE wrote == Wrote(a.regs, i.rd, v)
             after == BaseRegs(wrote, i, u)
  <2>1. WriteReg(a, i.rd, v) = Put(a, a.pc, wrote, a.sp, a.fl, a.mem)
    <3>1. WriteReg(Put(a, a.pc, a.regs, a.sp, a.fl, a.mem), i.rd, v) = Put(a, a.pc, wrote, a.sp, a.fl, a.mem)
      BY PutWrites
    <3>2. QED
      BY <3>1, WholeState, Zenon
  <2> HIDE DEF wrote
  <2>2. BaseWriteback(a, Put(a, a.pc, wrote, a.sp, a.fl, a.mem), i) = Put(a, a.pc, after, sp, a.fl, a.mem)
    BY EmulatorWritesBase DEF u
  <2> HIDE DEF after, sp
  <2>3. Skip(Put(a, a.pc, after, sp, a.fl, a.mem)) = Put(a, Plus(a.pc, 4), after, sp, a.fl, a.mem)
    BY PutWrites
  <2>4. after = Wrote(regs, i.rd, v)
    BY <1>6 DEF after, wrote
  <2> HIDE DEF regs
  <2>5. QED
    BY <2>1, <2>2, <2>3, <2>4
<1> HIDE DEF s, t
<1>9. QED
  BY <1>1, <1>4, <1>5, <1>7, <1>8

LEMMA PairLoadsAgree ==
  ASSUME NEW a, IsState(a), NEW i, IsDecoded(i), i.fmt = "LoadStorePair", i.op = "LDP",
         i.rd # 31, ~LoadsBase(i)
  PROVE  ThroughStages(a, i) = Execute(a, i)
<1> DEFINE addr == Address(a, i)
           n == Size(i)
           v == Read(a.mem, addr, n)
           v2 == Read(a.mem, Plus(addr, n \div 8), n)
           u == BaseValue(a, i)
           regs == BaseRegs(a.regs, i, u)
           sp == BaseSP(a.sp, i, u)
           one == Wrote(regs, i.rd, v)
           two == Wrote(one, i.rt2, v2)
           b == Put(a, Plus(a.pc, 4), a.regs, a.sp, a.fl, a.mem)
           s == Put(a, Plus(a.pc, 4), regs, sp, a.fl, a.mem)
           t == Put(a, Plus(a.pc, 4), two, sp, a.fl, a.mem)
<1>1. ThroughStages(a, i) = WriteBack(a, b, i, addr)
  BY StagesAccess DEF IsDecoded, Stored, IsStoreOp
<1>2. PerformBaseWriteback(b, i, addr) = s
  <2>1. PerformBaseWriteback(b, i, StageAddress(a, i)) = s
    BY StagesWriteBase
  <2>2. StageAddress(a, i) = addr
    BY SameAddress DEF IsDecoded
  <2>3. QED
    BY <2>1, <2>2
<1>3. /\ IsRegWriteInst(i) /\ MemData(a, i, addr) = v /\ MemData2(a, i, addr) = v2
      /\ IsLoadOp(i) /\ ~Links(i)
  BY DEF IsRegWriteInst, Links, IsLoadOp, MemData, MemData2
<1>4. WriteBack(a, b, i, addr) = WriteReg(WriteReg(s, i.rd, v), i.rt2, v2)
  <2> HIDE DEF b, s, addr, v, v2
  <2>1. QED
    BY <1>2, <1>3 DEF WriteBack
<1>5. Execute(a, i) = Skip(BaseWriteback(a, WriteReg(WriteReg(a, i.rd, v), i.rt2, v2), i))
  <2>1. Execute(a, i) = Skip(ExecuteLoadStorePair(a, i))
    BY DEF Execute
  <2>2. ExecuteLoadStorePair(a, i) = BaseWriteback(a, WriteReg(WriteReg(a, i.rd, v), i.rt2, v2), i)
    BY DEF ExecuteLoadStorePair
  <2>3. QED
    BY <2>1, <2>2
<1> HIDE DEF v, v2, addr, n, u
<1>6. two = BaseRegs(Wrote(Wrote(a.regs, i.rd, v), i.rt2, v2), i, u)
  <2> DEFINE wrote == Wrote(a.regs, i.rd, v)
  <2>1. IsRegFile(a.regs) /\ IsRegFile(wrote)
    BY WroteIsFile DEF IsState
  <2>2. Indexed(i) => (i.rd # i.rn /\ i.rt2 # i.rn) \/ i.rn = 31
    BY DEF LoadsBase, Indexed
  <2>3. one = BaseRegs(wrote, i, u)
    BY <2>1, <2>2, BaseCommutes
  <2> HIDE DEF wrote, one
  <2>4. Wrote(BaseRegs(wrote, i, u), i.rt2, v2) = BaseRegs(Wrote(wrote, i.rt2, v2), i, u)
    BY <2>1, <2>2, BaseCommutes
  <2>5. QED
    BY <2>3, <2>4 DEF wrote
<1>7. WriteReg(WriteReg(s, i.rd, v), i.rt2, v2) = t
  <2> HIDE DEF regs, sp
  <2>1. WriteReg(s, i.rd, v) = Put(a, Plus(a.pc, 4), one, sp, a.fl, a.mem)
    BY PutWrites
  <2> HIDE DEF one
  <2>2. WriteReg(Put(a, Plus(a.pc, 4), one, sp, a.fl, a.mem), i.rt2, v2) = t
    BY PutWrites
  <2> HIDE DEF s, t
  <2>3. QED
    BY <2>1, <2>2
<1>8. Skip(BaseWriteback(a, WriteReg(WriteReg(a, i.rd, v), i.rt2, v2), i)) = t
  <2> DEFINE first == Wrote(a.regs, i.rd, v)
             wrote == Wrote(first, i.rt2, v2)
             after == BaseRegs(wrote, i, u)
  <2>1. WriteReg(a, i.rd, v) = Put(a, a.pc, first, a.sp, a.fl, a.mem)
    <3>1. WriteReg(Put(a, a.pc, a.regs, a.sp, a.fl, a.mem), i.rd, v) = Put(a, a.pc, first, a.sp, a.fl, a.mem)
      BY PutWrites
    <3>2. QED
      BY <3>1, WholeState, Zenon
  <2> HIDE DEF first
  <2>2. WriteReg(Put(a, a.pc, first, a.sp, a.fl, a.mem), i.rt2, v2) = Put(a, a.pc, wrote, a.sp, a.fl, a.mem)
    BY PutWrites
  <2> HIDE DEF wrote
  <2>3. BaseWriteback(a, Put(a, a.pc, wrote, a.sp, a.fl, a.mem), i) = Put(a, a.pc, after, sp, a.fl, a.mem)
    BY EmulatorWritesBase DEF u
  <2> HIDE DEF after, sp
  <2>4. Skip(Put(a, a.pc, after, sp, a.fl, a.mem)) = Put(a, Plus(a.pc, 4), after, sp, a.fl, a.mem)
    BY PutWrites
  <2>5. after = two
    BY <1>6 DEF after, wrote, first
  <2> HIDE DEF two
  <2>6. QED
    BY <2>1, <2>2, <2>3, <2>4, <2>5
<1> HIDE DEF s, t
<1>9. QED
  BY <1>1, <1>4, <1>5, <1>7, <1>8

---------------------------------------------------------------------------
(* All formats together.                                                    *)

\* What no name of a difference being there says.
SameByName(a, i) ==
  /\ i.op \notin {"LDRSW", "CSEL", "CSINC", "CSINV", "CSNEG", "CCMN", "CCMP", "UDIV",
                   "SDIV", "LSLV", "LSRV", "ASRV", "RORV", "EXTR", "MRS", "Unknown", "BRK", "BFM", "LDRLit",
                   "LDRB", "LDRSB", "LDRH", "LDRSH", "STRB", "STRH"}
  /\ i.fmt \notin {"SIMDReg", "SIMDLoadStore", "SIMDCopy", "LogicalImm"}
  /\ i.op \in {"CBZ", "CBNZ", "TBZ", "TBNZ"} => Execute(a, i).pc = Plus(a.pc, 4)
  /\ ~(i.fmt = "DPReg" /\ i.setFlags /\ i.op \in {"AND", "BIC"})
  /\ ~NamesSP(i)
  /\ i.op = "MOVK" => ReadReg(a, i.rd) = ReadReg(a, i.rn)
  /\ i.op \in {"MADD", "MSUB"} /\ i.rt2 = 31 => ReadReg(a, i.rm) = {}
  /\ i.op \in {"UBFM", "SBFM"} => Extracts(i)
  /\ ~(Narrow(i) /\ i.op \in {"UBFM", "SBFM"} /\ 5 \in i.imm2 /\ i.imm # {})
  /\ i.index # "regBase"
  /\ ~LoadsBase(i)
  /\ ~(i.op = "LDP" /\ i.rd = 31)

LEMMA NoDifference ==
  ASSUME NEW a, NEW i, StagesDiffer(a, i) = {}
  PROVE  SameByName(a, i)
<1>1. ASSUME i.op \in {"LDRSW", "CSEL", "CSINC", "CSINV", "CSNEG", "CCMN", "CCMP", "UDIV",
                     "SDIV", "LSLV", "LSRV", "ASRV", "RORV", "EXTR", "MRS"} PROVE FALSE
  <2>1. "not executed" \in StagesDiffer(a, i)
    BY <1>1, Zenon DEF StagesDiffer, When
  <2>2. QED
    BY <2>1, Zenon
<1>2. ASSUME i.fmt \in {"SIMDReg", "SIMDLoadStore", "SIMDCopy"} PROVE FALSE
  <2>1. "not executed" \in StagesDiffer(a, i)
    BY <1>2, Zenon DEF StagesDiffer, When
  <2>2. QED
    BY <2>1, Zenon
<1>3. ASSUME i.op \in {"CBZ", "CBNZ", "TBZ", "TBNZ"} /\ Execute(a, i).pc # Plus(a.pc, 4) PROVE FALSE
  <2>1. "never taken" \in StagesDiffer(a, i)
    BY <1>3, Zenon DEF StagesDiffer, When
  <2>2. QED
    BY <2>1, Zenon
<1>4. ASSUME i.op \in {"Unknown", "BRK"} PROVE FALSE
  <2>1. "does not stop" \in StagesDiffer(a, i)
    BY <1>4, Zenon DEF StagesDiffer, When
  <2>2. QED
    BY <2>1, Zenon
<1>5. ASSUME i.fmt = "LogicalImm" PROVE FALSE
  <2>1. "Rm for the immediate" \in StagesDiffer(a, i)
    BY <1>5, Zenon DEF StagesDiffer, When
  <2>2. QED
    BY <2>1, Zenon
<1>6. ASSUME i.fmt = "DPReg" /\ i.setFlags /\ i.op = "AND" PROVE FALSE
  <2>1. "no flags" \in StagesDiffer(a, i)
    BY <1>6, Zenon DEF StagesDiffer, When
  <2>2. QED
    BY <2>1, Zenon
<1>7. ASSUME i.fmt = "DPReg" /\ i.setFlags /\ i.op = "BIC" PROVE FALSE
  <2>1. "no flags" \in StagesDiffer(a, i)
    BY <1>7, Zenon DEF StagesDiffer, When
  <2>2. QED
    BY <2>1, Zenon
<1>8. ASSUME NamesSP(i) PROVE FALSE
  <2>1. "31 is not SP" \in StagesDiffer(a, i)
    BY <1>8, Zenon DEF StagesDiffer, When
  <2>2. QED
    BY <2>1, Zenon
<1>9. ASSUME i.op = "MOVK" /\ ReadReg(a, i.rd) # ReadReg(a, i.rn) PROVE FALSE
  <2>1. "Rn is kept" \in StagesDiffer(a, i)
    BY <1>9, Zenon DEF StagesDiffer, When
  <2>2. QED
    BY <2>1, Zenon
<1>10. ASSUME i.op \in {"MADD", "MSUB"} /\ i.rt2 = 31 /\ ReadReg(a, i.rm) # {} PROVE FALSE
  <2>1. "Rm for the addend" \in StagesDiffer(a, i)
    BY <1>10, Zenon DEF StagesDiffer, When
  <2>2. QED
    BY <2>1, Zenon
<1>11. ASSUME i.op = "BFM" PROVE FALSE
  <2>1. "Rm is merged with" \in StagesDiffer(a, i)
    BY <1>11, Zenon DEF StagesDiffer, When
  <2>2. QED
    BY <2>1, Zenon
<1>12. ASSUME i.op \in {"UBFM", "SBFM"} /\ ~Extracts(i) PROVE FALSE
  <2>1. "a field moved up" \in StagesDiffer(a, i)
    BY <1>12, Zenon DEF StagesDiffer, When
  <2>2. QED
    BY <2>1, Zenon
<1>13. ASSUME i.op \in {"LDRB", "LDRSB", "LDRH", "LDRSH", "STRB", "STRH"} PROVE FALSE
  <2>1. "a register's width" \in StagesDiffer(a, i)
    BY <1>13, Zenon DEF StagesDiffer, When
  <2>2. QED
    BY <2>1, Zenon
<1>14. ASSUME i.index = "regBase" PROVE FALSE
  <2>1. "the offset register is not added" \in StagesDiffer(a, i)
    BY <1>14, Zenon DEF StagesDiffer, When
  <2>2. QED
    BY <2>1, Zenon
<1>15. ASSUME LoadsBase(i) PROVE FALSE
  <2>1. "the loaded base" \in StagesDiffer(a, i)
    BY <1>15, Zenon DEF StagesDiffer, When
  <2>2. QED
    BY <2>1, Zenon
<1>16. ASSUME i.op = "LDRLit" PROVE FALSE
  <2>1. "loaded from 0" \in StagesDiffer(a, i)
    BY <1>16, Zenon DEF StagesDiffer, When
  <2>2. QED
    BY <2>1, Zenon
<1>17. ASSUME i.op = "LDP" /\ i.rd = 31 PROVE FALSE
  <2>1. "the second register is not loaded" \in StagesDiffer(a, i)
    BY <1>17, Zenon DEF StagesDiffer, When
  <2>2. QED
    BY <2>1, Zenon
<1>18. ASSUME Narrow(i) /\ i.op \in {"UBFM", "SBFM"} /\ 5 \in i.imm2 /\ i.imm # {} PROVE FALSE
  <2>1. "a 32-bit field beyond bit 31" \in StagesDiffer(a, i)
    BY <1>18, Zenon DEF StagesDiffer, When
  <2>2. QED
    BY <2>1, Zenon
<1>19. QED
  BY <1>1, <1>2, <1>3, <1>4, <1>5, <1>6, <1>7, <1>8, <1>9, <1>10, <1>11, <1>12, <1>13, <1>14, <1>15,
     <1>16, <1>17, <1>18 DEF SameByName

LEMMA StagesAgree ==
  ASSUME NEW a, IsState(a), NEW i, HasForm(i), HasOperation(i), IsDecoded(i), SameByName(a, i), i.fmt # "DPImm"
  PROVE  ThroughStages(a, i) = Execute(a, i)
<1>1. i.fmt \in Formats \/ i.op \in {"NOP", "SVC"}
  BY DEF HasForm, SameByName
<1>2. CASE i.op \in {"NOP", "SVC"}
  BY <1>2, OthersAgree
<1>3. CASE i.fmt \in {"Branch", "BranchCond", "BranchReg", "TestBranch", "CompareBranch"}
  <2>1. i.fmt \in {"TestBranch", "CompareBranch"} => Execute(a, i).pc = Plus(a.pc, 4)
    BY DEF IsDecoded, SameByName
  <2>2. i.op # "Unknown"
    BY DEF SameByName
  <2>3. QED
    BY <1>3, <2>1, <2>2, BranchesAgree
<1>4. CASE i.fmt = "DPReg"
  BY <1>4, RegistersAgree DEF SameByName
<1>5. CASE i.fmt = "Bitfield"
  <2>1. i.op \in {"UBFM", "SBFM"} /\ Extracts(i)
    BY <1>5 DEF HasOperation, SameByName
  <2>2. ~(Narrow(i) /\ 5 \in i.imm2 /\ i.imm # {})
    BY <2>1 DEF SameByName
  <2>3. QED
    BY <1>5, <2>1, <2>2, FieldsAgree
<1>6. CASE i.fmt = "MoveWide"
  BY <1>6, MovesAgree DEF SameByName
<1>7. CASE i.fmt = "PCRel"
  BY <1>7, AddressesAgree
<1>8. CASE i.fmt = "DataProc3Src"
  <2>1. i.rt2 = 31 => ReadReg(a, i.rm) = {}
    BY <1>8 DEF IsDecoded, SameByName
  <2>2. QED
    BY <1>8, <2>1, ProductsAgree
<1>9. CASE i.fmt = "LoadStore"
  <2>1. i.op \in {"LDR", "STR"} /\ i.index # "regBase" /\ ~LoadsBase(i)
    BY <1>9 DEF IsDecoded, SameByName
  <2>2. QED
    BY <1>9, <2>1, LoadsAgree, StoresAgree
<1>10. CASE i.fmt = "LoadStorePair"
  <2>1. /\ i.op \in {"LDP", "STP"} /\ i.index # "regBase" /\ ~LoadsBase(i)
        /\ i.op = "LDP" => i.rd # 31
    BY <1>10 DEF IsDecoded, SameByName
  <2>2. QED
    BY <1>10, <2>1, PairLoadsAgree, StoresAgree
<1>11. i.fmt \notin {"Extract", "LoadStoreLit", "CondSelect", "CondCmp", "DataProc2Src", "SystemReg",
                     "SIMDReg", "SIMDLoadStore", "SIMDCopy", "LogicalImm"}
  BY DEF IsDecoded, HasOperation, SameByName
<1>12. QED
  BY <1>1, <1>2, <1>3, <1>4, <1>5, <1>6, <1>7, <1>8, <1>9, <1>10, <1>11 DEF Formats

\* A state of the stages, which count nothing.
IsUncounted(a) == IsState(a) /\ a.count = 0

LEMMA WritesKeepUncounted ==
  ASSUME NEW a, IsUncounted(a), NEW r, NEW v
  PROVE  IsUncounted(WriteReg(a, r, v)) /\ IsUncounted(WriteRegOrSP(a, r, v))
<1>1. IsState(a) /\ a.count = 0
  BY DEF IsUncounted
<1>2. IsState(WriteReg(a, r, v)) /\ IsState(WriteRegOrSP(a, r, v))
  BY <1>1, WritesKeepState
<1>3. WriteReg(a, r, v).count = 0 /\ WriteRegOrSP(a, r, v).count = 0
  BY <1>1 DEF IsState, WriteReg, WriteRegOrSP
<1>4. QED
  BY <1>2, <1>3 DEF IsUncounted

LEMMA StagesKeepUncounted ==
  ASSUME NEW a, IsUncounted(a), NEW i
  PROVE  IsUncounted(ThroughStages(a, i))
<1>1. IsState(a) /\ a.count = 0
  BY DEF IsUncounted
<1> DEFINE alu == StageALU(a, i)
           fl == ComputeFlags(a, i, alu)
           mem == Stored(a, i, alu)
           pc == StagePC(a, i)
           b == [a EXCEPT !.fl = fl, !.mem = mem, !.pc = pc]
<1>2. ThroughStages(a, i) = IF i.rm = NoRegister THEN [a EXCEPT !.status = "panicked"]
                            ELSE IF i.op = "SVC" THEN Handle(b) ELSE WriteBack(a, b, i, alu)
  BY DEF ThroughStages
<1> HIDE DEF alu, fl, mem, pc
<1>3. IsUncounted(b)
  <2>1. b = Put(a, pc, a.regs, a.sp, fl, mem)
    BY <1>1 DEF IsState, Put
  <2> HIDE DEF b
  <2>2. IsRegFile(a.regs)
    BY <1>1 DEF IsState
  <2>3. IsState(Put(a, pc, a.regs, a.sp, fl, mem)) /\ Put(a, pc, a.regs, a.sp, fl, mem).count = a.count
    BY <1>1, <2>2, PutParts
  <2>4. QED
    BY <1>1, <2>1, <2>3 DEF IsUncounted
<1> HIDE DEF b
<1>4. IsUncounted([a EXCEPT !.status = "panicked"])
  <2>1. IsState([a EXCEPT !.status = "panicked"])
    BY <1>1, PartsChange
  <2>2. [a EXCEPT !.status = "panicked"].count = 0
    BY <1>1 DEF IsState
  <2>3. QED
    BY <2>1, <2>2 DEF IsUncounted
<1>5. IsUncounted(Handle(b))
  <2>1. \A code : IsUncounted(Stop(b, code))
    <3> SUFFICES ASSUME NEW code PROVE IsUncounted(Stop(b, code))
      OBVIOUS
    <3>1. IsState(b) /\ b.count = 0
      BY <1>3 DEF IsUncounted
    <3>2. IsState(Stop(b, code))
      BY <3>1, JumpsKeepState
    <3>3. Stop(b, code).count = 0
      BY <3>1 DEF IsState, Stop
    <3>4. QED
      BY <3>2, <3>3 DEF IsUncounted
  <2>2. \A r, v : IsUncounted(WriteReg(b, r, v))
    BY <1>3, WritesKeepUncounted
  <2>3. QED
    BY <2>1, <2>2 DEF Handle
<1>6. IsUncounted(WriteBack(a, b, i, alu))
  <2> DEFINE base == PerformBaseWriteback(b, i, alu)
  <2>1. IsUncounted(base)
    <3>1. \A r, v : IsUncounted(WriteRegOrSP(b, r, v))
      BY <1>3, WritesKeepUncounted
    <3>2. QED
      BY <1>3, <3>1 DEF PerformBaseWriteback
  <2> HIDE DEF base
  <2>2. \A r, v : IsUncounted(WriteReg(base, r, v))
    BY <2>1, WritesKeepUncounted
  <2>3. \A r, v, q, u : IsUncounted(WriteReg(WriteReg(base, r, v), q, u))
    BY <2>2, WritesKeepUncounted
  <2>4. QED
    BY <2>1, <2>2, <2>3 DEF WriteBack, base
<1>7. QED
  BY <1>2, <1>4, <1>5, <1>6

\* While the stages run, the program is one of the loaded ones and arch a whole state.
StagesRun == machine = "stages" => prog \in Programs /\ IsUncounted(arch)

LEMMA StagesKeepRunning == SimSpec => []StagesRun
<1>1. SimInit => StagesRun
  BY SetupAssumption DEF SimInit, FastInit, Init, StagesRun, Start, IsUncounted, IsState, IsRegFile
<1>2. StagesRun /\ [SimNext]_simVars => StagesRun'
  <2> SUFFICES ASSUME StagesRun, [SimNext]_simVars, machine' = "stages"
               PROVE  prog' \in Programs /\ IsUncounted(arch')
    BY DEF StagesRun
  <2>1. CASE GoesThrough
    <3>1. prog' = prog /\ prog \in Programs /\ IsUncounted(arch) /\ arch' = ThroughStages(arch, InstAt(prog, arch.pc))
      BY <2>1 DEF GoesThrough, Through, StagesRun
    <3>2. QED
      BY <3>1, StagesKeepUncounted
  <2>2. CASE Emulates \/ Ticks \/ Fuses
    BY <2>2 DEF Emulates, Ticks, Fuses
  <2>3. CASE UNCHANGED simVars
    BY <2>3 DEF simVars, fastVars, StagesRun, IsUncounted, IsState
  <2>4. QED
    BY <2>1, <2>2, <2>3 DEF SimNext
<1>3. QED
  BY <1>1, <1>2, PTL DEF SimSpec

\* The count of instructions is not compared.
LEMMA CountIsInvisible ==
  ASSUME NEW a, IsState(a), NEW i, NEW k
  PROVE  WithoutCarry([a EXCEPT !.count = k], i) = WithoutCarry(a, i)
<1>1. Visible([a EXCEPT !.count = k]) = Visible(a)
  BY DEF IsState, Visible
<1>2. QED
  BY <1>1 DEF WithoutCarry

\* Nor are C and V, of the two results of ImmediatesAgree.
LEMMA CarryIsInvisible ==
  ASSUME NEW a, IsState(a), NEW pc, NEW regs, NEW sp, NEW mem, NEW i, i.fmt = "DPImm", i.setFlags,
         NEW r, NEW x, NEW y, NEW z, NEW n
  PROVE  WithoutCarry(Put(a, pc, regs, sp, ArithFlags(i, x, y, r, n), mem), i) =
         WithoutCarry(Put(a, pc, regs, sp, ArithFlags(i, x, z, r, n), mem), i)
<1> DEFINE Plain(f) == [f EXCEPT !.c = FALSE, !.v = FALSE]
           s(f) == Put(a, pc, regs, sp, f, mem)
           shown == IF a.status = "exited" THEN {} ELSE pc
<1>1. Plain(ArithFlags(i, x, y, r, n)) = Plain(ArithFlags(i, x, z, r, n))
  <2> DEFINE Same(f) == \E c, v : f = [n |-> n - 1 \in r, z |-> r = {}, c |-> c, v |-> v]
  <2>1. \A w : Same(SetAddFlags(x, w, r, n)) /\ Same(SetSubFlags(x, w, r, n))
    BY Zenon DEF SetAddFlags, SetSubFlags
  <2>2. \A w : Same(ArithFlags(i, x, w, r, n))
    BY <2>1, Zenon DEF ArithFlags
  <2>3. ASSUME NEW p, NEW q, NEW c, NEW v
        PROVE  Plain([n |-> p, z |-> q, c |-> c, v |-> v]) = [n |-> p, z |-> q, c |-> FALSE, v |-> FALSE]
    <3>1. ASSUME NEW o, NEW u
          PROVE  /\ [[n |-> p, z |-> q, c |-> c, v |-> u] EXCEPT !.c = o] = [n |-> p, z |-> q, c |-> o, v |-> u]
                 /\ [[n |-> p, z |-> q, c |-> o, v |-> v] EXCEPT !.v = u] = [n |-> p, z |-> q, c |-> o, v |-> u]
      OBVIOUS
    <3>2. [[n |-> p, z |-> q, c |-> c, v |-> v] EXCEPT !.c = FALSE] = [n |-> p, z |-> q, c |-> FALSE, v |-> v]
      BY <3>1, Zenon
    <3>3. [[n |-> p, z |-> q, c |-> FALSE, v |-> v] EXCEPT !.v = FALSE] = [n |-> p, z |-> q, c |-> FALSE, v |-> FALSE]
      BY <3>1, Zenon
    <3>4. QED
      BY <3>2, <3>3, Zenon
  <2> DEFINE p == n - 1 \in r
             q == r = {}
  <2>4. \A w : \E c, v : ArithFlags(i, x, w, r, n) = [n |-> p, z |-> q, c |-> c, v |-> v]
    BY <2>2, Zenon
  <2> HIDE DEF p, q, Plain
  <2>5. ASSUME NEW w PROVE Plain(ArithFlags(i, x, w, r, n)) = [n |-> p, z |-> q, c |-> FALSE, v |-> FALSE]
    <3>1. PICK c, v : ArithFlags(i, x, w, r, n) = [n |-> p, z |-> q, c |-> c, v |-> v]
      BY <2>4, Zenon
    <3>2. Plain([n |-> p, z |-> q, c |-> c, v |-> v]) = [n |-> p, z |-> q, c |-> FALSE, v |-> FALSE]
      BY <2>3, Zenon
    <3>3. QED
      BY <3>1, <3>2, Zenon
  <2>6. QED
    BY <2>5, Zenon
<1>2. ASSUME NEW f PROVE WithoutCarry(s(f), i) = Whole(shown, regs, sp, Plain(f), a.vec, mem, 0, a.status, a.code)
  <2>1. s(f) = Whole(pc, regs, sp, f, a.vec, mem, a.count, a.status, a.code)
    BY PutIsWhole
  <2>2. Visible(s(f)) = Whole(shown, regs, sp, f, a.vec, mem, 0, a.status, a.code)
    <3> DEFINE v == a.vec   m == mem   c == a.count   t == a.status   d == a.code
               x0 == Whole(pc, regs, sp, f, v, m, c, t, d)
    <3>1. x0.status = t
      BY DEF Whole
    <3> HIDE DEF v, c, t, d
    <3>2. [x0 EXCEPT !.count = 0, !.pc = shown] = Whole(shown, regs, sp, f, v, m, 0, t, d)
      <4> HIDE DEF shown
      <4> DEFINE x1 == Whole(pc, regs, sp, f, v, m, 0, t, d)
      <4>1. [x0 EXCEPT !.count = 0] = x1
        BY DEF Whole
      <4>2. [x0 EXCEPT !.count = 0, !.pc = shown] = WithPC([x0 EXCEPT !.count = 0], shown)
        BY DEF WithPC
      <4> HIDE DEF x0, m
      <4>3. WithPC(x1, shown) = Whole(shown, regs, sp, f, v, m, 0, t, d)
        BY WholeChanges
      <4>4. QED
        BY <4>1, <4>2, <4>3
    <3> HIDE DEF x0
    <3>3. Visible(x0) = [x0 EXCEPT !.count = 0, !.pc = shown]
      BY <3>1 DEF Visible, x0, t, Whole
    <3>4. QED
      BY <2>1, <3>2, <3>3 DEF x0, v, c, t, d
  <2>3. WithoutCarry(s(f), i) = WithFlags(Visible(s(f)), Plain(Visible(s(f)).fl))
    BY DEF WithoutCarry, WithFlags
  <2>4. Visible(s(f)).fl = f
    BY <2>2 DEF Whole
  <2> HIDE DEF s, shown, Plain
  <2>5. QED
    BY <2>2, <2>3, <2>4, WholeChanges
<1> HIDE DEF Plain, shown
<1>3. QED
  BY <1>1, <1>2

(* Wherever no difference is named, Decode, Execute, Memory and Writeback leave *)
(* the registers, flags, memory and PC that Emulator.Step leaves: for every     *)
(* program, register file and word of an instruction.                          *)
THEOREM StagesAreTheEmulator == SimSpec => StagesFollowEmulator
<1>1. ASSUME StagesRun, SimNext, machine = "stages", StagesDiffer(arch, Current) = {}
      PROVE  WithoutCarry(arch', Current) = WithoutCarry(Step(arch), Current)
  <2> DEFINE i == Current
             e == Execute(arch, i)
  <2>1. prog \in Programs /\ IsUncounted(arch)
    BY <1>1 DEF StagesRun
  <2>2. arch' = ThroughStages(arch, i)
    BY <1>1 DEF SimNext, Emulates, Ticks, Fuses, GoesThrough, Through, Current
  <2>3. HasForm(i) /\ HasOperation(i) /\ IsDecoded(i) /\ SameByName(arch, i)
    BY <1>1, <2>1, InstructionsHaveForms, InstructionsHaveOperations, InstructionsAreDecoded,
       NoDifference DEF Current
  <2>4. IsState(arch) /\ IsState(e)
    BY <2>1, <2>3, ExecuteKeepsState DEF IsUncounted
  <2>5. Step(arch) = [e EXCEPT !.count = @ + 1]
    <3>1. ~Limited(arch)
      BY <2>1, LimitAssumption DEF IsUncounted, Limited
    <3>2. QED
      BY <3>1 DEF Step, Current
  <2>6. WithoutCarry(Step(arch), i) = WithoutCarry(e, i)
    BY <2>4, <2>5, CountIsInvisible
  <2>7. WithoutCarry(ThroughStages(arch, i), i) = WithoutCarry(e, i)
    <3>1. CASE i.fmt # "DPImm"
      BY <2>3, <2>4, <3>1, StagesAgree
    <3>2. CASE i.fmt = "DPImm"
      <4>1. i.rn # 31 /\ (i.rd # 31 \/ i.setFlags)
        BY <2>3, <3>2 DEF SameByName, NamesSP
      <4>2. PICK r, x, y, z :
              /\ e = Put(arch, Plus(arch.pc, 4), Wrote(arch.regs, i.rd, r), arch.sp,
                         IF i.setFlags THEN ArithFlags(i, x, y, r, Size(i)) ELSE arch.fl, arch.mem)
              /\ ThroughStages(arch, i) =
                     Put(arch, Plus(arch.pc, 4), Wrote(arch.regs, i.rd, r), arch.sp,
                         IF i.setFlags THEN ArithFlags(i, x, z, r, Size(i)) ELSE arch.fl, arch.mem)
        BY <2>3, <2>4, <3>2, <4>1, ImmediatesAgree
      <4>3. CASE ~i.setFlags
        BY <4>2, <4>3
      <4>4. CASE i.setFlags
        <5> DEFINE n == Size(i)   pc == Plus(arch.pc, 4)   regs == Wrote(arch.regs, i.rd, r)
                   sp == arch.sp   mem == arch.mem
        <5>1. e = Put(arch, pc, regs, sp, ArithFlags(i, x, y, r, n), mem)
          BY <4>2, <4>4
        <5>2. ThroughStages(arch, i) = Put(arch, pc, regs, sp, ArithFlags(i, x, z, r, n), mem)
          BY <4>2, <4>4
        <5> HIDE DEF e, i, n, pc, regs, sp, mem
        <5>3. QED
          BY <2>4, <3>2, <4>4, <5>1, <5>2, CarryIsInvisible
      <4>5. QED
        BY <4>3, <4>4
    <3>3. QED
      BY <3>1, <3>2
  <2>8. QED
    BY <2>2, <2>6, <2>7
<1>2. StagesRun /\ [SimNext]_simVars
        => [machine = "stages" /\ StagesDiffer(arch, Current) = {} =>
              WithoutCarry(arch', Current) = WithoutCarry(Step(arch), Current)]_simVars
  BY <1>1
<1>3. QED
  BY <1>2, StagesKeepRunning, PTL DEF SimSpec, StagesFollowEmulator

---------------------------------------------------------------------------
(* Lanes: a sum of lanes taken together, and the loop over them.            *)

\* Top bits, the ones that a lane of n bits from s on has and that the lane below it ends with.
TopBits(top, n, s) ==
  /\ top \in SUBSET Ones(64)
  /\ \A j \in s .. s + n - 1 : j \in top <=> j = s + n - 1
  /\ s = 0 \/ s - 1 \in top

\* The carry and the borrow into bit c of a lane, taken together and in the lane alone.
CarriesStay(x, y, top, n, s, c) ==
  /\ Carry(x \ top, y \ top, s + c) <=> Carry(Slice(x, s + n - 1, s), Slice(y, s + n - 1, s), c)
  /\ Borrow(x \cup top, y \ top, s + c) <=> Borrow(Slice(x, s + n - 1, s), Slice(y, s + n - 1, s), c)

\* Where the top bits of the lanes are cut off, no carry comes from the lane below.
LEMMA LaneCarry ==
  ASSUME NEW n \in 1 .. 64, NEW s \in Nat, s + n <= 64, NEW x \in SUBSET Ones(64), NEW y \in SUBSET Ones(64),
         NEW top, TopBits(top, n, s), NEW c \in 0 .. n - 1
  PROVE  CarriesStay(x, y, top, n, s, c)
<1> SUFFICES ASSUME top \in SUBSET Ones(64), \A j \in s .. s + n - 1 : j \in top <=> j = s + n - 1,
                    s = 0 \/ s - 1 \in top
             PROVE  CarriesStay(x, y, top, n, s, c)
  BY DEF TopBits
<1> DEFINE u == Slice(x, s + n - 1, s)
           w == Slice(y, s + n - 1, s)
           X == x \ top   Y == y \ top   P == x \cup top
<1>1. \A j : /\ j \in u <=> j \in 0 .. n - 1 /\ j + s \in x
             /\ j \in w <=> j \in 0 .. n - 1 /\ j + s \in y
  <2>1. (s + n - 1) - s = n - 1
    OBVIOUS
  <2>2. QED
    BY <2>1, SliceBits
<1>2. /\ \A j : j \in X <=> j \in x /\ j \notin top
      /\ \A j : j \in Y <=> j \in y /\ j \notin top
      /\ \A j : j \in P <=> j \in x \/ j \in top
  OBVIOUS
<1>3. x \subseteq Nat /\ y \subseteq Nat /\ \A j \in 0 .. n - 2 : j + s \notin top
  BY DEF Ones
<1>4. \A p, q, j : j \in Xor(p, q) <=> ~(j \in p <=> j \in q)
  BY XorBits
<1> HIDE DEF u, w, X, Y, P
<1>5. ASSUME Carry(X, Y, s + c) PROVE Carry(u, w, c)
  <2>1. PICK j \in X \cap Y : j < s + c /\ \A i \in j + 1 .. s + c - 1 : i \in Xor(X, Y)
    BY <1>5 DEF Carry
  <2>2. j \in Nat /\ j \in x /\ j \in y /\ j \notin top
    BY <1>2, <1>3
  <2>3. s <= j
    <3>1. SUFFICES ASSUME j < s PROVE FALSE
      BY <2>2
    <3>2. s - 1 \in top /\ j # s - 1
      BY <2>2, <3>1
    <3>3. s - 1 \in j + 1 .. s + c - 1
      BY <2>2, <3>1, <3>2
    <3>4. QED
      BY <1>2, <1>4, <2>1, <3>2, <3>3
  <2>4. j - s \in 0 .. n - 1 /\ (j - s) + s = j /\ j - s < c
    BY <2>1, <2>2, <2>3
  <2>5. j - s \in u /\ j - s \in w
    BY <1>1, <2>2, <2>4
  <2>6. ASSUME NEW i \in (j - s) + 1 .. c - 1 PROVE i \in Xor(u, w)
    <3>1. i + s \in j + 1 .. s + c - 1 /\ i \in 0 .. n - 2
      BY <2>2, <2>3
    <3>2. ~(i + s \in X <=> i + s \in Y)
      BY <1>4, <2>1, <3>1
    <3>3. i \in 0 .. n - 1 /\ i + s \notin top
      BY <1>3, <3>1
    <3>4. QED
      BY <1>1, <1>2, <1>4, <3>2, <3>3
  <2>7. QED
    BY <2>4, <2>5, <2>6 DEF Carry
<1>6. ASSUME Carry(u, w, c) PROVE Carry(X, Y, s + c)
  <2>1. PICK j \in u \cap w : j < c /\ \A i \in j + 1 .. c - 1 : i \in Xor(u, w)
    BY <1>6 DEF Carry
  <2>2. j \in 0 .. n - 2 /\ j + s \in x /\ j + s \in y
    BY <1>1, <2>1
  <2>3. j + s \in X /\ j + s \in Y /\ j + s < s + c
    BY <1>2, <1>3, <2>1, <2>2
  <2>4. ASSUME NEW i \in (j + s) + 1 .. s + c - 1 PROVE i \in Xor(X, Y)
    <3>1. i - s \in j + 1 .. c - 1 /\ i - s \in 0 .. n - 2 /\ (i - s) + s = i
      BY <2>2
    <3>2. ~(i - s \in u <=> i - s \in w)
      BY <1>4, <2>1, <3>1
    <3>3. i - s \in 0 .. n - 1 /\ i \notin top
      BY <1>3, <3>1
    <3>4. QED
      BY <1>1, <1>2, <1>4, <3>1, <3>2, <3>3
  <2>5. QED
    BY <2>3, <2>4 DEF Carry
<1>7. ASSUME Borrow(P, Y, s + c) PROVE Borrow(u, w, c)
  <2>1. PICK j \in Y \ P : j < s + c /\ \A i \in j + 1 .. s + c - 1 : i \in P <=> i \in Y
    BY <1>7 DEF Borrow
  <2>2. j \in Nat /\ j \notin x /\ j \in y /\ j \notin top
    BY <1>2, <1>3
  <2>3. s <= j
    <3>1. SUFFICES ASSUME j < s PROVE FALSE
      BY <2>2
    <3>2. s - 1 \in top /\ j # s - 1
      BY <2>2, <3>1
    <3>3. s - 1 \in j + 1 .. s + c - 1
      BY <2>2, <3>1, <3>2
    <3>4. QED
      BY <1>2, <2>1, <3>2, <3>3
  <2>4. j - s \in 0 .. n - 1 /\ (j - s) + s = j /\ j - s < c
    BY <2>1, <2>2, <2>3
  <2>5. j - s \notin u /\ j - s \in w
    BY <1>1, <2>2, <2>4
  <2>6. ASSUME NEW i \in (j - s) + 1 .. c - 1 PROVE i \in u <=> i \in w
    <3>1. i + s \in j + 1 .. s + c - 1 /\ i \in 0 .. n - 2
      BY <2>2, <2>3
    <3>2. i + s \in P <=> i + s \in Y
      BY <2>1, <3>1
    <3>3. i \in 0 .. n - 1 /\ i + s \notin top
      BY <1>3, <3>1
    <3>4. QED
      BY <1>1, <1>2, <3>2, <3>3
  <2>7. QED
    BY <2>4, <2>5, <2>6 DEF Borrow
<1>8. ASSUME Borrow(u, w, c) PROVE Borrow(P, Y, s + c)
  <2>1. PICK j \in w \ u : j < c /\ \A i \in j + 1 .. c - 1 : i \in u <=> i \in w
    BY <1>8 DEF Borrow
  <2>2. j \in 0 .. n - 2 /\ j + s \notin x /\ j + s \in y
    BY <1>1, <2>1
  <2>3. j + s \notin P /\ j + s \in Y /\ j + s < s + c
    BY <1>2, <1>3, <2>1, <2>2
  <2>4. ASSUME NEW i \in (j + s) + 1 .. s + c - 1 PROVE i \in P <=> i \in Y
    <3>1. i - s \in j + 1 .. c - 1 /\ i - s \in 0 .. n - 2 /\ (i - s) + s = i
      BY <2>2
    <3>2. i - s \in u <=> i - s \in w
      BY <2>1, <3>1
    <3>3. i - s \in 0 .. n - 1 /\ i \notin top
      BY <1>3, <3>1
    <3>4. QED
      BY <1>1, <1>2, <3>1, <3>2, <3>3
  <2>5. QED
    BY <2>3, <2>4 DEF Borrow
<1>9. QED
  BY <1>5, <1>6, <1>7, <1>8 DEF CarriesStay, X, Y, P, u, w

\* One lane of a sum or difference taken together is the sum or difference of the lane.
LEMMA OneLane ==
  ASSUME NEW n \in 1 .. 64, NEW s \in Nat, s + n <= 64, NEW x \in SUBSET Ones(64), NEW y \in SUBSET Ones(64),
         NEW top, top = {b \in Ones(64) : b % n = n - 1}, TopBits(top, n, s), NEW c \in 0 .. n - 1, NEW op \in {"VADD", "VSUB"}
  PROVE  s + c \in Together(op, x, y, n)
           <=> c \in LaneResult(op, Slice(x, s + n - 1, s), Slice(y, s + n - 1, s), n)
<1> DEFINE u == Slice(x, s + n - 1, s)
           w == Slice(y, s + n - 1, s)
           X == x \ top   Y == y \ top   P == x \cup top
<1>1. \A j : /\ j \in u <=> j \in 0 .. n - 1 /\ j + s \in x
             /\ j \in w <=> j \in 0 .. n - 1 /\ j + s \in y
  <2>1. (s + n - 1) - s = n - 1
    OBVIOUS
  <2>2. QED
    BY <2>1, SliceBits
<1>2. u \in SUBSET Ones(n) /\ w \in SUBSET Ones(n)
  BY <1>1 DEF Ones
<1>3. top \in SUBSET Ones(64)
  OBVIOUS
<1>4. /\ Carry(X, Y, s + c) <=> Carry(u, w, c)
      /\ Borrow(P, Y, s + c) <=> Borrow(u, w, c)
  <2>1. CarriesStay(x, y, top, n, s, c)
    BY LaneCarry
  <2>2. QED
    BY <2>1, Zenon DEF CarriesStay
<1>5. X \in SUBSET Ones(64) /\ Y \in SUBSET Ones(64) /\ P \in SUBSET Ones(64)
  BY <1>3
<1>6. n \in 0 .. 64 /\ 64 \in 0 .. 64 /\ s + c \in 0 .. 63 /\ c + s = s + c
  OBVIOUS
<1>7. /\ c \in Add(u, w, n) <=> ~(c \in Xor(u, w) <=> Carry(u, w, c))
      /\ s + c \in Add(X, Y, 64) <=> ~(s + c \in Xor(X, Y) <=> Carry(X, Y, s + c))
  <2>1. \A b : b \in Add(u, w, n) <=> b \in 0 .. n - 1 /\ ~(b \in Xor(u, w) <=> Carry(u, w, b))
    BY <1>2, <1>6, AddBits
  <2>2. \A b : b \in Add(X, Y, 64) <=> b \in 0 .. 63 /\ ~(b \in Xor(X, Y) <=> Carry(X, Y, b))
    BY <1>5, <1>6, AddBits
  <2>3. QED
    BY <1>6, <2>1, <2>2
<1>8. /\ c \in Sub(u, w, n) <=> ~(c \in Xor(u, w) <=> Borrow(u, w, c))
      /\ s + c \in Sub(P, Y, 64) <=> ~(s + c \in Xor(P, Y) <=> Borrow(P, Y, s + c))
  <2>1. \A b : b \in Sub(u, w, n) <=> b \in 0 .. n - 1 /\ ~(b \in Xor(u, w) <=> Borrow(u, w, b))
    BY <1>2, <1>6, SubBits
  <2>2. \A b : b \in Sub(P, Y, 64) <=> b \in 0 .. 63 /\ ~(b \in Xor(P, Y) <=> Borrow(P, Y, b))
    BY <1>5, <1>6, SubBits
  <2>3. QED
    BY <1>6, <2>1, <2>2
<1>9. /\ \A p, q, j : j \in Xor(p, q) <=> ~(j \in p <=> j \in q)
      /\ \A j \in 0 .. 63 : j \in Not(y, 64) <=> j \notin y
  <2>1. \A p, q, j : j \in Xor(p, q) <=> ~(j \in p <=> j \in q)
    BY XorBits
  <2>2. \A j \in 0 .. 63 : j \in Not(y, 64) <=> j \notin y
    BY DEF Not, Ones
  <2>3. QED
    BY <2>1, <2>2, Zenon
<1>10. /\ s + c \in X <=> s + c \in x /\ s + c \notin top
       /\ s + c \in Y <=> s + c \in y /\ s + c \notin top
       /\ s + c \in P <=> s + c \in x \/ s + c \in top
       /\ c \in u <=> s + c \in x
       /\ c \in w <=> s + c \in y
  BY <1>1, <1>6
<1>11. CASE op = "VADD"
  <2>1. Together(op, x, y, n) = Xor(Add(X, Y, 64), Xor(x, y) \cap top)
    BY <1>11 DEF Together
  <2>2. LaneResult(op, u, w, n) = Add(u, w, n)
    BY <1>11 DEF LaneResult, FloatOps
  <2>3. s + c \in Xor(x, y) \cap top <=> s + c \in Xor(x, y) /\ s + c \in top
    OBVIOUS
  <2> HIDE DEF u, w, X, Y, P
  <2>4. s + c \in Together(op, x, y, n) <=> c \in LaneResult(op, u, w, n)
    BY <1>4, <1>7, <1>9, <1>10, <2>1, <2>2, <2>3
  <2>5. QED
    BY <2>4 DEF u, w
<1>12. CASE op = "VSUB"
  <2>1. Together(op, x, y, n) = Xor(Sub(P, Y, 64), Xor(x, Not(y, 64)) \cap top)
    BY <1>12 DEF Together
  <2>2. LaneResult(op, u, w, n) = Sub(u, w, n)
    BY <1>12 DEF LaneResult, FloatOps
  <2>3. s + c \in Xor(x, Not(y, 64)) \cap top <=> s + c \in Xor(x, Not(y, 64)) /\ s + c \in top
    OBVIOUS
  <2> HIDE DEF u, w, X, Y, P
  <2>4. s + c \in Together(op, x, y, n) <=> c \in LaneResult(op, u, w, n)
    BY <1>4, <1>6, <1>8, <1>9, <1>10, <2>1, <2>2, <2>3
  <2>5. QED
    BY <2>4 DEF u, w
<1>13. QED
  BY <1>11, <1>12

LaneBits == {8, 16, 32, 64}
LEMMA TogetherBits ==
  ASSUME NEW n \in LaneBits, NEW x \in SUBSET Ones(64), NEW y \in SUBSET Ones(64), NEW op \in {"VADD", "VSUB"},
         NEW b \in 0 .. 63
  PROVE  LET s == n * (b \div n)
         IN b \in Together(op, x, y, n)
              <=> (b % n) \in LaneResult(op, Slice(x, s + n - 1, s), Slice(y, s + n - 1, s), n)
<1> DEFINE s == n * (b \div n)   c == b % n   top == {j \in Ones(64) : j % n = n - 1}
<1>1. /\ s \in Nat /\ s + n <= 64 /\ c \in 0 .. n - 1 /\ s + c = b
      /\ \A j \in s .. s + n - 1 : j % n = n - 1 <=> j = s + n - 1
      /\ s = 0 \/ (s - 1 \in 0 .. 63 /\ (s - 1) % n = n - 1)
  <2>1. CASE n = 8
    BY <2>1
  <2>2. CASE n = 16
    BY <2>2
  <2>3. CASE n = 32
    BY <2>3
  <2>4. CASE n = 64
    BY <2>4
  <2>5. QED
    BY <2>1, <2>2, <2>3, <2>4 DEF LaneBits
<1>2. n \in 1 .. 64
  BY DEF LaneBits
<1>3. TopBits(top, n, s)
  <2>1. ASSUME NEW j \in s .. s + n - 1 PROVE j \in Ones(64)
    BY <1>1, <1>2 DEF Ones
  <2>2. /\ \A j \in s .. s + n - 1 : j \in top <=> j = s + n - 1
        /\ s = 0 \/ s - 1 \in top
    BY <1>1, <2>1 DEF Ones
  <2>3. top \in SUBSET Ones(64)
    OBVIOUS
  <2> HIDE DEF top, s
  <2>4. QED
    BY <2>2, <2>3, Zenon DEF TopBits
<1> HIDE DEF s, c
<1>4. s + c \in Together(op, x, y, n)
        <=> c \in LaneResult(op, Slice(x, s + n - 1, s), Slice(y, s + n - 1, s), n)
  BY <1>1, <1>2, <1>3, OneLane
<1>5. QED
  BY <1>1, <1>4 DEF s, c

\* The vector registers.
VecFile == [0 .. 31 -> SUBSET Ones(128)]
Arrangement(arr) == \E n \in LaneBits : arr.bits = n /\ arr.lanes \in {64 \div n, 128 \div n}

\* An operation on lanes whose sources are vector registers.
OnLanes(v) == Arrangement(v.arr) /\ (v.op = "DUP" \/ (v.vn \in 0 .. 31 /\ v.vm \in 0 .. 31))

\* The destination once its first m lanes are written, all from the registers as they were.
FirstPlaces(file, vd, v, e) ==
  {b \in file[vd] : b >= e} \cup {b \in 0 .. e - 1 : (b % v.arr.bits) \in LaneOf(file, v, b \div v.arr.bits)}
FirstLanes(file, vd, v, m) == FirstPlaces(file, vd, v, v.arr.bits * m)
AfterLanes(file, vd, v, m) == [file EXCEPT ![vd] = FirstLanes(file, vd, v, m)]

\* The function EachLane loops with.
Loop(file, vd, v) ==
  CHOOSE f : f = [k \in 0 .. v.arr.lanes |->
                    IF k = 0 THEN file
                    ELSE WriteLane(f[k - 1], vd, k - 1, v.arr.bits, LaneOf(f[k - 1], v, k - 1))]

\* The bits of lane m are those from place n * m on.
PlacesOf(n, m) ==
  /\ n * m \in Nat /\ n * (m + 1) = n * m + n /\ n * m + n <= 128
  /\ \A b \in 0 .. 127 :
       /\ b - n * m \in 0 .. n - 1 <=> b >= n * m /\ b < n * m + n
       /\ b - n * m \in 0 .. n - 1 => b \div n = m /\ (b % n) = b - n * m

LEMMA LaneHasPlaces ==
  ASSUME NEW n \in LaneBits, NEW m \in Nat, m < 128 \div n
  PROVE  PlacesOf(n, m)
<1>1. CASE n = 8
  <2>1. 8 * m \in Nat /\ 8 * (m + 1) = 8 * m + 8 /\ 8 * m + 8 <= 128
    BY <1>1
  <2>2. ASSUME NEW b \in 0 .. 127
        PROVE  /\ b - 8 * m \in 0 .. 8 - 1 <=> b >= 8 * m /\ b < 8 * m + 8
               /\ b - 8 * m \in 0 .. 8 - 1 => b \div 8 = m /\ (b % 8) = b - 8 * m
    OBVIOUS
  <2>3. QED
    BY <1>1, <2>1, <2>2, Zenon DEF PlacesOf
<1>2. CASE n = 16
  <2>1. 16 * m \in Nat /\ 16 * (m + 1) = 16 * m + 16 /\ 16 * m + 16 <= 128
    BY <1>2
  <2>2. ASSUME NEW b \in 0 .. 127
        PROVE  /\ b - 16 * m \in 0 .. 16 - 1 <=> b >= 16 * m /\ b < 16 * m + 16
               /\ b - 16 * m \in 0 .. 16 - 1 => b \div 16 = m /\ (b % 16) = b - 16 * m
    OBVIOUS
  <2>3. QED
    BY <1>2, <2>1, <2>2, Zenon DEF PlacesOf
<1>3. CASE n = 32
  <2>1. 32 * m \in Nat /\ 32 * (m + 1) = 32 * m + 32 /\ 32 * m + 32 <= 128
    BY <1>3
  <2>2. ASSUME NEW b \in 0 .. 127
        PROVE  /\ b - 32 * m \in 0 .. 32 - 1 <=> b >= 32 * m /\ b < 32 * m + 32
               /\ b - 32 * m \in 0 .. 32 - 1 => b \div 32 = m /\ (b % 32) = b - 32 * m
    OBVIOUS
  <2>3. QED
    BY <1>3, <2>1, <2>2, Zenon DEF PlacesOf
<1>4. CASE n = 64
  <2>1. 64 * m \in Nat /\ 64 * (m + 1) = 64 * m + 64 /\ 64 * m + 64 <= 128
    BY <1>4
  <2>2. ASSUME NEW b \in 0 .. 127
        PROVE  /\ b - 64 * m \in 0 .. 64 - 1 <=> b >= 64 * m /\ b < 64 * m + 64
               /\ b - 64 * m \in 0 .. 64 - 1 => b \div 64 = m /\ (b % 64) = b - 64 * m
    OBVIOUS
  <2>3. QED
    BY <1>4, <2>1, <2>2, Zenon DEF PlacesOf
<1>5. QED
  BY <1>1, <1>2, <1>3, <1>4 DEF LaneBits

\* Numbers of lanes and places in them.
LaneNumbers(k, l) == k \in LaneBits /\ l \in Nat /\ l <= 128 \div k /\ k * 0 = 0 /\ k * l \in {64, 128}

LEMMA LanePlaces ==
  ASSUME NEW arr, Arrangement(arr)
  PROVE  LaneNumbers(arr.bits, arr.lanes)
<1> DEFINE k == arr.bits   l == arr.lanes
<1>1. k \in LaneBits /\ l \in {64 \div k, 128 \div k}
  BY DEF Arrangement
<1> HIDE DEF k, l
<1>2. l \in Nat /\ l <= 128 \div k /\ k * 0 = 0 /\ k * l \in {64, 128}
  <2>1. CASE k = 8
    BY <1>1, <2>1
  <2>2. CASE k = 16
    BY <1>1, <2>2
  <2>3. CASE k = 32
    BY <1>1, <2>3
  <2>4. CASE k = 64
    BY <1>1, <2>4
  <2>5. QED
    BY <1>1, <2>1, <2>2, <2>3, <2>4 DEF LaneBits
<1>3. QED
  BY <1>1, <1>2 DEF LaneNumbers, k, l

LEMMA PlaceOfLane ==
  ASSUME NEW arr, Arrangement(arr), NEW m, m \in 0 .. arr.lanes - 1
  PROVE  PlacesOf(arr.bits, m)
<1> DEFINE k == arr.bits   l == arr.lanes
<1>1. LaneNumbers(k, l)
  BY LanePlaces
<1>2. m \in 0 .. l - 1
  OBVIOUS
<1> HIDE DEF k, l
<1>3. k \in LaneBits /\ l \in Nat /\ l <= 128 \div k
  BY <1>1, Zenon DEF LaneNumbers
<1>4. 128 \div k \in Nat
  BY <1>3 DEF LaneBits
<1>5. m \in Nat /\ m < 128 \div k
  BY <1>2, <1>3, <1>4
<1>6. PlacesOf(k, m)
  BY <1>3, <1>5, LaneHasPlaces
<1>7. QED
  BY <1>6 DEF k

\* Lane k, of n bits from position s on, written as v into a word.
WithLane(file, r, k, n, s, v, word) ==
  /\ WriteLane(file, r, k, n, v) = [file EXCEPT ![r] = word]
  /\ \A b \in 0 .. 127 : b \in word <=> IF b - s \in 0 .. n - 1 THEN b - s \in v ELSE b \in file[r]

LEMMA WriteLaneBits ==
  ASSUME NEW file \in VecFile, NEW r \in 0 .. 31, NEW k \in Nat, NEW n \in Nat, NEW s \in Nat, s = n * k, NEW v
  PROVE  \E word \in SUBSET Ones(128) : WithLane(file, r, k, n, s, v, word)
<1> DEFINE word == (file[r] \ (s .. s + n - 1)) \cup Shl(Low(v, n), s, 128)
<1>1. WriteLane(file, r, k, n, v) = [file EXCEPT ![r] = word]
  BY DEF WriteLane, VecFile
<1>2. \A b : b \in Shl(Low(v, n), s, 128) <=> b \in 0 .. 127 /\ b - s \in Low(v, n)
  <2>1. Low(v, n) \subseteq Int
    BY DEF Low, Ones
  <2>2. 128 \in Nat
    OBVIOUS
  <2>3. QED
    BY <2>1, <2>2, ShlBits
<1>3. file[r] \in SUBSET Ones(128)
  BY DEF VecFile
<1>4. \A b : b \in word <=> (b \in file[r] /\ b \notin s .. s + n - 1) \/ b \in Shl(Low(v, n), s, 128)
  OBVIOUS
<1> HIDE DEF word
<1>5. word \in SUBSET Ones(128)
  BY <1>2, <1>3, <1>4 DEF Ones
<1>6. ASSUME NEW b \in 0 .. 127
      PROVE  b \in word <=> IF b - s \in 0 .. n - 1 THEN b - s \in v ELSE b \in file[r]
  <2>1. b - s \in 0 .. n - 1 <=> b \in s .. s + n - 1
    OBVIOUS
  <2>2. b - s \in Low(v, n) <=> b - s \in v /\ b - s \in 0 .. n - 1
    BY DEF Low, Ones
  <2>3. QED
    BY <1>2, <1>4, <2>1, <2>2
<1>7. QED
  BY <1>1, <1>5, <1>6 DEF WithLane

LEMMA FileWords ==
  ASSUME NEW file \in VecFile
  PROVE  \A r \in 0 .. 31 : file[r] \subseteq 0 .. 127
<1>1. Ones(128) = 0 .. 127
  BY DEF Ones
<1>2. QED
  BY <1>1 DEF VecFile

\* A lane read from registers that differ only below it.
SameFrom(later, file, s) == \A r \in 0 .. 31 : \A b \in 0 .. 127 : b >= s => (b \in later[r] <=> b \in file[r])

LEMMA SameLane ==
  ASSUME NEW file, NEW later, file \in VecFile, later \in VecFile, NEW v, OnLanes(v),
         NEW m, m \in 0 .. v.arr.lanes - 1, SameFrom(later, file, v.arr.bits * m)
  PROVE  LaneOf(later, v, m) = LaneOf(file, v, m)
<1> DEFINE n == v.arr.bits   s == n * m
<1>1. n \in Nat /\ s \in Nat
  <2>1. Arrangement(v.arr)
    BY DEF OnLanes
  <2>2. n \in LaneBits
    BY <2>1, LanePlaces DEF LaneNumbers
  <2>3. PlacesOf(n, m)
    BY <2>1, PlaceOfLane
  <2>4. s \in Nat
    BY <2>3, Zenon DEF PlacesOf
  <2> HIDE DEF n, s
  <2>5. QED
    BY <2>2, <2>4 DEF LaneBits
<1>2. \A r \in 0 .. 31 : file[r] \subseteq 0 .. 127 /\ later[r] \subseteq 0 .. 127
  BY FileWords
<1>3. \A r \in 0 .. 31 : \A b \in 0 .. 127 : b >= s => (b \in later[r] <=> b \in file[r])
  BY Zenon DEF SameFrom
<1> HIDE DEF n, s
<1>4. ASSUME NEW r \in 0 .. 31 PROVE ReadLane(later, r, m, n) = ReadLane(file, r, m, n)
  <2>1. \A f : ReadLane(f, r, m, n) = Slice(f[r], s + n - 1, s)
    BY DEF ReadLane, s
  <2>2. ASSUME NEW b \in s .. s + n - 1 PROVE b \in later[r] <=> b \in file[r]
    <3>0. b \in s .. s + n - 1
      OBVIOUS
    <3>1. b \in Nat /\ b >= s
      BY ONLY <1>1, <3>0
    <3>2. CASE b \in 0 .. 127
      BY <1>3, <3>1, <3>2
    <3>3. CASE b \notin 0 .. 127
      BY <1>2, <3>3
    <3>4. QED
      BY <3>2, <3>3
  <2>3. later[r] \cap (s .. s + n - 1) = file[r] \cap (s .. s + n - 1)
    BY <2>2
  <2>4. QED
    BY <2>1, <2>3 DEF Slice
<1>5. CASE v.op = "DUP"
  BY <1>5 DEF LaneOf
<1>6. CASE v.op # "DUP"
  <2>1. v.vn \in 0 .. 31 /\ v.vm \in 0 .. 31
    BY <1>6 DEF OnLanes
  <2>2. ReadLane(later, v.vn, m, n) = ReadLane(file, v.vn, m, n) /\ ReadLane(later, v.vm, m, n) = ReadLane(file, v.vm, m, n)
    BY <1>4, <2>1
  <2>3. QED
    BY <1>6, <2>2 DEF LaneOf, n
<1>7. QED
  BY <1>5, <1>6

\* One turn of the loop.
LEMMA NextLane ==
  ASSUME NEW file \in VecFile, NEW vd \in 0 .. 31, NEW v, OnLanes(v), NEW m \in 0 .. v.arr.lanes - 1,
         NEW before, before = AfterLanes(file, vd, v, m)
  PROVE  WriteLane(before, vd, m, v.arr.bits, LaneOf(before, v, m)) = AfterLanes(file, vd, v, m + 1)
<1> DEFINE n == v.arr.bits   s == n * m
           old == FirstLanes(file, vd, v, m)
           new == FirstLanes(file, vd, v, m + 1)
<1>1. /\ n \in Nat /\ n > 0 /\ m \in Nat /\ s \in Nat /\ n * (m + 1) = s + n /\ s + n <= 128
      /\ \A b \in 0 .. 127 : /\ b - s \in 0 .. n - 1 <=> b >= s /\ b < s + n
                             /\ b - s \in 0 .. n - 1 => b \div n = m /\ (b % n) = b - s
  <2>1. Arrangement(v.arr)
    BY DEF OnLanes
  <2>2. n \in LaneBits /\ v.arr.lanes \in Nat
    BY <2>1, LanePlaces DEF LaneNumbers
  <2>3. PlacesOf(n, m)
    BY <2>1, PlaceOfLane
  <2>4. /\ s \in Nat /\ n * (m + 1) = s + n /\ s + n <= 128
        /\ \A b \in 0 .. 127 : /\ b - s \in 0 .. n - 1 <=> b >= s /\ b < s + n
                               /\ b - s \in 0 .. n - 1 => b \div n = m /\ (b % n) = b - s
    BY <2>3, Zenon DEF PlacesOf
  <2>5. n \in Nat /\ n > 0
    <3> HIDE DEF n
    <3>1. QED
      BY <2>2 DEF LaneBits
  <2>6. m \in Nat
    BY <2>2
  <2>7. QED
    BY <2>4, <2>5, <2>6, Zenon
<1>2. \A r \in 0 .. 31 : file[r] \subseteq 0 .. 127
  BY FileWords
<1>3. \A b : b \in old <=> (b \in file[vd] /\ b >= s) \/ (b \in 0 .. s - 1 /\ (b % n) \in LaneOf(file, v, b \div n))
  BY DEF FirstLanes, FirstPlaces
<1>4. \A b : b \in new <=> \/ b \in file[vd] /\ b >= s + n
                           \/ b \in 0 .. s + n - 1 /\ (b % n) \in LaneOf(file, v, b \div n)
  <2>1. new = FirstPlaces(file, vd, v, n * (m + 1))
    BY DEF FirstLanes
  <2>2. n * (m + 1) = s + n
    BY <1>1, Zenon
  <2> HIDE DEF s, n, new
  <2>3. new = FirstPlaces(file, vd, v, s + n)
    BY <2>1, <2>2, Zenon
  <2>4. ASSUME NEW e
        PROVE  \A b : b \in FirstPlaces(file, vd, v, e)
                       <=> \/ b \in file[vd] /\ b >= e
                           \/ b \in 0 .. e - 1 /\ (b % n) \in LaneOf(file, v, b \div n)
    BY ONLY DEF FirstPlaces, n
  <2>5. (s + n) - 1 = s + n - 1
    BY ONLY <1>1
  <2>6. QED
    BY <2>3, <2>4, <2>5, Zenon
<1>5. before = [file EXCEPT ![vd] = old]
  BY DEF AfterLanes
<1>6. n * m = s
  OBVIOUS
<1>7. AfterLanes(file, vd, v, m + 1) = [file EXCEPT ![vd] = new]
  BY DEF AfterLanes
<1> HIDE DEF n, s, old, new
<1>8. old \in SUBSET (0 .. 127) /\ new \in SUBSET (0 .. 127)
  <2>1. 0 .. s - 1 \subseteq 0 .. 127 /\ 0 .. s + n - 1 \subseteq 0 .. 127 /\ file[vd] \subseteq 0 .. 127
    BY <1>1, <1>2
  <2>2. (\A b : b \in old => b \in file[vd] \/ b \in 0 .. s - 1)
        /\ (\A b : b \in new => b \in file[vd] \/ b \in 0 .. s + n - 1)
    BY <1>3, <1>4
  <2>3. QED
    BY <2>1, <2>2
<1>9. before \in VecFile /\ before[vd] = old
  BY <1>5, <1>8 DEF VecFile, Ones
<1>10. LaneOf(before, v, m) = LaneOf(file, v, m)
  <2>1. \A r \in 0 .. 31 : \A b \in 0 .. 127 : b >= s => (b \in before[r] <=> b \in file[r])
    <3>1. \A r \in 0 .. 31 : r # vd => before[r] = file[r]
      BY <1>5 DEF VecFile
    <3>2. \A b \in 0 .. 127 : b >= s => (b \in old <=> b \in file[vd])
      BY <1>1, <1>3
    <3>3. QED
      BY <1>9, <3>1, <3>2
  <2>2. QED
    <3>1. SameFrom(before, file, v.arr.bits * m)
      BY <2>1, Zenon DEF SameFrom, n, s
    <3>2. file \in VecFile /\ before \in VecFile /\ m \in 0 .. v.arr.lanes - 1
      BY <1>9
    <3>3. QED
      BY <3>1, <3>2, SameLane
<1> DEFINE lane == LaneOf(file, v, m)
<1>11. PICK word \in SUBSET Ones(128) : WithLane(before, vd, m, n, s, lane, word)
  <2> HIDE DEF lane
  <2>1. s = n * m
    BY <1>6
  <2>2. QED
    BY <1>1, <1>9, <2>1, WriteLaneBits, Zenon
<1>12. \A b \in 0 .. 127 : b - s \in 0 .. n - 1 => (b - s \in lane <=> (b % n) \in LaneOf(file, v, b \div n))
  <2> SUFFICES ASSUME NEW b \in 0 .. 127, b - s \in 0 .. n - 1
               PROVE  b - s \in lane <=> (b % n) \in LaneOf(file, v, b \div n)
    OBVIOUS
  <2>1. b \div n = m /\ (b % n) = b - s
    BY <1>1
  <2>2. QED
    BY <2>1
<1> HIDE DEF lane
<1>13. word = new
  <2>1. ASSUME NEW b \in 0 .. 127 PROVE b \in word <=> b \in new
    <3>1. CASE b - s \in 0 .. n - 1
      <4>1. b \in word <=> (b % n) \in LaneOf(file, v, b \div n)
        BY <1>11, <1>12, <3>1 DEF WithLane
      <4>2. b \in 0 .. s + n - 1 /\ ~(b >= s + n)
        BY <1>1, <3>1
      <4>3. QED
        BY <1>4, <4>1, <4>2
    <3>2. CASE b - s \notin 0 .. n - 1
      <4>1. b \in word <=> b \in old
        BY <1>9, <1>11, <3>2 DEF WithLane
      <4>2. b < s \/ b >= s + n
        BY <1>1, <3>2
      <4>3. CASE b < s
        BY <1>1, <1>3, <1>4, <4>1, <4>3
      <4>4. CASE b >= s + n
        BY <1>1, <1>3, <1>4, <4>1, <4>4
      <4>5. QED
        BY <4>2, <4>3, <4>4
    <3>3. QED
      BY <3>1, <3>2
  <2>2. word \in SUBSET (0 .. 127)
    BY <1>11 DEF Ones
  <2>3. QED
    BY <1>8, <2>1, <2>2
<1>14. [before EXCEPT ![vd] = word] = [file EXCEPT ![vd] = word]
  BY <1>5 DEF VecFile
<1>15. QED
  BY <1>7, <1>10, <1>11, <1>13, <1>14 DEF WithLane, lane, n

\* The loop computes every lane from the registers as they were.
LEMMA LoopIs ==
  ASSUME NEW file \in VecFile, NEW vd \in 0 .. 31, NEW v, OnLanes(v)
  PROVE  EachLane(file, vd, v) = ClearUpper(AfterLanes(file, vd, v, v.arr.lanes), vd, v.arr)
<1> DEFINE l == v.arr.lanes
           Turn(f, k) == WriteLane(f, vd, k, v.arr.bits, LaneOf(f, v, k))
           A(k) == AfterLanes(file, vd, v, k)
           Is(f) == f = [k \in 0 .. l |-> IF k = 0 THEN file ELSE Turn(f[k - 1], k - 1)]
           g == [k \in 0 .. l |-> A(k)]
           h == Loop(file, vd, v)
<1>1. l \in Nat /\ v.arr.bits * 0 = 0
  BY LanePlaces DEF OnLanes, LaneNumbers
<1>2. A(0) = file
  <2>1. \A b \in file[vd] : b \in Int /\ b >= 0
    BY DEF VecFile, Ones
  <2>2. FirstLanes(file, vd, v, 0) = file[vd]
    BY <1>1, <2>1 DEF FirstLanes, FirstPlaces
  <2>3. QED
    BY <2>2 DEF AfterLanes, VecFile
<1>3. \A m \in 0 .. l - 1 : Turn(A(m), m) = A(m + 1)
  BY NextLane
<1>4. EachLane(file, vd, v) = ClearUpper(h[l], vd, v.arr)
  BY DEF EachLane, Loop
<1>5. h = CHOOSE f : Is(f)
  BY DEF Loop
<1> HIDE DEF l, Turn, A, h
<1>6. Is(g)
  <2>1. ASSUME NEW k \in 0 .. l, k # 0 PROVE A(k) = Turn(g[k - 1], k - 1)
    <3>1. k - 1 \in 0 .. l - 1 /\ (k - 1) + 1 = k /\ k - 1 \in 0 .. l
      BY <1>1, <2>1
    <3>2. g[k - 1] = A(k - 1)
      BY <3>1
    <3>3. QED
      BY <1>3, <3>1, <3>2
  <2>2. QED
    BY <1>2, <2>1
<1>7. Is(h)
  <2> HIDE DEF Is, g
  <2>1. QED
    BY <1>5, <1>6
<1> DEFINE T == {k \in Nat : k <= l => h[k] = A(k)}
<1>8. 0 \in T
  BY <1>1, <1>2, <1>7
<1>9. ASSUME NEW k \in T PROVE k + 1 \in T
  <2>1. SUFFICES ASSUME k + 1 <= l PROVE h[k + 1] = A(k + 1)
    OBVIOUS
  <2>2. k \in 0 .. l - 1 /\ k + 1 \in 0 .. l /\ k + 1 # 0 /\ (k + 1) - 1 = k /\ h[k] = A(k)
    BY <1>1, <2>1
  <2>3. h[k + 1] = Turn(h[k], k)
    BY <1>7, <2>2
  <2>4. QED
    BY <1>3, <2>2, <2>3
<1>10. T = Nat
  <2>1. T \in SUBSET Nat
    OBVIOUS
  <2> HIDE DEF T
  <2>2. QED
    BY <1>8, <1>9, <2>1, Upwards
<1>11. h[l] = A(l)
  BY <1>1, <1>10
<1>12. QED
  BY <1>4, <1>11 DEF A, l

\* The registers stay words of 128 bits, whatever is written to the lanes.
LEMMA LanesStay ==
  ASSUME NEW file \in VecFile, NEW vd \in 0 .. 31, NEW v, OnLanes(v)
  PROVE  /\ AfterLanes(file, vd, v, v.arr.lanes) \in VecFile
         /\ EachLane(file, vd, v) \in VecFile
<1> DEFINE n == v.arr.bits   l == v.arr.lanes   e == n * l
           word == FirstLanes(file, vd, v, l)
           after == AfterLanes(file, vd, v, l)
<1>1. e \in {64, 128}
  BY LanePlaces DEF OnLanes, LaneNumbers
<1>2. \A b : b \in word => b \in file[vd] \/ b \in 0 .. e - 1
  BY DEF FirstLanes, FirstPlaces
<1> HIDE DEF e, word
<1>3. word \subseteq 0 .. 127
  BY <1>1, <1>2, FileWords
<1>4. after \in VecFile
  BY <1>3 DEF AfterLanes, VecFile, Ones, word
<1> HIDE DEF after
<1>5. WriteLane(after, vd, 1, 64, {}) \in VecFile
  <2>1. \E w \in SUBSET Ones(128) : WithLane(after, vd, 1, 64, 64, {}, w)
    <3>1. 64 = 64 * 1 /\ 64 \in Nat /\ 1 \in Nat
      OBVIOUS
    <3>2. QED
      BY <1>4, <3>1, WriteLaneBits, Zenon
  <2>2. QED
    BY <1>4, <2>1 DEF WithLane, VecFile
<1>6. EachLane(file, vd, v) = ClearUpper(after, vd, v.arr)
  BY LoopIs DEF after
<1>7. QED
  BY <1>4, <1>5, <1>6 DEF ClearUpper, after

\* A bit of the loop's result is one of its half of the register taken together.
BitOfHalf(file, v, j, c) ==
  ((64 * j + c) % v.arr.bits) \in LaneOf(file, v, (64 * j + c) \div v.arr.bits)
    <=> c \in Together(v.op, ReadLane(file, v.vn, j, 64), ReadLane(file, v.vm, j, 64), v.arr.bits)

LEMMA LaneBit ==
  ASSUME NEW file, file \in VecFile, NEW v, OnLanes(v), v.op \in {"VADD", "VSUB"},
         NEW j, j \in {0, 1}, NEW c, c \in 0 .. 63
  PROVE  BitOfHalf(file, v, j, c)
<1> DEFINE n == v.arr.bits   b == 64 * j + c   s == n * (c \div n)   t == n * (b \div n)
           x == ReadLane(file, v.vn, j, 64)   y == ReadLane(file, v.vm, j, 64)   op == v.op
<1>1. n \in LaneBits
  BY LanePlaces DEF OnLanes, LaneNumbers
<1>2. op \in {"VADD", "VSUB"}
  OBVIOUS
<1>3. LaneOf(file, v, b \div n) = LaneResult(op, Slice(file[v.vn], t + n - 1, t), Slice(file[v.vm], t + n - 1, t), n)
  <2> DEFINE k == b \div n
  <2>1. LaneOf(file, v, k) = LaneResult(op, ReadLane(file, v.vn, k, n), ReadLane(file, v.vm, k, n), n)
    BY DEF LaneOf
  <2>2. \A r : ReadLane(file, r, k, n) = Slice(file[r], n * k + n - 1, n * k)
    BY DEF ReadLane
  <2> HIDE DEF n, op, k
  <2>3. QED
    BY <2>1, <2>2 DEF k
<1>4. x = Slice(file[v.vn], 64 * j + 64 - 1, 64 * j) /\ y = Slice(file[v.vm], 64 * j + 64 - 1, 64 * j)
  BY DEF ReadLane
<1> HIDE DEF n, x, y, op
<1>5. (b % n) = (c % n) /\ t = 64 * j + s /\ s \in Nat /\ s + n <= 64 /\ n \in Nat /\ t \in Nat
  <2>1. CASE n = 8
    BY <2>1
  <2>2. CASE n = 16
    BY <2>2
  <2>3. CASE n = 32
    BY <2>3
  <2>4. CASE n = 64
    BY <2>4
  <2>5. QED
    BY <1>1, <2>1, <2>2, <2>3, <2>4 DEF LaneBits
<1> HIDE DEF b, s, t
<1>6. ASSUME NEW w PROVE Slice(Slice(w, 64 * j + 64 - 1, 64 * j), s + n - 1, s) = Slice(w, t + n - 1, t)
  <2>1. \A k : k \in Slice(w, 64 * j + 64 - 1, 64 * j) <=> k \in 0 .. 63 /\ k + 64 * j \in w
    <3>1. (64 * j + 64 - 1) - 64 * j = 63
      OBVIOUS
    <3>2. QED
      BY <3>1, SliceBits
  <2>2. \A u : \A k : k \in Slice(u, s + n - 1, s) <=> k \in 0 .. n - 1 /\ k + s \in u
    <3>1. (s + n - 1) - s = n - 1
      BY <1>5
    <3>2. QED
      BY <1>5, <3>1, SliceBits
  <2>3. \A k : k \in Slice(w, t + n - 1, t) <=> k \in 0 .. n - 1 /\ k + t \in w
    <3>1. (t + n - 1) - t = n - 1
      BY <1>5
    <3>2. QED
      BY <1>5, <3>1, SliceBits
  <2>4. \A k \in 0 .. n - 1 : k + s \in 0 .. 63 /\ (k + s) + 64 * j = k + t
    BY <1>5
  <2>5. \A k : k \in Slice(Slice(w, 64 * j + 64 - 1, 64 * j), s + n - 1, s) <=> k \in Slice(w, t + n - 1, t)
    <3> DEFINE u == Slice(w, 64 * j + 64 - 1, 64 * j)
    <3> HIDE DEF u
    <3>1. \A k : k \in Slice(u, s + n - 1, s) <=> k \in 0 .. n - 1 /\ k + s \in u
      BY <2>2
    <3>2. QED
      BY <2>1, <2>3, <2>4, <3>1 DEF u
  <2>6. QED
    BY <2>5
<1>7. c \in Together(op, x, y, n) <=> (c % n) \in LaneResult(op, Slice(x, s + n - 1, s), Slice(y, s + n - 1, s), n)
  <2>1. x \in SUBSET Ones(64) /\ y \in SUBSET Ones(64)
    <3>1. \A w : \A k \in Slice(w, 64 * j + 64 - 1, 64 * j) : k \in 0 .. 63
      <4>1. (64 * j + 64 - 1) - 64 * j = 63
        OBVIOUS
      <4>2. QED
        BY <4>1, SliceBits
    <3>2. QED
      BY <1>4, <3>1 DEF Ones
  <2>2. QED
    BY <1>1, <1>2, <2>1, TogetherBits DEF s
<1>8. /\ Slice(x, s + n - 1, s) = Slice(file[v.vn], t + n - 1, t)
      /\ Slice(y, s + n - 1, s) = Slice(file[v.vm], t + n - 1, t)
  BY <1>4, <1>6
<1>9. (b % n) \in LaneOf(file, v, b \div n) <=> c \in Together(op, x, y, n)
  BY <1>3, <1>5, <1>7, <1>8
<1>10. QED
  BY <1>9 DEF BitOfHalf, b, n, x, y, op

\* A vector sum or difference: its two halves, taken together, or one of them.
Halves(file, op, vn, vm, arr, j) == Together(op, ReadLane(file, vn, j, 64), ReadLane(file, vm, j, 64), arr.bits)

WithSum(file, op, vd, vn, vm, arr) ==
  [file EXCEPT ![vd] = IF IsHalf(arr) THEN Halves(file, op, vn, vm, arr, 0)
                       ELSE Halves(file, op, vn, vm, arr, 0)
                              \cup Shl(Halves(file, op, vn, vm, arr, 1), 64, 128)]

\* What such a sum takes, and that it is what the loop leaves.
Summable(file, op, vd, vn, vm, arr) ==
  file \in VecFile /\ op \in {"VADD", "VSUB"} /\ {vd, vn, vm} \subseteq 0 .. 31 /\ Arrangement(arr)
IsSum(file, op, vd, vn, vm, arr) == ThreeSame(file, op, vd, vn, vm, arr) = WithSum(file, op, vd, vn, vm, arr)

LEMMA SumOfLanes ==
  ASSUME NEW file, NEW op, NEW vd, NEW vn, NEW vm, NEW arr, Summable(file, op, vd, vn, vm, arr)
  PROVE  IsSum(file, op, vd, vn, vm, arr)
<1> SUFFICES ASSUME file \in VecFile, vd \in 0 .. 31, vn \in 0 .. 31, vm \in 0 .. 31,
                    op \in {"VADD", "VSUB"}, Arrangement(arr)
             PROVE  ThreeSame(file, op, vd, vn, vm, arr) = WithSum(file, op, vd, vn, vm, arr)
  BY DEF Summable, IsSum
<1> DEFINE v == [op |-> op, vn |-> vn, vm |-> vm, arr |-> arr]
           lower == Halves(file, op, vn, vm, arr, 0)
           upper == Halves(file, op, vn, vm, arr, 1)
           n == arr.bits   e == n * arr.lanes
           word == FirstLanes(file, vd, v, arr.lanes)
           after == AfterLanes(file, vd, v, arr.lanes)
<1>1. ThreeSame(file, op, vd, vn, vm, arr) = EachLane(file, vd, v)
  BY DEF ThreeSame, HasCase, FloatOps
<1>2. OnLanes(v) /\ v.op = op /\ v.vn = vn /\ v.vm = vm /\ v.arr = arr
  BY DEF OnLanes
<1>3. EachLane(file, vd, v) = ClearUpper(after, vd, arr) /\ after \in VecFile
  BY <1>2, LoopIs, LanesStay
<1>4. after = [file EXCEPT ![vd] = word]
  BY <1>2 DEF AfterLanes
<1>5. ASSUME NEW j \in {0, 1}, NEW c \in 0 .. 63
      PROVE  ((64 * j + c) % n) \in LaneOf(file, v, (64 * j + c) \div n) <=> c \in Halves(file, op, vn, vm, arr, j)
  <2>1. ((64 * j + c) % v.arr.bits) \in LaneOf(file, v, (64 * j + c) \div v.arr.bits)
          <=> c \in Together(v.op, ReadLane(file, v.vn, j, 64), ReadLane(file, v.vm, j, 64), v.arr.bits)
    <3> HIDE DEF v
    <3>1. file \in VecFile /\ OnLanes(v) /\ v.op \in {"VADD", "VSUB"} /\ j \in {0, 1} /\ c \in 0 .. 63
      BY <1>2
    <3>2. BitOfHalf(file, v, j, c)
      BY <3>1, LaneBit, Zenon
    <3>3. QED
      BY <3>2, Zenon DEF BitOfHalf
  <2> HIDE DEF v
  <2>2. QED
    BY <1>2, <2>1 DEF Halves
<1>6. \A b : b \in word <=> (b \in file[vd] /\ b >= e) \/ (b \in 0 .. e - 1 /\ (b % n) \in LaneOf(file, v, b \div n))
  <2> HIDE DEF v
  <2>1. QED
    BY <1>2 DEF FirstLanes, FirstPlaces
<1>7. e \in {64, 128} /\ (IsHalf(arr) <=> e = 64)
  BY LanePlaces DEF IsHalf, LaneNumbers
<1>8. file[vd] \subseteq 0 .. 127
  BY FileWords
<1>9. \A j \in {0, 1} : Halves(file, op, vn, vm, arr, j) \in SUBSET (0 .. 63)
  <2> SUFFICES ASSUME NEW j \in {0, 1} PROVE Halves(file, op, vn, vm, arr, j) \in SUBSET (0 .. 63)
    OBVIOUS
  <2>1. \A x, y : Together(op, x, y, n) \in SUBSET Ones(64)
    <3>1. \A x, y : Add(x, y, 64) \in SUBSET Ones(64) /\ Sub(x, y, 64) \in SUBSET Ones(64)
      BY DEF Add, Sub, Low, Not
    <3>2. QED
      <4> SUFFICES ASSUME NEW x, NEW y PROVE Together(op, x, y, n) \in SUBSET Ones(64)
        OBVIOUS
      <4> DEFINE top == {b \in Ones(64) : b % n = n - 1}
      <4>1. top \in SUBSET Ones(64)
        OBVIOUS
      <4>2. Together(op, x, y, n) = IF op = "VADD" THEN Xor(Add(x \ top, y \ top, 64), Xor(x, y) \cap top)
                                    ELSE Xor(Sub(x \cup top, y \ top, 64), Xor(x, Not(y, 64)) \cap top)
        BY DEF Together
      <4>3. /\ Add(x \ top, y \ top, 64) \in SUBSET Ones(64)
            /\ Sub(x \cup top, y \ top, 64) \in SUBSET Ones(64)
        BY <3>1
      <4> DEFINE sum == Add(x \ top, y \ top, 64)   difference == Sub(x \cup top, y \ top, 64)
                 p == Xor(x, y)   q == Xor(x, Not(y, 64))
      <4> HIDE DEF top, sum, difference, p, q
      <4>4. Xor(sum, p \cap top) \in SUBSET Ones(64) /\ Xor(difference, q \cap top) \in SUBSET Ones(64)
        BY <4>1, <4>3 DEF Xor, sum, difference
      <4>5. QED
        BY <4>2, <4>4 DEF sum, difference, p, q
  <2>2. QED
    BY <2>1 DEF Halves, Ones
<1>10. \A b : b \in Shl(upper, 64, 128) <=> b \in 0 .. 127 /\ b - 64 \in upper
  <2>1. upper \subseteq Int
    BY <1>9
  <2> HIDE DEF upper
  <2>2. ASSUME NEW k \in Nat, NEW m \in Nat, k = 64, m = 128
        PROVE  \A b : b \in Shl(upper, k, m) <=> b \in 0 .. 127 /\ b - k \in upper
    <3>1. m - 1 = 127
      BY <2>2
    <3>2. \A b : b \in Shl(upper, k, m) <=> b \in 0 .. m - 1 /\ b - k \in upper
      BY <2>1, ShlBits
    <3>3. QED
      BY <3>1, <3>2, Zenon
  <2>3. QED
    BY <2>2, Zenon
<1>11. ASSUME NEW b \in 0 .. 127
       PROVE  (b % n) \in LaneOf(file, v, b \div n) <=> IF b < 64 THEN b \in lower ELSE b - 64 \in upper
  <2>1. CASE b < 64
    <3>1. b \in 0 .. 63 /\ 64 * 0 + b = b
      BY <2>1
    <3>2. ((64 * 0 + b) % n) \in LaneOf(file, v, (64 * 0 + b) \div n) <=> b \in lower
      BY <1>5, <3>1
    <3> HIDE DEF lower, upper, n, v
    <3>3. QED
      BY <2>1, <3>1, <3>2
  <2>2. CASE b >= 64
    <3>1. b - 64 \in 0 .. 63 /\ 64 * 1 + (b - 64) = b
      BY <2>2
    <3>2. ((64 * 1 + (b - 64)) % n) \in LaneOf(file, v, (64 * 1 + (b - 64)) \div n) <=> b - 64 \in upper
      BY <1>5, <3>1
    <3> HIDE DEF lower, upper, n, v
    <3>3. QED
      BY <2>2, <3>1, <3>2
  <2>3. QED
    BY <2>1, <2>2
<1>12. lower \in SUBSET (0 .. 63) /\ upper \in SUBSET (0 .. 63)
  BY <1>9
<1> HIDE DEF v, lower, upper, n, e, word, after
<1>13. CASE IsHalf(arr)
  <2>1. e = 64
    BY <1>7, <1>13
  <2>2. \A b : b \in word <=> (b \in file[vd] /\ b >= 64) \/ b \in lower
    <3> SUFFICES ASSUME NEW b PROVE b \in word <=> (b \in file[vd] /\ b >= 64) \/ b \in lower
      OBVIOUS
    <3>1. b \in word <=> (b \in file[vd] /\ b >= 64) \/ (b \in 0 .. 63 /\ (b % n) \in LaneOf(file, v, b \div n))
      BY <1>6, <2>1
    <3>2. CASE b \in 0 .. 63
      <4>1. b \in 0 .. 127 /\ b < 64
        BY <3>2
      <4>2. QED
        BY <1>11, <3>1, <3>2, <4>1
    <3>3. CASE b \notin 0 .. 63
      <4>1. b \notin lower
        BY <1>12, <3>3
      <4>2. QED
        BY <3>1, <3>3, <4>1
    <3>4. QED
      BY <3>2, <3>3
  <2>3. EachLane(file, vd, v) = WriteLane(after, vd, 1, 64, {})
    BY <1>3, <1>13 DEF ClearUpper
  <2>4. PICK w \in SUBSET Ones(128) : WithLane(after, vd, 1, 64, 64, {}, w)
    <3>1. 64 = 64 * 1 /\ 64 \in Nat /\ 1 \in Nat
      OBVIOUS
    <3>2. QED
      BY <1>3, <3>1, WriteLaneBits, Zenon
  <2>5. after[vd] = word
    BY <1>4 DEF VecFile
  <2>6. \A b \in 0 .. 127 : b \in w <=> b \in lower
    BY <1>12, <2>2, <2>4, <2>5 DEF WithLane
  <2>7. w = lower
    <3>1. w \subseteq 0 .. 127
      <4>1. Ones(128) = 0 .. 127
        BY DEF Ones
      <4>2. QED
        BY <4>1
    <3>2. 0 .. 63 \subseteq 0 .. 127
      OBVIOUS
    <3>3. lower \subseteq 0 .. 127
      BY <1>12, <3>2
    <3>4. QED
      BY <2>6, <3>1, <3>3
  <2>8. EachLane(file, vd, v) = [file EXCEPT ![vd] = lower]
    BY <1>4, <2>3, <2>4, <2>7 DEF WithLane, VecFile
  <2>9. QED
    BY <1>1, <1>13, <2>8 DEF WithSum, lower
<1>14. CASE ~IsHalf(arr)
  <2>1. e = 128
    BY <1>7, <1>14
  <2>2. \A b : b \in word <=> b \in 0 .. 127 /\ IF b < 64 THEN b \in lower ELSE b - 64 \in upper
    BY <1>6, <1>8, <1>11, <2>1
  <2>3. word = lower \cup Shl(upper, 64, 128)
    <3>1. \A b : b \in word <=> b \in lower \/ b \in Shl(upper, 64, 128)
      <4> SUFFICES ASSUME NEW b PROVE b \in word <=> b \in lower \/ b \in Shl(upper, 64, 128)
        OBVIOUS
      <4>1. CASE b \in 0 .. 63
        <5>1. b \in 0 .. 127 /\ b < 64 /\ b - 64 \notin upper
          BY <1>12, <4>1
        <5>2. QED
          BY <1>10, <2>2, <5>1
      <4>2. CASE b \in 64 .. 127
        <5>1. b \in 0 .. 127 /\ ~(b < 64) /\ b \notin lower
          BY <1>12, <4>2
        <5>2. QED
          BY <1>10, <2>2, <5>1
      <4>3. CASE b \notin 0 .. 127
        <5>1. b \notin 0 .. 63
          BY <4>3
        <5>2. b \notin lower
          BY <1>12, <5>1
        <5>3. QED
          BY <1>10, <2>2, <4>3, <5>2
      <4>4. b \in 0 .. 127 => b \in 0 .. 63 \/ b \in 64 .. 127
        OBVIOUS
      <4>5. QED
        BY <4>1, <4>2, <4>3, <4>4
    <3>2. QED
      BY <3>1
  <2>4. EachLane(file, vd, v) = after
    BY <1>3, <1>14 DEF ClearUpper
  <2>5. QED
    BY <1>1, <1>4, <1>14, <2>3, <2>4 DEF WithSum, lower, upper
<1>15. QED
  BY <1>13, <1>14

\* A decoded vector instruction names vector registers and one of the arrangements.
VectorForm(i) ==
  /\ Arrangement(i.arr)
  /\ i.op \in {"VADD", "VSUB"} => i.fmt = "SIMDReg"
  /\ i.fmt \in {"SIMDReg", "SIMDCopy", "SIMDLoadStore"} => i.rd \in 0 .. 31
  /\ i.fmt = "SIMDReg" => i.rn \in 0 .. 31 /\ i.rm \in 0 .. 31

LEMMA DecodedVectors ==
  ASSUME NEW w
  PROVE  VectorForm(Decode(w))
<1>1. /\ Field(w, 23, 22) \in 0 .. 3 /\ Field(w, 22, 21) \in 0 .. 3 /\ Field(w, 30, 29) \in 0 .. 3
      /\ Field(w, 31, 30) \in 0 .. 3
  BY TwoBits
<1>2. Rd(w) \in 0 .. 31 /\ Rn(w) \in 0 .. 31 /\ Rm(w) \in 0 .. 31
  BY FiveBits DEF Rd, Rn, Rm
<1>3. ASSUME NEW n \in LaneBits, NEW isQ \in BOOLEAN PROVE Arrangement(Arr(n, isQ))
  BY DEF Arrangement, Arr
<1>4. /\ Arrangement(Arr(8, FALSE)) /\ Arrangement(Arr(8, TRUE)) /\ Arrangement(Arr(32, FALSE))
      /\ \A k \in 0 .. 3, isQ \in BOOLEAN : Arrangement(Arr(8 * 2^k, isQ))
  <2>1. \A k \in 0 .. 3 : 8 * 2^k \in LaneBits
    <3>1. 2^0 = 1 /\ 2^1 = 2 /\ 2^2 = 4 /\ 2^3 = 8
      BY SMT
    <3>2. 8 * 2^0 = 8 /\ 8 * 2^1 = 16 /\ 8 * 2^2 = 32 /\ 8 * 2^3 = 64
      BY <3>1
    <3>3. \A k \in 0 .. 3 : k = 0 \/ k = 1 \/ k = 2 \/ k = 3
      OBVIOUS
    <3>4. QED
      BY <3>2, <3>3 DEF LaneBits
  <2>2. 8 \in LaneBits /\ 32 \in LaneBits
    BY DEF LaneBits
  <2> HIDE DEF Arrangement, Arr
  <2>3. QED
    BY <1>3, <2>1, <2>2
<1> DEFINE short == Arr(8, FALSE)
<1>40. Arrangement(short)
  BY <1>4
<1>41. Unknown =
        [op |-> "Unknown", fmt |-> "Unknown", is64 |-> FALSE, setFlags |-> FALSE,
         rd |-> 0, rn |-> 0, rm |-> 0, rt2 |-> 0, imm |-> {}, imm2 |-> {}, shift |-> 0,
         offset |-> {}, cond |-> 0, shiftType |-> 0, shiftAmount |-> 0,
         index |-> "none", signedImm |-> {}, sysReg |-> {}, arr |-> short]
  BY Zenon DEF Unknown
<1> HIDE DEF Arrangement, short
<1>5. VectorForm(Unknown) /\ VectorForm([Unknown EXCEPT !.op = "NOP"])
  BY <1>4 DEF VectorForm, Unknown
<1>6. VectorForm(DecodeSIMDLoadStore(w))
  BY <1>1, <1>2, <1>4 DEF VectorForm, Unknown, DecodeSIMDLoadStore
<1>7. VectorForm(DecodeSIMDCopy(w))
  <2> DEFINE d == DecodeSIMDCopy(w)   isQ == 30 \in w
             size == IF 16 \in w THEN 0 ELSE IF 17 \in w THEN 1 ELSE IF 18 \in w THEN 2 ELSE 3
             lanes == Arr(8 * 2^size, isQ)
  <2>1. Arrangement(lanes)
    <3>1. size \in 0 .. 3 /\ isQ \in BOOLEAN
      OBVIOUS
    <3> HIDE DEF size, isQ
    <3>2. QED
      BY <1>4, <3>1, Zenon
  <2>2. d.fmt = "SIMDCopy" /\ d.rd = Rd(w) /\ d.op \in {"DUP", "Unknown"}
    BY DEF DecodeSIMDCopy, Unknown
  <2>3. d.arr = lanes \/ d.arr = short
    BY DEF DecodeSIMDCopy, Unknown, short
  <2> HIDE DEF d, lanes
  <2>4. VectorForm(d)
    BY <1>2, <1>40, <2>1, <2>2, <2>3 DEF VectorForm
  <2>5. QED
    BY <2>4 DEF d
<1>8. VectorForm(DecodeLoadStorePair(w))
  BY <1>1, <1>2, <1>4 DEF VectorForm, Unknown, DecodeLoadStorePair
<1>9. VectorForm(DecodeDataProcessingImm(w))
  BY <1>1, <1>2, <1>4 DEF VectorForm, Unknown, DecodeDataProcessingImm
<1>10. VectorForm(DecodeSIMDThreeSame(w))
  <2> DEFINE d == DecodeSIMDThreeSame(w)   size == Field(w, 23, 22)   isQ == 30 \in w
  <2>1. /\ d.fmt = "SIMDReg" /\ d.rd = Rd(w) /\ d.rn = Rn(w) /\ d.rm = Rm(w)
        /\ d.arr = GetSIMDArrangement(isQ, size)
    BY DEF DecodeSIMDThreeSame, Unknown
  <2>2. Arrangement(GetSIMDArrangement(isQ, size))
    <3>1. size \in 0 .. 3 /\ isQ \in BOOLEAN
      BY <1>1
    <3>2. Arrangement(Arr(8, TRUE)) /\ Arrangement(Arr(8 * 2^size, isQ))
      <4> HIDE DEF size, isQ
      <4>1. QED
        BY <1>4, <3>1, Zenon
    <3>3. GetSIMDArrangement(isQ, size) = IF ~isQ /\ size = 3 THEN Arr(8, TRUE) ELSE Arr(8 * 2^size, isQ)
      BY Zenon DEF GetSIMDArrangement
    <3>4. QED
      BY <3>2, <3>3, Zenon
  <2> HIDE DEF d
  <2>3. VectorForm(d)
    BY <1>2, <2>1, <2>2 DEF VectorForm
  <2>4. QED
    BY <2>3 DEF d
<1>11. VectorForm(DecodePCRelAddressing(w))
  BY <1>1, <1>2, <1>4 DEF VectorForm, Unknown, DecodePCRelAddressing
<1>12. VectorForm(DecodeCondCmp(w))
  BY <1>1, <1>2, <1>4 DEF VectorForm, Unknown, DecodeCondCmp
<1>13. VectorForm(DecodeConditionalSelect(w))
  BY <1>1, <1>2, <1>4 DEF VectorForm, Unknown, DecodeConditionalSelect
<1>14. VectorForm(DecodeDataProc2Src(w))
  BY <1>1, <1>2, <1>4 DEF VectorForm, Unknown, DecodeDataProc2Src
<1>15. VectorForm(DecodeDataProc3Src(w))
  BY <1>1, <1>2, <1>4 DEF VectorForm, Unknown, DecodeDataProc3Src
<1>16. VectorForm(DecodeExtract(w))
  BY <1>1, <1>2, <1>4 DEF VectorForm, Unknown, DecodeExtract
<1>17. VectorForm(DecodeTestBranch(w))
  BY <1>1, <1>2, <1>4 DEF VectorForm, Unknown, DecodeTestBranch
<1>18. VectorForm(DecodeCompareBranch(w))
  BY <1>1, <1>2, <1>4 DEF VectorForm, Unknown, DecodeCompareBranch
<1>19. VectorForm(DecodeException(w))
  BY <1>1, <1>2, <1>4 DEF VectorForm, Unknown, DecodeException
<1>20. VectorForm(DecodeSystemReg(w))
  BY <1>1, <1>2, <1>4 DEF VectorForm, Unknown, DecodeSystemReg
<1>21. VectorForm(DecodeLoadStoreLiteral(w))
  BY <1>1, <1>2, <1>4 DEF VectorForm, Unknown, DecodeLoadStoreLiteral, WithOffset
<1>22. VectorForm(DecodeBranchImm(w))
  BY <1>1, <1>2, <1>4 DEF VectorForm, Unknown, DecodeBranchImm, WithOffset
<1>23. VectorForm(DecodeBranchCond(w))
  BY <1>1, <1>2, <1>4 DEF VectorForm, Unknown, DecodeBranchCond, WithOffset
<1>24. VectorForm(DecodeLoadStoreRegOffset(w))
  BY <1>1, <1>40, <1>41 DEF VectorForm, DecodeLoadStoreRegOffset, SizedAccess
<1>25. VectorForm(DecodeLoadStoreRegIndexed(w))
  BY <1>1, <1>40, <1>41 DEF VectorForm, DecodeLoadStoreRegIndexed, SizedAccess
<1>26. VectorForm(DecodeLoadStoreImm(w))
  BY <1>1, <1>40, <1>41 DEF VectorForm, DecodeLoadStoreImm
<1>27. VectorForm(DecodeMoveWide(w))
  BY <1>1, <1>40, <1>41 DEF VectorForm, DecodeMoveWide
<1>28. VectorForm(DecodeLogicalImm(w))
  BY <1>1, <1>40, <1>41 DEF VectorForm, DecodeLogicalImm
<1>29. VectorForm(DecodeBitfield(w))
  BY <1>1, <1>40, <1>41 DEF VectorForm, DecodeBitfield
<1>30. VectorForm(DecodeBranchReg(w))
  BY <1>1, <1>40, <1>41 DEF VectorForm, DecodeBranchReg
<1>31. VectorForm(DecodeDataProcessingReg(w))
  BY <1>1, <1>40, <1>41 DEF VectorForm, DecodeDataProcessingReg
<1>32. QED
  BY <1>5, <1>6, <1>7, <1>8, <1>9, <1>10, <1>11, <1>12, <1>13, <1>14, <1>15, <1>16, <1>17, <1>18, <1>19, <1>20, <1>21, <1>22, <1>23, <1>24, <1>25, <1>26, <1>27, <1>28, <1>29, <1>30, <1>31 DEF Decode

LEMMA InstructionsHaveVectors ==
  ASSUME NEW p \in Programs, NEW addr
  PROVE  VectorForm(InstAt(p, addr))
<1>1. VectorForm(Unknown)
  <2>1. 8 \in LaneBits /\ 64 \div 8 = 8
    BY DEF LaneBits
  <2>2. QED
    BY <2>1 DEF VectorForm, Unknown, Arrangement, Arr
<1>2. ASSUME addr \in DOMAIN p PROVE Decoded[p[addr]] = Decode(p[addr])
  BY <1>2 DEF Decoded
<1>3. QED
  BY <1>1, <1>2, DecodedVectors DEF InstAt

\* A whole state with the vector registers v.
HasVectors(b, v) == IsState(b) /\ b.vec = v

\* Only vector instructions write vector registers.
LEMMA VectorsAreKept ==
  ASSUME NEW a, NEW v, HasVectors(a, v), NEW i, HasForm(i), i.fmt \notin {"SIMDReg", "SIMDCopy", "SIMDLoadStore"}
  PROVE  HasVectors(Execute(a, i), v)
<1>0. \A b, u : HasVectors(b, v) =>
        /\ HasVectors([b EXCEPT !.pc = u], v) /\ HasVectors([b EXCEPT !.sp = u], v)
        /\ HasVectors([b EXCEPT !.fl = u], v) /\ HasVectors([b EXCEPT !.mem = u], v)
        /\ HasVectors([b EXCEPT !.status = u], v) /\ HasVectors([b EXCEPT !.code = u], v)
        /\ IsRegFile(u) => HasVectors([b EXCEPT !.regs = u], v)
  BY DEF HasVectors, IsState
<1>1. \A b, r, u : HasVectors(b, v) => HasVectors(WriteReg(b, r, u), v) /\ HasVectors(WriteRegOrSP(b, r, u), v)
  <2> SUFFICES ASSUME NEW b, HasVectors(b, v), NEW r, NEW u
               PROVE  HasVectors(WriteReg(b, r, u), v) /\ HasVectors(WriteRegOrSP(b, r, u), v)
    OBVIOUS
  <2>1. IsRegFile([b.regs EXCEPT ![r] = u])
    BY DEF HasVectors, IsState, IsRegFile
  <2>2. HasVectors([b EXCEPT !.regs = [b.regs EXCEPT ![r] = u]], v) /\ HasVectors([b EXCEPT !.sp = u], v)
    BY <1>0, <2>1
  <2>3. QED
    BY <2>2 DEF WriteReg, WriteRegOrSP
<1>2. \A b, fl : HasVectors(b, v) => HasVectors(Flagged(b, i, fl), v) /\ HasVectors([b EXCEPT !.fl = fl], v)
  BY <1>0 DEF Flagged
<1>3. \A b, u : HasVectors(b, v) => HasVectors([b EXCEPT !.mem = u], v) /\ HasVectors([b EXCEPT !.pc = u], v)
  BY <1>0
<1>4. \A b, code : HasVectors(b, v) => /\ HasVectors(Skip(b), v) /\ HasVectors(Jump(b, i), v)
                                       /\ HasVectors(Link(b), v) /\ HasVectors(Stop(b, code), v)
  <2> SUFFICES ASSUME NEW b, HasVectors(b, v), NEW code
               PROVE  /\ HasVectors(Skip(b), v) /\ HasVectors(Jump(b, i), v)
                      /\ HasVectors(Link(b), v) /\ HasVectors(Stop(b, code), v)
    OBVIOUS
  <2>1. HasVectors(Skip(b), v) /\ HasVectors(Jump(b, i), v)
    BY <1>0 DEF Skip, Jump
  <2>2. HasVectors(Link(b), v)
    BY <1>1 DEF Link
  <2> DEFINE c == [b EXCEPT !.status = "exited"]
  <2>3. HasVectors(c, v)
    BY <1>0
  <2>4. Stop(b, code) = [c EXCEPT !.code = code]
    BY DEF Stop
  <2> HIDE DEF c
  <2>5. HasVectors([c EXCEPT !.code = code], v)
    BY <1>0, <2>3
  <2>6. HasVectors(Stop(b, code), v)
    BY <2>4, <2>5, Zenon
  <2>7. QED
    BY <2>1, <2>2, <2>6
<1>5. \A b : HasVectors(b, v) => HasVectors(BaseWriteback(a, b, i), v)
  BY <1>1 DEF BaseWriteback
<1> HIDE DEF HasVectors
<1>6. HasVectors(Skip(ExecuteDPImm(a, i)), v)
  <2>1. HasVectors(ExecuteDPImm(a, i), v)
    BY <1>1, <1>2 DEF ExecuteDPImm
  <2>2. QED
    BY <1>4, <2>1
<1>7. HasVectors(Skip(ExecuteDPReg(a, i)), v)
  <2>1. HasVectors(ExecuteDPReg(a, i), v)
    BY <1>1, <1>2 DEF ExecuteDPReg
  <2>2. QED
    BY <1>4, <2>1
<1>8. HasVectors(Skip(ExecuteLogicalImm(a, i)), v)
  <2>1. HasVectors(ExecuteLogicalImm(a, i), v)
    BY <1>1, <1>2 DEF ExecuteLogicalImm
  <2>2. QED
    BY <1>4, <2>1
<1>9. HasVectors(Skip(ExecuteBitfield(a, i)), v)
  <2>1. HasVectors(ExecuteBitfield(a, i), v)
    BY <1>1 DEF ExecuteBitfield
  <2>2. QED
    BY <1>4, <2>1
<1>10. HasVectors(Skip(ExecuteExtract(a, i)), v)
  <2>1. HasVectors(ExecuteExtract(a, i), v)
    BY <1>1 DEF ExecuteExtract
  <2>2. QED
    BY <1>4, <2>1
<1>11. HasVectors(Skip(ExecuteMoveWide(a, i)), v)
  <2>1. HasVectors(ExecuteMoveWide(a, i), v)
    BY <1>1 DEF ExecuteMoveWide
  <2>2. QED
    BY <1>4, <2>1
<1>12. HasVectors(Skip(ExecuteCondSelect(a, i)), v)
  <2>1. HasVectors(ExecuteCondSelect(a, i), v)
    BY <1>1 DEF ExecuteCondSelect
  <2>2. QED
    BY <1>4, <2>1
<1>13. HasVectors(Skip(ExecuteCondCmp(a, i)), v)
  <2>1. HasVectors(ExecuteCondCmp(a, i), v)
    BY <1>2 DEF ExecuteCondCmp
  <2>2. QED
    BY <1>4, <2>1
<1>14. HasVectors(Skip(ExecuteDataProc2Src(a, i)), v)
  <2>1. HasVectors(ExecuteDataProc2Src(a, i), v)
    BY <1>1 DEF ExecuteDataProc2Src
  <2>2. QED
    BY <1>4, <2>1
<1>15. HasVectors(Skip(ExecuteDataProc3Src(a, i)), v)
  <2>1. HasVectors(ExecuteDataProc3Src(a, i), v)
    BY <1>1 DEF ExecuteDataProc3Src
  <2>2. QED
    BY <1>4, <2>1
<1>16. HasVectors(Skip(ExecutePCRel(a, i)), v)
  <2>1. HasVectors(ExecutePCRel(a, i), v)
    BY <1>1 DEF ExecutePCRel
  <2>2. QED
    BY <1>4, <2>1
<1>17. HasVectors(Skip(ExecuteMRS(a, i)), v)
  <2>1. HasVectors(ExecuteMRS(a, i), v)
    BY <1>1 DEF ExecuteMRS
  <2>2. QED
    BY <1>4, <2>1
<1>18. HasVectors(Skip(ExecuteLoadStore(a, i)), v)
  <2>1. HasVectors(ExecuteLoadStore(a, i), v)
    BY <1>1, <1>3, <1>5 DEF ExecuteLoadStore
  <2>2. QED
    BY <1>4, <2>1
<1>19. HasVectors(Skip(ExecuteLoadStorePair(a, i)), v)
  <2>1. HasVectors(ExecuteLoadStorePair(a, i), v)
    BY <1>1, <1>3, <1>5 DEF ExecuteLoadStorePair
  <2>2. QED
    BY <1>4, <2>1
<1>20. HasVectors(Skip(ExecuteLoadStoreLit(a, i)), v)
  <2>1. HasVectors(ExecuteLoadStoreLit(a, i), v)
    BY <1>1 DEF ExecuteLoadStoreLit
  <2>2. QED
    BY <1>4, <2>1
<1>21. HasVectors(ExecuteBranch(a, i), v)
  BY <1>4 DEF ExecuteBranch
<1>22. HasVectors(ExecuteBranchCond(a, i), v)
  BY <1>4 DEF ExecuteBranchCond
<1>23. HasVectors(ExecuteBranchReg(a, i), v)
  BY <1>3, <1>4 DEF ExecuteBranchReg
<1>24. HasVectors(ExecuteTestBranch(a, i), v)
  BY <1>4 DEF ExecuteTestBranch
<1>25. HasVectors(ExecuteCompareBranch(a, i), v)
  BY <1>4 DEF ExecuteCompareBranch
<1>26. \A b : HasVectors(b, v) => HasVectors(Handle(b), v)
  BY <1>1, <1>4 DEF Handle
<1>27. HasVectors(Stop(a, Failed), v) /\ HasVectors(Handle(Skip(a)), v) /\ HasVectors(Skip(a), v)
  BY <1>4, <1>26
<1>28. QED
  BY <1>6, <1>7, <1>8, <1>9, <1>10, <1>11, <1>12, <1>13, <1>14, <1>15, <1>16, <1>17, <1>18, <1>19, <1>20, <1>21, <1>22, <1>23, <1>24, <1>25, <1>27 DEF Execute, HasForm, Formats

LEMMA VectorsStayWords ==
  ASSUME NEW a, IsState(a), a.vec \in VecFile, NEW i, HasForm(i), HasOperation(i), VectorForm(i)
  PROVE  Execute(a, i).vec \in VecFile
<1>1. ASSUME NEW b, IsState(b), NEW file
      PROVE  /\ [b EXCEPT !.vec = file].vec = file /\ Skip([b EXCEPT !.vec = file]).vec = file
             /\ \A u : Skip([b EXCEPT !.mem = u]).vec = b.vec
             /\ Skip(b).vec = b.vec /\ Stop(b, Failed).vec = b.vec
  BY <1>1 DEF IsState, Skip, Stop
<1>2. CASE i.fmt = "SIMDReg"
  <2> DEFINE v == [op |-> i.op, vn |-> i.rn, vm |-> i.rm, arr |-> i.arr]
  <2>1. OnLanes(v)
    BY <1>2 DEF OnLanes, VectorForm
  <2>2. i.rd \in 0 .. 31
    BY <1>2 DEF VectorForm
  <2>3. ThreeSame(a.vec, i.op, i.rd, i.rn, i.rm, i.arr) \in {a.vec, EachLane(a.vec, i.rd, v)}
    BY DEF ThreeSame
  <2> HIDE DEF v
  <2>4. ThreeSame(a.vec, i.op, i.rd, i.rn, i.rm, i.arr) \in VecFile
    BY <2>1, <2>2, <2>3, LanesStay
  <2>5. Execute(a, i) \in {Stop(a, Failed), Skip(ExecuteSIMDReg(a, i))}
    BY <1>2 DEF Execute, HasOperation, Formats
  <2>6. Skip(ExecuteSIMDReg(a, i)).vec = ThreeSame(a.vec, i.op, i.rd, i.rn, i.rm, i.arr)
    BY <1>1 DEF ExecuteSIMDReg
  <2>7. QED
    BY <1>1, <2>4, <2>5, <2>6
<1>3. CASE i.fmt = "SIMDCopy"
  <2> DEFINE v == [op |-> "DUP", scalar |-> ReadReg(a, i.rn), arr |-> i.arr]
  <2>1. OnLanes(v)
    BY <1>3 DEF OnLanes, VectorForm
  <2>2. i.rd \in 0 .. 31
    BY <1>3 DEF VectorForm
  <2>3. DUP(a.vec, i.rd, ReadReg(a, i.rn), i.arr) = EachLane(a.vec, i.rd, v)
    BY DEF DUP
  <2> HIDE DEF v
  <2>4. DUP(a.vec, i.rd, ReadReg(a, i.rn), i.arr) \in VecFile
    BY <2>1, <2>2, <2>3, LanesStay
  <2>5. Execute(a, i) \in {Stop(a, Failed), Skip(ExecuteSIMDCopy(a, i))}
    BY <1>3 DEF Execute, HasOperation, Formats
  <2>6. Skip(ExecuteSIMDCopy(a, i)).vec = DUP(a.vec, i.rd, ReadReg(a, i.rn), i.arr)
    BY <1>1 DEF ExecuteSIMDCopy
  <2>7. QED
    BY <1>1, <2>4, <2>5, <2>6
<1>4. CASE i.fmt = "SIMDLoadStore"
  <2> DEFINE addr == Add(ReadRegOrSP(a, i.rn), i.imm, 64)
             loaded == LDR128(a.vec, a.mem, i.rd, addr)
  <2>1. i.rd \in 0 .. 31
    BY <1>4 DEF VectorForm
  <2>2. Read(a.mem, addr, 128) \in SUBSET Ones(128)
    <3> DEFINE B(k) == {8 * k + b : b \in {c \in 0 .. 7 : <<Plus(addr, k), c>> \in a.mem}}
    <3>1. 128 \div 8 = 16
      OBVIOUS
    <3>2. Read(a.mem, addr, 128) = UNION {B(k) : k \in 0 .. 15}
      BY <3>1 DEF Read
    <3>3. \A k \in 0 .. 15 : B(k) \in SUBSET (0 .. 127)
      <4>1. \A k \in 0 .. 15, b \in 0 .. 7 : 8 * k + b \in 0 .. 127
        OBVIOUS
      <4>2. QED
        BY <4>1
    <3> HIDE DEF B
    <3>4. UNION {B(k) : k \in 0 .. 15} \in SUBSET (0 .. 127)
      BY <3>3
    <3>5. Ones(128) = 0 .. 127
      BY DEF Ones
    <3>6. QED
      BY <3>2, <3>4, <3>5, Zenon
  <2>3. loaded \in VecFile
    BY <2>1, <2>2 DEF LDR128, VecFile
  <2>4. Execute(a, i) \in {Stop(a, Failed), Skip(ExecuteSIMDLoadStore(a, i))}
    BY <1>4 DEF Execute, HasOperation, Formats
  <2>5. Skip(ExecuteSIMDLoadStore(a, i)).vec \in {loaded, a.vec}
    BY <1>1 DEF ExecuteSIMDLoadStore
  <2> HIDE DEF loaded
  <2>6. QED
    BY <1>1, <2>3, <2>4, <2>5
<1>5. CASE i.fmt \notin {"SIMDReg", "SIMDCopy", "SIMDLoadStore"}
  <2>1. HasVectors(Execute(a, i), a.vec)
    BY <1>5, VectorsAreKept DEF HasVectors
  <2>2. QED
    BY <2>1 DEF HasVectors
<1>6. QED
  BY <1>2, <1>3, <1>4, <1>5

\* While the emulator runs, the vector registers are words of 128 bits.
VectorsHold == machine = "emulator" => arch.vec \in VecFile

LEMMA EmulatorKeepsVectors == SimSpec => []VectorsHold
<1>1. SimInit => VectorsHold
  BY SetupAssumption DEF SimInit, FastInit, Init, VectorsHold, Start, VecFile
<1>2. EmulatorRuns /\ VectorsHold /\ [SimNext]_simVars => VectorsHold'
  <2> SUFFICES ASSUME EmulatorRuns, VectorsHold, [SimNext]_simVars, machine' = "emulator"
               PROVE  arch'.vec \in VecFile
    BY DEF VectorsHold
  <2>1. CASE Emulates
    <3>1. arch' = Step(arch) /\ prog \in Programs /\ IsState(arch) /\ arch.vec \in VecFile
      BY <2>1 DEF Emulates, Next, EmulatorRuns, VectorsHold
    <3>2. HasForm(Current) /\ HasOperation(Current) /\ VectorForm(Current)
      BY <3>1, InstructionsHaveForms, InstructionsHaveOperations, InstructionsHaveVectors DEF Current
    <3>3. IsState(Execute(arch, Current)) /\ Execute(arch, Current).vec \in VecFile
      BY <3>1, <3>2, ExecuteKeepsState, VectorsStayWords
    <3>4. [Execute(arch, Current) EXCEPT !.count = @ + 1].vec = Execute(arch, Current).vec
      BY <3>3 DEF IsState
    <3>5. Stop(arch, Failed).vec = arch.vec
      BY <3>1 DEF IsState, Stop
    <3>6. Step(arch) \in {Stop(arch, Failed), [Execute(arch, Current) EXCEPT !.count = @ + 1]}
      BY DEF Step, Current
    <3>7. QED
      BY <3>1, <3>3, <3>4, <3>5, <3>6
  <2>2. CASE Ticks \/ GoesThrough \/ Fuses
    BY <2>2 DEF Ticks, GoesThrough, Fuses
  <2>3. CASE UNCHANGED simVars
    BY <2>3 DEF simVars, fastVars, VectorsHold
  <2>4. QED
    BY <2>1, <2>2, <2>3 DEF SimNext
<1>3. QED
  BY <1>1, <1>2, EmulatorKeepsRunning, PTL DEF SimSpec

LEMMA SumIsOfLanes ==
  ASSUME NEW a, IsState(a), a.vec \in VecFile, NEW i, i.op \in {"VADD", "VSUB"}, i.fmt = "SIMDReg",
         i.rd \in 0 .. 31, i.rn \in 0 .. 31, i.rm \in 0 .. 31, Arrangement(i.arr)
  PROVE  Execute(a, i).vec = WithSum(a.vec, i.op, i.rd, i.rn, i.rm, i.arr)
<1> DEFINE op == i.op   rd == i.rd   rn == i.rn   rm == i.rm   arr == i.arr   file == a.vec
<1>1. Execute(a, i) = Skip(ExecuteSIMDReg(a, i))
  BY DEF Execute
<1>2. Execute(a, i).vec = ThreeSame(file, op, rd, rn, rm, arr)
  BY <1>1 DEF Skip, ExecuteSIMDReg, IsState
<1>3. /\ op \in {"VADD", "VSUB"} /\ rd \in 0 .. 31 /\ rn \in 0 .. 31 /\ rm \in 0 .. 31
      /\ Arrangement(arr) /\ file \in VecFile
  OBVIOUS
<1> HIDE DEF op, rd, rn, rm, arr, file
<1>4. ThreeSame(file, op, rd, rn, rm, arr) = WithSum(file, op, rd, rn, rm, arr)
  <2>1. Summable(file, op, rd, rn, rm, arr)
    BY <1>3 DEF Summable
  <2>2. IsSum(file, op, rd, rn, rm, arr)
    BY ONLY <2>1, SumOfLanes
  <2>3. QED
    BY <2>2 DEF IsSum
<1>5. QED
  BY <1>2, <1>4 DEF op, rd, rn, rm, arr, file

(* A vector sum or difference is that of the registers as they were before,   *)
(* lane by lane, for every arrangement and choice of registers, although the  *)
(* loop overwrites the destination as it goes: the loop's lanes are those of   *)
(* the registers as they were, and cutting the top bits stops every carry at   *)
(* its lane.                                                                  *)
THEOREM LanesDoNotInterfere == SimSpec => VectorLanesAreIndependent
<1>1. ASSUME EmulatorRuns, VectorsHold, SimNext, machine = "emulator", Current.op \in {"VADD", "VSUB"},
             arch'.status = "running"
      PROVE  arch'.vec = [arch.vec EXCEPT ![Current.rd] =
               IF IsHalf(Current.arr) THEN Halves(arch.vec, Current.op, Current.rn, Current.rm, Current.arr, 0)
               ELSE Halves(arch.vec, Current.op, Current.rn, Current.rm, Current.arr, 0)
                      \cup Shl(Halves(arch.vec, Current.op, Current.rn, Current.rm, Current.arr, 1), 64, 128)]
  <2> DEFINE i == Current
  <2>1. prog \in Programs /\ IsState(arch) /\ arch' = Step(arch) /\ arch.vec \in VecFile
    BY <1>1 DEF EmulatorRuns, VectorsHold, SimNext, Emulates, Ticks, GoesThrough, Fuses, Next
  <2>2. HasForm(i) /\ HasOperation(i) /\ VectorForm(i)
    BY <2>1, InstructionsHaveForms, InstructionsHaveOperations, InstructionsHaveVectors DEF Current
  <2>3. arch' = [Execute(arch, i) EXCEPT !.count = @ + 1]
    <3>1. Stop(arch, Failed).status = "exited"
      BY <2>1 DEF Stop, IsState
    <3>2. QED
      BY <1>1, <2>1, <3>1 DEF Step, Current
  <2>4. i.op \in {"VADD", "VSUB"}
    BY <1>1
  <2> HIDE DEF i
  <2>5. i.fmt = "SIMDReg" /\ i.rd \in 0 .. 31 /\ i.rn \in 0 .. 31 /\ i.rm \in 0 .. 31 /\ Arrangement(i.arr)
    BY <2>2, <2>4 DEF VectorForm
  <2>6. Execute(arch, i).vec = WithSum(arch.vec, i.op, i.rd, i.rn, i.rm, i.arr)
    BY <2>1, <2>4, <2>5, SumIsOfLanes
  <2>7. arch'.vec = WithSum(arch.vec, i.op, i.rd, i.rn, i.rm, i.arr)
    <3>1. IsState(Execute(arch, i))
      BY <2>1, <2>2, ExecuteKeepsState
    <3>2. QED
      BY <2>3, <2>6, <3>1 DEF IsState
  <2>8. QED
    BY <2>7 DEF WithSum, i
<1>2. EmulatorRuns /\ VectorsHold /\ [SimNext]_simVars
        => [machine = "emulator" /\ Current.op \in {"VADD", "VSUB"} /\ arch'.status = "running" =>
              LET lower == Together(Current.op, ReadLane(arch.vec, Current.rn, 0, 64),
                                    ReadLane(arch.vec, Current.rm, 0, 64), Current.arr.bits)
                  upper == Together(Current.op, ReadLane(arch.vec, Current.rn, 1, 64),
                                    ReadLane(arch.vec, Current.rm, 1, 64), Current.arr.bits)
              IN arch'.vec = [arch.vec EXCEPT ![Current.rd] =
                                IF IsHalf(Current.arr) THEN lower ELSE lower \cup Shl(upper, 64, 128)]]_simVars
  BY Zenon, <1>1 DEF Halves
<1>3. QED
  BY <1>2, EmulatorKeepsRunning, EmulatorKeepsVectors, PTL DEF SimSpec, VectorLanesAreIndependent

---------------------------------------------------------------------------
(* The lower half: what 64-bit arithmetic and the same on 32 bits agree on.  *)

\* A carry and a borrow into a position depend on the positions below it alone.
LEMMA CarryBelow ==
  ASSUME NEW x \in SUBSET Nat, NEW y \in SUBSET Nat, NEW n \in Nat, NEW b \in 0 .. n
  PROVE  /\ Carry(Low(x, n), Low(y, n), b) <=> Carry(x, y, b)
         /\ Borrow(Low(x, n), Low(y, n), b) <=> Borrow(x, y, b)
<1>1. \A j \in Nat : j < b => (j \in Low(x, n) <=> j \in x) /\ (j \in Low(y, n) <=> j \in y)
  BY DEF Low, Ones
<1>2. \A j \in Nat : \A i : i \in j + 1 .. b - 1 => i \in Nat /\ i < b
  OBVIOUS
<1>3. \A j : j \in Low(x, n) \cup Low(y, n) => j \in Nat
  BY DEF Low
<1> DEFINE u == Low(x, n)   v == Low(y, n)
<1>4. \A j, i : i \in Xor(x, y) <=> ~(i \in x <=> i \in y)
  BY XorBits
<1>5. \A j, i : i \in Xor(u, v) <=> ~(i \in u <=> i \in v)
  BY XorBits
<1> HIDE DEF u, v
<1>6. Carry(u, v, b) <=> Carry(x, y, b)
  BY <1>1, <1>2, <1>3, <1>4, <1>5 DEF Carry, u, v
<1>7. Borrow(u, v, b) <=> Borrow(x, y, b)
  BY <1>1, <1>2, <1>3 DEF Borrow, u, v
<1>8. QED
  BY <1>6, <1>7 DEF u, v

\* The lower n bits of a sum or a difference are those of the lower n bits.
LEMMA LowOfSum ==
  ASSUME NEW n \in 0 .. 64, NEW x \in SUBSET Ones(64), NEW y \in SUBSET Ones(64)
  PROVE  /\ Low(Add(x, y, 64), n) = Add(Low(x, n), Low(y, n), n)
         /\ Low(Sub(x, y, 64), n) = Sub(Low(x, n), Low(y, n), n)
<1> DEFINE u == Low(x, n)   v == Low(y, n)
<1>1. u \in SUBSET Ones(n) /\ v \in SUBSET Ones(n) /\ x \in SUBSET Nat /\ y \in SUBSET Nat
      /\ 64 \in 0 .. 64 /\ n \in Nat
  BY DEF Low, Ones
<1>2. \A b : b \in Add(x, y, 64) <=> b \in 0 .. 63 /\ ~(b \in Xor(x, y) <=> Carry(x, y, b))
  BY <1>1, AddBits
<1>3. \A b : b \in Sub(x, y, 64) <=> b \in 0 .. 63 /\ ~(b \in Xor(x, y) <=> Borrow(x, y, b))
  BY <1>1, SubBits
<1>4. \A b \in 0 .. n : (Carry(u, v, b) <=> Carry(x, y, b)) /\ (Borrow(u, v, b) <=> Borrow(x, y, b))
  BY <1>1, CarryBelow
<1>5. \A b \in 0 .. n - 1 : b \in Xor(u, v) <=> b \in Xor(x, y)
  BY XorBits DEF Low, Ones
<1> HIDE DEF u, v
<1>6. \A b : b \in Add(u, v, n) <=> b \in 0 .. n - 1 /\ ~(b \in Xor(u, v) <=> Carry(u, v, b))
  BY <1>1, AddBits
<1>7. \A b : b \in Sub(u, v, n) <=> b \in 0 .. n - 1 /\ ~(b \in Xor(u, v) <=> Borrow(u, v, b))
  BY <1>1, SubBits
<1>8. \A b \in 0 .. n - 1 : b \in 0 .. n /\ b \in 0 .. 63
  OBVIOUS
<1>9. \A z : \A b : b \in Low(z, n) <=> b \in z /\ b \in 0 .. n - 1
  BY DEF Low, Ones
<1>10. \A b : b \in Low(Add(x, y, 64), n) <=> b \in Add(u, v, n)
  BY <1>2, <1>4, <1>5, <1>6, <1>8, <1>9
<1>11. \A b : b \in Low(Sub(x, y, 64), n) <=> b \in Sub(u, v, n)
  BY <1>3, <1>4, <1>5, <1>7, <1>8, <1>9
<1>12. Low(Add(x, y, 64), n) = Add(u, v, n) /\ Low(Sub(x, y, 64), n) = Sub(u, v, n)
  BY <1>10, <1>11
<1>13. QED
  BY <1>12 DEF u, v

\* From one position to the next.
LEMMA NextCarry ==
  ASSUME NEW x \in SUBSET Nat, NEW y \in SUBSET Nat, NEW b \in Nat
  PROVE  /\ Carry(x, y, b + 1) <=> b \in x \cap y \/ (b \in Xor(x, y) /\ Carry(x, y, b))
         /\ Borrow(x, y, b + 1) <=> b \in y \ x \/ ((b \in x <=> b \in y) /\ Borrow(x, y, b))
<1>1. \A j \in Nat : j < b + 1 <=> j < b \/ j = b
  OBVIOUS
<1>2. \A j \in Nat : j < b => \A i : i \in j + 1 .. b + 1 - 1 <=> i \in j + 1 .. b - 1 \/ i = b
  OBVIOUS
<1>3. \A i : ~(i \in b + 1 .. b + 1 - 1)
  OBVIOUS
<1>4. Carry(x, y, b + 1) <=> b \in x \cap y \/ (b \in Xor(x, y) /\ Carry(x, y, b))
  BY <1>1, <1>2, <1>3 DEF Carry
<1>5. Borrow(x, y, b + 1) <=> b \in y \ x \/ ((b \in x <=> b \in y) /\ Borrow(x, y, b))
  BY <1>1, <1>2, <1>3 DEF Borrow
<1>6. QED
  BY <1>4, <1>5

\* Subtraction undoes addition.
LEMMA SumLessOne ==
  ASSUME NEW x \in SUBSET Ones(64), NEW y \in SUBSET Ones(64)
  PROVE  Sub(Add(x, y, 64), x, 64) = y
<1> DEFINE r == Add(x, y, 64)
           T == {b \in Nat : b <= 64 => (Borrow(r, x, b) <=> Carry(x, y, b))}
<1> HIDE DEF r, T
<1>1. 64 \in 0 .. 64 /\ x \in SUBSET Nat /\ y \in SUBSET Nat /\ \A b : b \in y => b \in 0 .. 63
  <2>1. ASSUME NEW k \in Nat, k = 64 PROVE Ones(k) = 0 .. 63
    BY <2>1 DEF Ones
  <2>2. Ones(64) = 0 .. 63
    BY <2>1
  <2>3. QED
    BY <2>2
<1>2. \A b : b \in r <=> b \in 0 .. 63 /\ ~(b \in Xor(x, y) <=> Carry(x, y, b))
  BY <1>1, AddBits DEF r
<1>11. r \in SUBSET Ones(64) /\ r \in SUBSET Nat
  BY <1>2 DEF Ones
<1>3. \A b : b \in Xor(x, y) <=> ~(b \in x <=> b \in y)
  BY XorBits
<1>4. T = Nat
  <2> USE DEF T
  <2>1. 0 \in T
    <3>1. \A j \in Nat : ~(j < 0)
      OBVIOUS
    <3>2. QED
      BY <1>1, <1>11, <3>1 DEF Carry, Borrow
  <2>2. ASSUME NEW b \in T PROVE b + 1 \in T
    <3>1. b \in Nat /\ b + 1 \in Nat
      BY <2>2
    <3>2. ASSUME b + 1 <= 64 PROVE Borrow(r, x, b + 1) <=> Carry(x, y, b + 1)
      <4>1. b \in 0 .. 63 /\ (Borrow(r, x, b) <=> Carry(x, y, b))
        BY <2>2, <3>1, <3>2
      <4>2. Carry(x, y, b + 1) <=> b \in x \cap y \/ (b \in Xor(x, y) /\ Carry(x, y, b))
        BY <1>1, <3>1, NextCarry
      <4>3. Borrow(r, x, b + 1) <=> b \in x \ r \/ ((b \in r <=> b \in x) /\ Borrow(r, x, b))
        BY <1>1, <1>11, <3>1, NextCarry
      <4>4. b \in r <=> ~(b \in Xor(x, y) <=> Carry(x, y, b))
        BY <1>2, <4>1
      <4>5. QED
        BY <1>3, <4>1, <4>2, <4>3, <4>4
    <3>3. QED
      BY <3>1, <3>2
  <2>3. T \in SUBSET Nat
    OBVIOUS
  <2> HIDE DEF T
  <2>4. QED
    BY <2>1, <2>2, <2>3, Upwards
<1>5. \A b : b \in Sub(r, x, 64) <=> b \in 0 .. 63 /\ ~(b \in Xor(r, x) <=> Borrow(r, x, b))
  BY <1>1, <1>11, SubBits
<1>6. \A b \in 0 .. 63 : Borrow(r, x, b) <=> Carry(x, y, b)
  BY <1>4 DEF T
<1>7. \A b : b \in Xor(r, x) <=> ~(b \in r <=> b \in x)
  BY XorBits
<1>8. \A b : b \in Sub(r, x, 64) <=> b \in y
  BY <1>1, <1>2, <1>3, <1>5, <1>6, <1>7
<1>9. Sub(r, x, 64) = y
  BY <1>8
<1>10. QED
  BY <1>9 DEF r

---------------------------------------------------------------------------
(* Multiplication: the sums Mul takes in pairs.                             *)

\* The bits of y that the sum of number j takes together when they are d.
Taken(y, d, j) == Slice(y, d * (j + 1) - 1, d * j)
PairSum(x, y, n, below, k, j) ==
  IF Taken(y, 2^k, j) = {} THEN {}
  ELSE IF k = 0 THEN Shl(x, j, n)
  ELSE Add(below[2 * j], below[2 * j + 1], n)
PairSums(x, y, n, below, k) == [j \in 0 .. 2^(6 - k) - 1 |-> PairSum(x, y, n, below, k, j)]
AreSums(x, y, n, f) == f = [k \in 0 .. 6 |-> PairSums(x, y, n, f[k - 1], k)]
AllSums(x, y, n) == CHOOSE f : AreSums(x, y, n, f)

LEMMA MulAs ==
  ASSUME NEW x, NEW y, NEW n
  PROVE  Mul(x, y, n) = AllSums(x, y, n)[6][0]
  BY DEF Mul, AllSums, AreSums, PairSums, PairSum, Taken

LEMMA SumsExist ==
  ASSUME NEW x, NEW y, NEW n
  PROVE  AreSums(x, y, n, AllSums(x, y, n))
<1> DEFINE L(below, k) == PairSums(x, y, n, below, k)
           f0 == L(<< >>, 0)
           f1 == L(f0, 1)
           f2 == L(f1, 2)
           f3 == L(f2, 3)
           f4 == L(f3, 4)
           f5 == L(f4, 5)
           f6 == L(f5, 6)
           g == [k \in 0 .. 6 |-> IF k = 0 THEN f0 ELSE IF k = 1 THEN f1 ELSE IF k = 2 THEN f2
                                  ELSE IF k = 3 THEN f3 ELSE IF k = 4 THEN f4 ELSE IF k = 5 THEN f5 ELSE f6]
<1>1. \A u, v : L(u, 0) = L(v, 0)
  BY DEF PairSums, PairSum
<1>2. /\ f1 = L(f0, 1) /\ f2 = L(f1, 2) /\ f3 = L(f2, 3) /\ f4 = L(f3, 4) /\ f5 = L(f4, 5) /\ f6 = L(f5, 6)
      /\ f0 = L(<< >>, 0)
  OBVIOUS
<1> HIDE DEF L, f0, f1, f2, f3, f4, f5, f6
<1>3. /\ g[0] = f0 /\ g[1] = f1 /\ g[2] = f2 /\ g[3] = f3 /\ g[4] = f4 /\ g[5] = f5 /\ g[6] = f6
  OBVIOUS
<1>4. ASSUME NEW k \in 0 .. 6 PROVE g[k] = L(g[k - 1], k)
  <2>1. k = 0 \/ k = 1 \/ k = 2 \/ k = 3 \/ k = 4 \/ k = 5 \/ k = 6
    OBVIOUS
  <2> HIDE DEF g
  <2>2. CASE k = 0
    BY <1>1, <1>2, <1>3, <2>2
  <2>3. CASE k # 0
    BY <1>2, <1>3, <2>1, <2>3
  <2>4. QED
    BY <2>2, <2>3
<1>5. g = [k \in 0 .. 6 |-> L(g[k - 1], k)]
  <2> DEFINE h == [k \in 0 .. 6 |-> L(g[k - 1], k)]
  <2>1. \A k \in 0 .. 6 : h[k] = g[k]
    BY <1>4
  <2>2. h = [k \in 0 .. 6 |-> h[k]] /\ g = [k \in 0 .. 6 |-> g[k]]
    OBVIOUS
  <2> HIDE DEF g, h
  <2>3. h = g
    BY <2>1, <2>2
  <2>4. QED
    BY <2>3 DEF h
<1> HIDE DEF g
<1>6. AreSums(x, y, n, g)
  BY <1>5 DEF AreSums, L
<1> HIDE DEF AreSums
<1>7. QED
  BY <1>6 DEF AllSums

LEMMA SumsAre ==
  ASSUME NEW x, NEW y, NEW n
  PROVE  /\ \A j \in 0 .. 63 : AllSums(x, y, n)[0][j] = IF Taken(y, 1, j) = {} THEN {} ELSE Shl(x, j, n)
         /\ \A k \in 1 .. 6 : \A j \in 0 .. 2^(6 - k) - 1 :
              AllSums(x, y, n)[k][j] =
                IF Taken(y, 2^k, j) = {} THEN {}
                ELSE Add(AllSums(x, y, n)[k - 1][2 * j], AllSums(x, y, n)[k - 1][2 * j + 1], n)
<1> DEFINE f == AllSums(x, y, n)
<1>1. AreSums(x, y, n, f)
  BY SumsExist
<1> HIDE DEF f
<1>2. \A k \in 0 .. 6 : f[k] = PairSums(x, y, n, f[k - 1], k)
  BY <1>1 DEF AreSums
<1>3. \A k \in 0 .. 6 : \A j \in 0 .. 2^(6 - k) - 1 : f[k][j] = PairSum(x, y, n, f[k - 1], k, j)
  BY <1>2 DEF PairSums
<1>4. 2^0 = 1 /\ 2^(6 - 0) - 1 = 63 /\ 0 \in 0 .. 6
  BY SMT
<1>5. ASSUME NEW j \in 0 .. 63 PROVE f[0][j] = IF Taken(y, 1, j) = {} THEN {} ELSE Shl(x, j, n)
  <2>1. f[0][j] = PairSum(x, y, n, f[0 - 1], 0, j)
    BY <1>3, <1>4
  <2>2. PairSum(x, y, n, f[0 - 1], 0, j) = IF Taken(y, 2^0, j) = {} THEN {} ELSE Shl(x, j, n)
    BY DEF PairSum
  <2>3. QED
    BY <1>4, <2>1, <2>2
<1>6. ASSUME NEW k \in 1 .. 6, NEW j \in 0 .. 2^(6 - k) - 1
      PROVE  f[k][j] = IF Taken(y, 2^k, j) = {} THEN {} ELSE Add(f[k - 1][2 * j], f[k - 1][2 * j + 1], n)
  <2>1. k \in 0 .. 6 /\ k # 0
    OBVIOUS
  <2>2. f[k][j] = PairSum(x, y, n, f[k - 1], k, j)
    BY <1>3, <2>1
  <2>3. QED
    BY <2>1, <2>2 DEF PairSum
<1>7. QED
  BY <1>5, <1>6 DEF f

\* A word of n bits has no bit above them.
LEMMA LowOfWord ==
  ASSUME NEW n, NEW x \in SUBSET Ones(n)
  PROVE  Low(x, n) = x
  BY DEF Low

LEMMA NothingTaken ==
  ASSUME NEW y \in SUBSET Nat, NEW d \in Nat, NEW j \in Nat
  PROVE  Taken(y, d, j) = {} <=> \A b \in y : ~(d * j <= b /\ b < d * (j + 1))
<1> DEFINE lo == d * j   hi == d * (j + 1) - 1
<1>1. lo \in Int /\ hi \in Int /\ Taken(y, d, j) = Slice(y, hi, lo)
  BY DEF Taken
<1>2. d * (j + 1) = hi + 1
  OBVIOUS
<1> HIDE DEF lo, hi
<1>3. \A k : k \in Slice(y, hi, lo) <=> k \in 0 .. hi - lo /\ k + lo \in y
  BY <1>1, SliceBits
<1>4. ASSUME NEW b \in y, lo <= b, b < hi + 1 PROVE b - lo \in Slice(y, hi, lo)
  <2>1. b - lo \in 0 .. hi - lo /\ (b - lo) + lo = b
    BY <1>1, <1>4
  <2>2. QED
    BY <1>3, <2>1
<1>5. ASSUME NEW k \in Slice(y, hi, lo) PROVE \E b \in y : lo <= b /\ b < hi + 1
  <2>1. k + lo \in y /\ lo <= k + lo /\ k + lo < hi + 1
    BY <1>1, <1>3, <1>5
  <2>2. QED
    BY <2>1
<1>6. Slice(y, hi, lo) = {} <=> \A b \in y : ~(lo <= b /\ b < hi + 1)
  BY <1>4, <1>5
<1>7. QED
  BY <1>1, <1>2, <1>6 DEF lo

\* Where nothing is taken by a sum, nothing is by its two halves; and less is taken of less.
LEMMA HalvesTaken ==
  ASSUME NEW y \in SUBSET Nat, NEW d \in {1, 2, 4, 8, 16, 32}, NEW j \in Nat, Taken(y, 2 * d, j) = {}
  PROVE  Taken(y, d, 2 * j) = {} /\ Taken(y, d, 2 * j + 1) = {}
<1>1. \A b \in y : ~((2 * d) * j <= b /\ b < (2 * d) * (j + 1))
  BY NothingTaken
<1>2. \A b \in y : ~(d * (2 * j) <= b /\ b < d * (2 * j + 1))
  <2>1. d = 1 \/ d = 2 \/ d = 4 \/ d = 8 \/ d = 16 \/ d = 32
    OBVIOUS
  <2>2. QED
    BY <1>1, <2>1
<1>3. \A b \in y : ~(d * (2 * j + 1) <= b /\ b < d * ((2 * j + 1) + 1))
  <2>1. d = 1 \/ d = 2 \/ d = 4 \/ d = 8 \/ d = 16 \/ d = 32
    OBVIOUS
  <2>2. QED
    BY <1>1, <2>1
<1>4. Taken(y, d, 2 * j) = {}
  BY <1>2, NothingTaken
<1>5. 2 * j + 1 \in Nat
  OBVIOUS
<1>6. Taken(y, d, 2 * j + 1) = {}
  BY <1>3, <1>5, NothingTaken
<1>7. QED
  BY <1>4, <1>6

LEMMA NothingAdded == Add({}, {}, 32) = {}
<1>1. \A b : b \in Add({}, {}, 32) <=> b \in 0 .. 32 - 1 /\ ~(b \in Xor({}, {}) <=> Carry({}, {}, b))
  BY AddBits DEF Ones
<1>2. \A b : ~Carry({}, {}, b) /\ b \notin Xor({}, {})
  BY DEF Carry, Xor
<1>3. QED
  BY <1>1, <1>2

LEMMA Word32 == Ones(32) = 0 .. 31 /\ Ones(64) = 0 .. 63 /\ Ones(32) \subseteq Ones(64)
<1>1. ASSUME NEW k \in Nat, k = 64 PROVE Ones(k) = 0 .. 63
  BY <1>1 DEF Ones
<1>2. ASSUME NEW k \in Nat, k = 32 PROVE Ones(k) = 0 .. 31
  BY <1>2 DEF Ones
<1>3. Ones(64) = 0 .. 63 /\ Ones(32) = 0 .. 31
  BY <1>1, <1>2
<1>4. QED
  BY <1>3

\* The lower half of a word moved up is its lower half moved up.
LEMMA LowOfShl ==
  ASSUME NEW x \in SUBSET Ones(64), NEW k \in Nat
  PROVE  Low(Shl(x, k, 64), 32) = Shl(Low(x, 32), k, 32)
<1>1. x \subseteq Int /\ Low(x, 32) \subseteq Int /\ \A b : b \in x => b \in 0 .. 63
  BY Word32 DEF Low
<1>2. \A b : b \in Shl(x, k, 64) <=> b \in 0 .. 64 - 1 /\ b - k \in x
  BY <1>1, ShlBits
<1>3. \A b : b \in Shl(Low(x, 32), k, 32) <=> b \in 0 .. 32 - 1 /\ b - k \in Low(x, 32)
  BY <1>1, ShlBits
<1>4. \A z, b : b \in Low(z, 32) <=> b \in z /\ b \in 0 .. 31
  BY Word32 DEF Low
<1>5. \A b \in 0 .. 31 : b - k <= 31
  OBVIOUS
<1>6. ASSUME NEW b PROVE b \in Low(Shl(x, k, 64), 32) <=> b \in Shl(Low(x, 32), k, 32)
  <2>1. b \in 0 .. 31 => (b - k \in x <=> b - k \in Low(x, 32))
    BY <1>1, <1>4, <1>5
  <2>2. (b \in 0 .. 31 <=> b \in 0 .. 32 - 1) /\ (b \in 0 .. 31 => b \in 0 .. 64 - 1)
    OBVIOUS
  <2>3. QED
    BY <1>2, <1>3, <1>4, <2>1, <2>2
<1>7. QED
  BY <1>6

\* A level of sums on 64 bits, and the same on the lower 32: what they have in common.
Corresponds(f, g, k) ==
  \A j \in 0 .. 2^(6 - k) - 1 :
    f[k][j] \in SUBSET Ones(64) /\ g[k][j] \in SUBSET Ones(32) /\ Low(f[k][j], 32) = g[k][j]

\* The lower half of a product is the product of the lower halves, on 32 bits.
LEMMA LowOfProduct ==
  ASSUME NEW x \in SUBSET Ones(64), NEW y \in SUBSET Ones(64)
  PROVE  /\ Low(Mul(x, y, 64), 32) = Mul(Low(x, 32), Low(y, 32), 32)
         /\ Mul(x, y, 64) \in SUBSET Ones(64)
<1> DEFINE u == Low(x, 32)   v == Low(y, 32)
           f == AllSums(x, y, 64)   g == AllSums(u, v, 32)
<1>1. /\ u \in SUBSET Ones(32) /\ v \in SUBSET Ones(32) /\ v \subseteq y /\ y \in SUBSET Nat /\ v \in SUBSET Nat
      /\ \A b \in y : b \in v <=> b < 32
  BY Word32 DEF Low
<1>2. \A w, z, n : Add(w, z, n) \in SUBSET Ones(n)
  BY DEF Add, Low
<1>3. \A w, k, n : Shl(w, k, n) \in SUBSET Ones(n)
  BY DEF Shl, Low
<1>4. ASSUME NEW d \in Nat, NEW j \in Nat, Taken(y, d, j) = {} PROVE Taken(v, d, j) = {}
  <2>1. \A b \in y : ~(d * j <= b /\ b < d * (j + 1))
    BY <1>1, <1>4, NothingTaken
  <2>2. \A b \in v : ~(d * j <= b /\ b < d * (j + 1))
    BY <1>1, <2>1
  <2>3. QED
    BY <1>1, <2>2, NothingTaken
<1>5. Low({}, 32) = {}
  BY DEF Low
<1>6. /\ \A j \in 0 .. 63 : f[0][j] = IF Taken(y, 1, j) = {} THEN {} ELSE Shl(x, j, 64)
      /\ \A k \in 1 .. 6 : \A j \in 0 .. 2^(6 - k) - 1 :
           f[k][j] = IF Taken(y, 2^k, j) = {} THEN {} ELSE Add(f[k - 1][2 * j], f[k - 1][2 * j + 1], 64)
  BY SumsAre
<1>7. /\ \A j \in 0 .. 63 : g[0][j] = IF Taken(v, 1, j) = {} THEN {} ELSE Shl(u, j, 32)
      /\ \A k \in 1 .. 6 : \A j \in 0 .. 2^(6 - k) - 1 :
           g[k][j] = IF Taken(v, 2^k, j) = {} THEN {} ELSE Add(g[k - 1][2 * j], g[k - 1][2 * j + 1], 32)
  BY SumsAre
<1>8. Mul(x, y, 64) = f[6][0] /\ Mul(u, v, 32) = g[6][0]
  BY MulAs
<1>9. \A j \in Nat : Low(Shl(x, j, 64), 32) = Shl(u, j, 32)
  BY LowOfShl
<1>10. \A w \in SUBSET Ones(64), z \in SUBSET Ones(64) : Low(Add(w, z, 64), 32) = Add(Low(w, 32), Low(z, 32), 32)
  BY LowOfSum
<1> HIDE DEF u, v, f, g
<1>11. Corresponds(f, g, 0)
  <2>1. 2^(6 - 0) - 1 = 63
    BY SMT
  <2> SUFFICES ASSUME NEW j \in 0 .. 63
               PROVE  f[0][j] \in SUBSET Ones(64) /\ g[0][j] \in SUBSET Ones(32) /\ Low(f[0][j], 32) = g[0][j]
    BY <2>1 DEF Corresponds
  <2>2. CASE Taken(y, 1, j) = {}
    <3>1. Taken(v, 1, j) = {}
      BY <1>4, <2>2
    <3>2. QED
      BY <1>5, <1>6, <1>7, <2>2, <3>1
  <2>3. CASE Taken(y, 1, j) # {} /\ Taken(v, 1, j) # {}
    BY <1>3, <1>6, <1>7, <1>9, <2>3
  <2>4. CASE Taken(y, 1, j) # {} /\ Taken(v, 1, j) = {}
    <3>1. PICK b \in y : 1 * j <= b /\ b < 1 * (j + 1)
      BY <1>1, <2>4, NothingTaken
    <3>2. ~(1 * j <= b /\ b < 1 * (j + 1)) \/ b \notin v
      BY <1>1, <2>4, NothingTaken
    <3>3. j >= 32
      BY <1>1, <3>1, <3>2
    <3>4. \A b1 : b1 \in Shl(u, j, 32) <=> b1 \in 0 .. 32 - 1 /\ b1 - j \in u
      <4>1. u \subseteq Int /\ j \in Nat /\ 32 \in Nat
        BY <1>1, Word32
      <4>2. QED
        BY <4>1, ShlBits
    <3>5. Shl(u, j, 32) = {}
      BY <1>1, <3>3, <3>4, Word32
    <3>6. f[0][j] = Shl(x, j, 64) /\ g[0][j] = {}
      BY <1>6, <1>7, <2>4
    <3>7. Low(f[0][j], 32) = {}
      BY <1>9, <3>5, <3>6
    <3>8. QED
      BY <1>3, <3>6, <3>7
  <2>5. QED
    BY <2>2, <2>3, <2>4
<1>12. ASSUME NEW k \in 1 .. 6, Corresponds(f, g, k - 1) PROVE Corresponds(f, g, k)
  <2> SUFFICES ASSUME NEW j \in 0 .. 2^(6 - k) - 1
               PROVE  f[k][j] \in SUBSET Ones(64) /\ g[k][j] \in SUBSET Ones(32) /\ Low(f[k][j], 32) = g[k][j]
    BY DEF Corresponds
  <2> DEFINE d == 2^(k - 1)
             m == 2^(6 - k)
             a == f[k - 1][2 * j]   b == f[k - 1][2 * j + 1]
             p == g[k - 1][2 * j]   q == g[k - 1][2 * j + 1]
  <2>1. d \in {1, 2, 4, 8, 16, 32} /\ 2^k = 2 * d /\ m \in Nat /\ 2^(6 - (k - 1)) = 2 * m
    <3>1. k = 1 \/ k = 2 \/ k = 3 \/ k = 4 \/ k = 5 \/ k = 6
      OBVIOUS
    <3>2. CASE k = 1
      <4>1. 2^(1 - 1) = 1 /\ 2^1 = 2 /\ 2^(6 - 1) = 32 /\ 2^(6 - (1 - 1)) = 64
        BY SMT
      <4>2. QED
        BY <3>2, <4>1
    <3>3. CASE k = 2
      <4>1. 2^(2 - 1) = 2 /\ 2^2 = 4 /\ 2^(6 - 2) = 16 /\ 2^(6 - (2 - 1)) = 32
        BY SMT
      <4>2. QED
        BY <3>3, <4>1
    <3>4. CASE k = 3
      <4>1. 2^(3 - 1) = 4 /\ 2^3 = 8 /\ 2^(6 - 3) = 8 /\ 2^(6 - (3 - 1)) = 16
        BY SMT
      <4>2. QED
        BY <3>4, <4>1
    <3>5. CASE k = 4
      <4>1. 2^(4 - 1) = 8 /\ 2^4 = 16 /\ 2^(6 - 4) = 4 /\ 2^(6 - (4 - 1)) = 8
        BY SMT
      <4>2. QED
        BY <3>5, <4>1
    <3>6. CASE k = 5
      <4>1. 2^(5 - 1) = 16 /\ 2^5 = 32 /\ 2^(6 - 5) = 2 /\ 2^(6 - (5 - 1)) = 4
        BY SMT
      <4>2. QED
        BY <3>6, <4>1
    <3>7. CASE k = 6
      <4>1. 2^(6 - 1) = 32 /\ 2^6 = 64 /\ 2^(6 - 6) = 1 /\ 2^(6 - (6 - 1)) = 2
        BY SMT
      <4>2. QED
        BY <3>7, <4>1
    <3>8. QED
      BY <3>1, <3>2, <3>3, <3>4, <3>5, <3>6, <3>7
  <2>2. j \in Nat /\ 2 * j \in 0 .. 2 * m - 1 /\ 2 * j + 1 \in 0 .. 2 * m - 1
    <3>1. j \in 0 .. m - 1
      OBVIOUS
    <3> HIDE DEF m
    <3>2. QED
      BY <2>1, <3>1
  <2>3. /\ a \in SUBSET Ones(64) /\ b \in SUBSET Ones(64) /\ p \in SUBSET Ones(32) /\ q \in SUBSET Ones(32)
        /\ Low(a, 32) = p /\ Low(b, 32) = q
    BY <1>12, <2>1, <2>2 DEF Corresponds
  <2>4. f[k][j] = IF Taken(y, 2 * d, j) = {} THEN {} ELSE Add(a, b, 64)
    <3>1. f[k][j] = IF Taken(y, 2^k, j) = {} THEN {} ELSE Add(a, b, 64)
      BY ONLY <1>6, k \in 1 .. 6, j \in 0 .. 2^(6 - k) - 1
    <3>2. QED
      BY <2>1, <3>1
  <2>5. g[k][j] = IF Taken(v, 2 * d, j) = {} THEN {} ELSE Add(p, q, 32)
    <3>1. g[k][j] = IF Taken(v, 2^k, j) = {} THEN {} ELSE Add(p, q, 32)
      BY ONLY <1>7, k \in 1 .. 6, j \in 0 .. 2^(6 - k) - 1
    <3>2. QED
      BY <2>1, <3>1
  <2>6. Taken(v, 2 * d, j) = {} => p = {} /\ q = {}
    <3> SUFFICES ASSUME Taken(v, 2 * d, j) = {} PROVE p = {} /\ q = {}
      OBVIOUS
    <3>1. Taken(v, d, 2 * j) = {} /\ Taken(v, d, 2 * j + 1) = {}
      BY <1>1, <2>1, <2>2, HalvesTaken
    <3>2. CASE k = 1
      <4>1. d = 1 /\ 2 * m = 64
        <5>1. 2^(1 - 1) = 1 /\ 2 * 2^(6 - 1) = 64
          BY SMT
        <5>2. QED
          BY <3>2, <5>1
      <4>2. g[0][2 * j] = {} /\ g[0][2 * j + 1] = {}
        BY <1>7, <2>2, <3>1, <4>1
      <4>3. QED
        BY <3>2, <4>2
    <3>3. CASE k # 1
      <4>1. k - 1 \in 1 .. 6
        BY <3>3
      <4>2. 2 * j \in 0 .. 2^(6 - (k - 1)) - 1 /\ 2 * j + 1 \in 0 .. 2^(6 - (k - 1)) - 1
        BY <2>1, <2>2
      <4>3. QED
        BY <1>7, <3>1, <4>1, <4>2
    <3>4. QED
      BY <3>2, <3>3
  <2>7. Taken(y, 2 * d, j) = {} => Taken(v, 2 * d, j) = {}
    BY <1>4, <2>1, <2>2
  <2> HIDE DEF a, b, p, q, d, m
  <2>8. Low(Add(a, b, 64), 32) = Add(p, q, 32)
    BY <1>10, <2>3
  <2>9. CASE Taken(y, 2 * d, j) = {}
    <3>1. f[k][j] = {} /\ g[k][j] = {}
      BY <2>4, <2>5, <2>7, <2>9
    <3>2. QED
      BY <1>5, <3>1
  <2>10. CASE Taken(y, 2 * d, j) # {}
    <3>1. f[k][j] = Add(a, b, 64)
      BY <2>4, <2>10
    <3>2. g[k][j] = Add(p, q, 32)
      <4>1. CASE Taken(v, 2 * d, j) = {}
        BY <2>5, <2>6, <4>1, NothingAdded
      <4>2. CASE Taken(v, 2 * d, j) # {}
        BY <2>5, <4>2
      <4>3. QED
        BY <4>1, <4>2
    <3>3. QED
      BY <1>2, <2>8, <3>1, <3>2
  <2>11. QED
    BY <2>9, <2>10
<1>13. Corresponds(f, g, 1) /\ Corresponds(f, g, 2) /\ Corresponds(f, g, 3)
  BY <1>11, <1>12
<1>14. Corresponds(f, g, 4) /\ Corresponds(f, g, 5) /\ Corresponds(f, g, 6)
  BY <1>12, <1>13
<1>15. 0 \in 0 .. 2^(6 - 6) - 1
  BY SMT
<1>16. f[6][0] \in SUBSET Ones(64) /\ Low(f[6][0], 32) = g[6][0]
  BY <1>14, <1>15 DEF Corresponds
<1>17. QED
  BY <1>8, <1>16 DEF u, v

\* What the operations of Go's uint64 compute is a word of 64 bits.
LEMMA WordsOf64 ==
  ASSUME NEW x \in SUBSET Ones(64), NEW y \in SUBSET Ones(64)
  PROVE  /\ \A u, v : Add(u, v, 64) \in SUBSET Ones(64) /\ Sub(u, v, 64) \in SUBSET Ones(64)
         /\ \A u : Not(u, 64) \in SUBSET Ones(64) /\ Low(u, 64) \in SUBSET Ones(64)
         /\ \A u, k : Shl(u, k, 64) \in SUBSET Ones(64)
         /\ \A k \in Nat : Shr(x, k) \in SUBSET Ones(64) /\ Sar(x, k, 64) \in SUBSET Ones(64)
         /\ \A op \in {"AND", "BIC", "ORR", "ORN", "EOR", "EON"} : Logic(op, x, y, 64) \in SUBSET Ones(64)
<1>1. \A u, v : Add(u, v, 64) \in SUBSET Ones(64)
  BY DEF Add, Low
<1>2. \A u : Not(u, 64) \in SUBSET Ones(64) /\ Low(u, 64) \in SUBSET Ones(64)
  BY DEF Not, Low
<1>3. \A u, v : Sub(u, v, 64) \in SUBSET Ones(64)
  BY <1>2 DEF Sub
<1>4. \A u, k : Shl(u, k, 64) \in SUBSET Ones(64)
  BY DEF Shl, Low
<1>5. ASSUME NEW k \in Nat PROVE Shr(x, k) \in SUBSET Ones(64)
  BY DEF Shr, Ones
<1>6. ASSUME NEW k \in Nat PROVE Sar(x, k, 64) \in SUBSET Ones(64)
  BY <1>5 DEF Sar, Ones
<1>7. ASSUME NEW op \in {"AND", "BIC", "ORR", "ORN", "EOR", "EON"} PROVE Logic(op, x, y, 64) \in SUBSET Ones(64)
  BY <1>2 DEF Logic, Xor
<1>8. QED
  BY <1>1, <1>2, <1>3, <1>4, <1>5, <1>6, <1>7

\* The logical operations go bit by bit.
LEMMA LowOfLogic ==
  ASSUME NEW n \in {32, 64}, NEW x \in SUBSET Ones(64), NEW y \in SUBSET Ones(64)
  PROVE  /\ Low(Not(x, 64), n) = Not(Low(x, n), n)
         /\ \A op \in {"AND", "BIC", "ORR", "ORN", "EOR", "EON"} :
              Low(Logic(op, x, y, 64), n) = Logic(op, Low(x, n), Low(y, n), n)
<1>1. Ones(n) \subseteq Ones(64)
  BY Word32
<1>2. \A z : Low(Not(z, 64), n) = Not(Low(z, n), n)
  BY <1>1 DEF Low, Not
<1>3. \A z, w : Low(Xor(z, w), n) = Xor(Low(z, n), Low(w, n))
  BY DEF Low, Xor
<1>4. Low(x \cap y, n) = Low(x, n) \cap Low(y, n) /\ Low(x \ y, n) = Low(x, n) \ Low(y, n)
  BY DEF Low
<1>5. \A w : Low(x \cup w, n) = Low(x, n) \cup Low(w, n)
  BY DEF Low
<1>6. ASSUME NEW op \in {"AND", "BIC", "ORR", "ORN", "EOR", "EON"}
      PROVE  Low(Logic(op, x, y, 64), n) = Logic(op, Low(x, n), Low(y, n), n)
  <2>1. CASE op = "AND"
    BY <1>4, <2>1 DEF Logic
  <2>2. CASE op = "BIC"
    BY <1>4, <2>2 DEF Logic
  <2>3. CASE op = "ORR"
    BY <1>5, <2>3 DEF Logic
  <2>4. CASE op = "ORN"
    BY <1>2, <1>5, <2>4 DEF Logic
  <2>5. CASE op = "EOR"
    BY <1>3, <2>5 DEF Logic
  <2>6. CASE op = "EON"
    BY <1>2, <1>3, <2>6 DEF Logic
  <2>7. QED
    BY <2>1, <2>2, <2>3, <2>4, <2>5, <2>6
<1>7. QED
  BY <1>2, <1>6

\* Flags of operands of 64 bits, on the width an instruction has.
LEMMA FlagsOfHalves ==
  ASSUME NEW n \in {32, 64}, NEW x \in SUBSET Ones(64), NEW y \in SUBSET Ones(64), NEW r \in SUBSET Ones(64)
  PROVE  /\ UpdateFlagsAdd(x, y, r, n) = SetAddFlags(Low(x, n), Low(y, n), Low(r, n), n)
         /\ UpdateFlagsSub(x, y, r, n) = SetSubFlags(Low(x, n), Low(y, n), Low(r, n), n)
         /\ UpdateFlagsLogical(r, n) = SetLogicFlags(Low(r, n), n)
<1> DEFINE b == n - 1
           u == Low(x, n)   v == Low(y, n)   s == Low(r, n)
<1>1. (b \in u <=> b \in x) /\ (b \in v <=> b \in y) /\ (b \in s <=> b \in r) /\ b \in Ones(64)
  BY Word32 DEF Low, Ones
<1>2. /\ b \in Not(Xor(x, y), 64) <=> (b \in x <=> b \in y)
      /\ b \in Xor(x, r) <=> ~(b \in x <=> b \in r)
      /\ b \in Xor(x, y) <=> ~(b \in x <=> b \in y)
  BY <1>1, XorBits DEF Not
<1> DEFINE negX == b \in u   negY == b \in v   negR == b \in s
           overAdd == b \in Not(Xor(x, y), 64) \cap Xor(x, r)
           overSub == b \in Xor(x, y) \cap Xor(x, r)
           overAdd2 == negX = negY /\ negX # negR
           overSub2 == negX # negY /\ negY = negR
           neg == b \in r
<1>3. overAdd = overAdd2
  <2>1. overAdd <=> overAdd2
    BY <1>1, <1>2
  <2>2. QED
    BY <2>1
<1>4. overSub = overSub2
  <2>1. overSub <=> overSub2
    BY <1>1, <1>2
  <2>2. QED
    BY <2>1
<1>5. neg = negR
  <2>1. neg <=> negR
    BY <1>1
  <2>2. QED
    BY <2>1
<1> DEFINE zero == s = {}   carry == Less(s, u)   noBorrow == ~Less(u, v)
<1>6. /\ UpdateFlagsAdd(x, y, r, n) = [n |-> neg, z |-> zero, c |-> carry, v |-> overAdd]
      /\ UpdateFlagsSub(x, y, r, n) = [n |-> neg, z |-> zero, c |-> noBorrow, v |-> overSub]
      /\ UpdateFlagsLogical(r, n) = [n |-> neg, z |-> zero, c |-> FALSE, v |-> FALSE]
  BY Zenon DEF UpdateFlagsAdd, UpdateFlagsSub, UpdateFlagsLogical
<1>7. /\ SetAddFlags(u, v, s, n) = [n |-> negR, z |-> zero, c |-> carry, v |-> overAdd2]
      /\ SetSubFlags(u, v, s, n) = [n |-> negR, z |-> zero, c |-> noBorrow, v |-> overSub2]
      /\ SetLogicFlags(s, n) = [n |-> negR, z |-> zero, c |-> FALSE, v |-> FALSE]
  BY Zenon DEF SetAddFlags, SetSubFlags, SetLogicFlags
<1> HIDE DEF neg, negR, zero, carry, noBorrow, overAdd, overAdd2, overSub, overSub2
<1>8. /\ UpdateFlagsAdd(x, y, r, n) = SetAddFlags(u, v, s, n)
      /\ UpdateFlagsSub(x, y, r, n) = SetSubFlags(u, v, s, n)
      /\ UpdateFlagsLogical(r, n) = SetLogicFlags(s, n)
  BY <1>3, <1>4, <1>5, <1>6, <1>7, Zenon
<1>9. QED
  BY <1>8, Zenon

\* The two evaluators of conditions agree on all sixteen.
LEMMA OneCondition ==
  ASSUME NEW f \in FlagSet, NEW cond \in 0 .. 15
  PROVE  EvaluateCondition(f, cond) <=> CheckCondition(f, cond)
<1>1. f.n \in BOOLEAN /\ f.z \in BOOLEAN /\ f.c \in BOOLEAN /\ f.v \in BOOLEAN
  BY DEF FlagSet
<1>2. f.n = f.v <=> (f.n <=> f.v)
  BY <1>1, Zenon
<1>3. f.n # f.v <=> ~(f.n <=> f.v)
  BY <1>2, Zenon
<1> DEFINE Same(k) == EvaluateCondition(f, k) <=> CheckCondition(f, k)
<1>4. Same(0) /\ Same(1) /\ Same(2) /\ Same(3)
  BY <1>1, <1>2, <1>3 DEF CheckCondition, EvaluateCondition
<1>5. Same(4) /\ Same(5) /\ Same(6) /\ Same(7)
  BY <1>1, <1>2, <1>3 DEF CheckCondition, EvaluateCondition
<1>6. Same(8) /\ Same(9)
  BY <1>1, <1>2, <1>3 DEF CheckCondition, EvaluateCondition
<1>7. Same(10) /\ Same(11)
  BY <1>1, <1>2, <1>3 DEF CheckCondition, EvaluateCondition
<1>8. Same(12) /\ Same(13)
  BY <1>1, <1>2, <1>3 DEF CheckCondition, EvaluateCondition
<1>9. Same(14) /\ Same(15)
  BY <1>1, <1>2, <1>3 DEF CheckCondition, EvaluateCondition
<1> HIDE DEF Same
<1>10. \A k \in 0 .. 15 : Same(k)
  BY <1>4, <1>5, <1>6, <1>7, <1>8, <1>9
<1>11. QED
  BY <1>10 DEF Same

\* What else fast timing relies on: the fields of a format, and the operations of vectors.
IsTimed(i) ==
  /\ i.fmt \in {"DPImm", "LogicalImm"} => i.imm \in SUBSET Ones(64)
  /\ i.fmt = "DPImm" => i.shift \in {0, 12}
  /\ i.fmt \in {"BranchCond", "CondSelect", "CondCmp"} => i.cond \in 0 .. 15
  /\ i.fmt \in {"SIMDReg", "SIMDLoadStore", "SIMDCopy"} =>
       i.op \in {"VADD", "VSUB", "VMUL", "VFADD", "VFSUB", "VFMUL", "LDRQ", "STRQ", "DUP", "Unknown"}

LEMMA FourBits ==
  ASSUME NEW w, NEW hi \in Int, NEW lo \in Int, hi = lo + 3
  PROVE  Field(w, hi, lo) \in 0 .. 15
<1>1. Slice(w, hi, lo) \in SUBSET Bits16 /\ \A k \in 4 .. 15 : k \notin Slice(w, hi, lo)
  BY SliceBits DEF Bits16
<1> DEFINE s == Slice(w, hi, lo)
<1>2. Field(w, hi, lo) = Value(s)
  BY <1>1, NumIsValue DEF Field
<1> HIDE DEF s
<1>3. \A k \in 4 .. 15 : k \notin s
  BY <1>1 DEF s
<1>4. /\ 4 \notin s /\ 5 \notin s /\ 6 \notin s /\ 7 \notin s /\ 8 \notin s /\ 9 \notin s /\ 10 \notin s
      /\ 11 \notin s /\ 12 \notin s /\ 13 \notin s /\ 14 \notin s /\ 15 \notin s
  BY <1>3
<1>5. Value(s) \in 0 .. 15
  BY <1>4 DEF Value, Part
<1>6. QED
  BY <1>2, <1>5

\* Every decoder gives its fields what fast timing takes them for.
LEMMA DecodedTimed ==
  ASSUME NEW w
  PROVE  IsTimed(Decode(w))
<1>1. Field(w, 3, 0) \in 0 .. 15 /\ Field(w, 15, 12) \in 0 .. 15
  BY FourBits
<1>2. Slice(w, 21, 10) \in SUBSET Ones(64)
  BY SliceBits, Word32
<1>4. \A n, immr, imms, is64 : DecodeBitmaskImmediate(n, immr, imms, is64) \in SUBSET Ones(64)
  BY DEF DecodeBitmaskImmediate, Low
<1>5. IsTimed(Unknown) /\ IsTimed([Unknown EXCEPT !.op = "NOP"])
  BY DEF IsTimed, Unknown
<1>6. IsTimed(DecodeSIMDLoadStore(w))
  BY DEF IsTimed, Unknown, DecodeSIMDLoadStore
<1>7. IsTimed(DecodeSIMDCopy(w))
  BY DEF IsTimed, Unknown, DecodeSIMDCopy
<1>8. IsTimed(DecodeLoadStorePair(w))
  BY DEF IsTimed, Unknown, DecodeLoadStorePair
<1>9. IsTimed(DecodeDataProcessingImm(w))
  BY <1>2 DEF IsTimed, Unknown, DecodeDataProcessingImm
<1>10. IsTimed(DecodeSIMDThreeSame(w))
  BY DEF IsTimed, Unknown, DecodeSIMDThreeSame
<1>11. IsTimed(DecodePCRelAddressing(w))
  BY DEF IsTimed, Unknown, DecodePCRelAddressing
<1>12. IsTimed(DecodeCondCmp(w))
  BY <1>1 DEF IsTimed, Unknown, DecodeCondCmp
<1>13. IsTimed(DecodeConditionalSelect(w))
  BY <1>1 DEF IsTimed, Unknown, DecodeConditionalSelect
<1>14. IsTimed(DecodeDataProc2Src(w))
  BY DEF IsTimed, Unknown, DecodeDataProc2Src
<1>15. IsTimed(DecodeDataProc3Src(w))
  BY DEF IsTimed, Unknown, DecodeDataProc3Src
<1>16. IsTimed(DecodeExtract(w))
  BY DEF IsTimed, Unknown, DecodeExtract
<1>17. IsTimed(DecodeTestBranch(w))
  BY DEF IsTimed, Unknown, DecodeTestBranch
<1>18. IsTimed(DecodeCompareBranch(w))
  BY DEF IsTimed, Unknown, DecodeCompareBranch
<1>19. IsTimed(DecodeException(w))
  BY DEF IsTimed, Unknown, DecodeException
<1>20. IsTimed(DecodeSystemReg(w))
  BY DEF IsTimed, Unknown, DecodeSystemReg
<1>21. IsTimed(DecodeLoadStoreLiteral(w))
  BY DEF IsTimed, Unknown, DecodeLoadStoreLiteral, WithOffset
<1>22. IsTimed(DecodeBranchImm(w))
  BY DEF IsTimed, Unknown, DecodeBranchImm, WithOffset
<1>23. IsTimed(DecodeBranchCond(w))
  BY <1>1 DEF IsTimed, Unknown, DecodeBranchCond, WithOffset
<1>24. IsTimed(DecodeLoadStoreRegOffset(w))
  BY DEF IsTimed, Unknown, DecodeLoadStoreRegOffset, SizedAccess
<1>25. IsTimed(DecodeLoadStoreRegIndexed(w))
  BY DEF IsTimed, Unknown, DecodeLoadStoreRegIndexed, SizedAccess
<1>26. IsTimed(DecodeLoadStoreImm(w))
  BY DEF IsTimed, Unknown, DecodeLoadStoreImm
<1>27. IsTimed(DecodeMoveWide(w))
  BY DEF IsTimed, Unknown, DecodeMoveWide
<1>28. IsTimed(DecodeLogicalImm(w))
  BY <1>4 DEF IsTimed, Unknown, DecodeLogicalImm
<1>29. IsTimed(DecodeBitfield(w))
  BY DEF IsTimed, Unknown, DecodeBitfield
<1>30. IsTimed(DecodeBranchReg(w))
  BY DEF IsTimed, Unknown, DecodeBranchReg
<1>31. IsTimed(DecodeDataProcessingReg(w))
  BY DEF IsTimed, Unknown, DecodeDataProcessingReg
<1>32. QED
  BY <1>5, <1>6, <1>7, <1>8, <1>9, <1>10, <1>11, <1>12, <1>13, <1>14, <1>15, <1>16, <1>17, <1>18,
     <1>19, <1>20, <1>21, <1>22, <1>23, <1>24, <1>25, <1>26, <1>27, <1>28, <1>29, <1>30, <1>31 DEF Decode

LEMMA InstructionsAreTimed ==
  ASSUME NEW p \in Programs, NEW addr
  PROVE  IsTimed(InstAt(p, addr))
<1>1. IsTimed(Unknown)
  BY DEF IsTimed, Unknown
<1>2. ASSUME addr \in DOMAIN p PROVE Decoded[p[addr]] = Decode(p[addr])
  BY <1>2 DEF Decoded
<1>3. QED
  BY <1>1, <1>2, DecodedTimed DEF InstAt

\* The general registers an instruction names are among those a state has.
NamesRegisters(i) ==
  i.fmt \notin {"SIMDReg", "SIMDLoadStore", "SIMDCopy"} =>
    /\ i.rd \in RegNums \cup {31} /\ i.rn \in RegNums \cup {31} /\ i.rt2 \in RegNums \cup {31}
    /\ i.rm \in RegNums \cup {31, NoRegister}

LEMMA InstructionsNameRegisters ==
  ASSUME NEW p \in Programs, NEW addr
  PROVE  NamesRegisters(InstAt(p, addr))
<1>1. NamesRegisters(Unknown)
  BY RegisterAssumption DEF NamesRegisters, Unknown
<1>2. ASSUME addr \in DOMAIN p PROVE Decoded[p[addr]] = Decode(p[addr])
  BY <1>2 DEF Decoded
<1>3. ASSUME addr \in DOMAIN p PROVE NamesRegisters(Decode(p[addr]))
  BY <1>3, ProgramAssumption DEF NamesRegisters
<1>4. QED
  BY <1>1, <1>2, <1>3 DEF InstAt

---------------------------------------------------------------------------
(* Fast timing: what its states hold.                                       *)

IsWords(regs) == regs \in [RegNums -> SUBSET Ones(64)]

\* A whole state whose registers are words and whose flags are flags.
FastState(a) == IsState(a) /\ IsWords(a.regs) /\ a.fl \in FlagSet

\* What a register of a state reads as is a word.
LEMMA RegistersAreWords ==
  ASSUME NEW a, FastState(a), NEW r \in RegNums \cup {31}
  PROVE  ReadReg(a, r) \in SUBSET Ones(64)
<1>1. a.regs \in [RegNums -> SUBSET Ones(64)] /\ 31 \notin RegNums
  BY RegisterAssumption DEF FastState, IsWords
<1>2. QED
  BY <1>1 DEF ReadReg

LEMMA FastStateChanges ==
  ASSUME NEW a, FastState(a), NEW v
  PROVE  /\ FastState([a EXCEPT !.pc = v]) /\ FastState([a EXCEPT !.mem = v])
         /\ FastState([a EXCEPT !.count = v]) /\ FastState([a EXCEPT !.status = v])
         /\ FastState([a EXCEPT !.code = v])
         /\ v \in FlagSet => FastState([a EXCEPT !.fl = v])
         /\ IsWords(v) => FastState([a EXCEPT !.regs = v])
<1>1. IsState(a) /\ IsWords(a.regs) /\ a.fl \in FlagSet
  BY DEF FastState
<1>2. /\ IsState([a EXCEPT !.pc = v]) /\ IsState([a EXCEPT !.fl = v]) /\ IsState([a EXCEPT !.mem = v])
      /\ IsState([a EXCEPT !.count = v]) /\ IsState([a EXCEPT !.status = v]) /\ IsState([a EXCEPT !.code = v])
  BY <1>1, PartsChange
<1>3. IsWords(v) => IsState([a EXCEPT !.regs = v])
  BY <1>1, PartsChange DEF IsWords, IsRegFile
<1>4. /\ [a EXCEPT !.pc = v].regs = a.regs /\ [a EXCEPT !.pc = v].fl = a.fl
      /\ [a EXCEPT !.mem = v].regs = a.regs /\ [a EXCEPT !.mem = v].fl = a.fl
      /\ [a EXCEPT !.count = v].regs = a.regs /\ [a EXCEPT !.count = v].fl = a.fl
      /\ [a EXCEPT !.status = v].regs = a.regs /\ [a EXCEPT !.status = v].fl = a.fl
      /\ [a EXCEPT !.code = v].regs = a.regs /\ [a EXCEPT !.code = v].fl = a.fl
      /\ [a EXCEPT !.fl = v].regs = a.regs /\ [a EXCEPT !.fl = v].fl = v
      /\ [a EXCEPT !.regs = v].regs = v /\ [a EXCEPT !.regs = v].fl = a.fl
  BY <1>1 DEF IsState
<1>5. QED
  BY <1>1, <1>2, <1>3, <1>4 DEF FastState

LEMMA FastStateWrites ==
  ASSUME NEW a, FastState(a), NEW i
  PROVE  /\ \A r : \A v \in SUBSET Ones(64) : FastState(WriteReg(a, r, v))
         /\ \A f \in FlagSet : FastState(Flagged(a, i, f))
         /\ FastState(Skip(a)) /\ FastState(Jump(a, i)) /\ FastState(Link(a))
         /\ \A code : FastState(Stop(a, code))
<1>1. ASSUME NEW r, NEW v \in SUBSET Ones(64) PROVE FastState(WriteReg(a, r, v))
  <2>1. IsWords([a.regs EXCEPT ![r] = v])
    BY DEF FastState, IsWords
  <2>2. FastState([a EXCEPT !.regs = [a.regs EXCEPT ![r] = v]])
    BY <2>1, FastStateChanges
  <2>3. QED
    BY <2>2 DEF WriteReg
<1>2. \A f \in FlagSet : FastState(Flagged(a, i, f))
  BY FastStateChanges DEF Flagged
<1>3. FastState(Skip(a)) /\ FastState(Jump(a, i))
  BY FastStateChanges DEF Skip, Jump
<1>4. FastState(Link(a))
  <2>1. Plus(a.pc, 4) \in SUBSET Ones(64)
    BY DEF Plus, Add, Low
  <2>2. QED
    BY <1>1, <2>1 DEF Link
<1>5. ASSUME NEW code PROVE FastState(Stop(a, code))
  <2> DEFINE b == [a EXCEPT !.status = "exited"]
  <2>1. FastState(b)
    BY FastStateChanges
  <2>2. Stop(a, code) = [b EXCEPT !.code = code]
    BY DEF Stop
  <2> HIDE DEF b
  <2>3. FastState([b EXCEPT !.code = code])
    BY <2>1, FastStateChanges
  <2>4. QED
    BY <2>2, <2>3, Zenon
<1>6. QED
  BY <1>1, <1>2, <1>3, <1>4, <1>5

\* The flags that are computed are flags.
LEMMA FlagsAreFlags ==
  ASSUME NEW x, NEW y, NEW r, NEW n
  PROVE  /\ UpdateFlagsAdd(x, y, r, n) \in FlagSet
         /\ UpdateFlagsSub(x, y, r, n) \in FlagSet
         /\ UpdateFlagsLogical(r, n) \in FlagSet
         /\ NZCV(x) \in FlagSet
<1>1. \A p \in BOOLEAN, q \in BOOLEAN, s \in BOOLEAN, t \in BOOLEAN : [n |-> p, z |-> q, c |-> s, v |-> t] \in FlagSet
  BY DEF FlagSet
<1> DEFINE b1 == n - 1 \in r   b2 == Low(r, n) = {}   b3 == Less(Low(r, n), Low(x, n))
           b4 == n - 1 \in Not(Xor(x, y), 64) \cap Xor(x, r)
           b5 == ~Less(Low(x, n), Low(y, n))   b6 == n - 1 \in Xor(x, y) \cap Xor(x, r)
           c3 == 3 \in x   c2 == 2 \in x   c1 == 1 \in x   c0 == 0 \in x
<1>2. /\ b1 \in BOOLEAN /\ b2 \in BOOLEAN /\ b3 \in BOOLEAN /\ b4 \in BOOLEAN /\ b5 \in BOOLEAN /\ b6 \in BOOLEAN
      /\ c3 \in BOOLEAN /\ c2 \in BOOLEAN /\ c1 \in BOOLEAN /\ c0 \in BOOLEAN
  <2>1. b3 \in BOOLEAN
    BY DEF Less
  <2>2. QED
    BY <2>1
<1>3. /\ UpdateFlagsAdd(x, y, r, n) = [n |-> b1, z |-> b2, c |-> b3, v |-> b4]
      /\ UpdateFlagsSub(x, y, r, n) = [n |-> b1, z |-> b2, c |-> b5, v |-> b6]
      /\ UpdateFlagsLogical(r, n) = [n |-> b1, z |-> b2, c |-> FALSE, v |-> FALSE]
      /\ NZCV(x) = [n |-> c3, z |-> c2, c |-> c1, v |-> c0]
  BY Zenon DEF UpdateFlagsAdd, UpdateFlagsSub, UpdateFlagsLogical, NZCV
<1> HIDE DEF b1, b2, b3, b4, b5, b6, c0, c1, c2, c3
<1>4. FALSE \in BOOLEAN
  OBVIOUS
<1>5. UpdateFlagsAdd(x, y, r, n) \in FlagSet
  BY <1>1, <1>2, <1>3, Zenon
<1>6. UpdateFlagsSub(x, y, r, n) \in FlagSet
  BY <1>1, <1>2, <1>3, Zenon
<1>7. UpdateFlagsLogical(r, n) \in FlagSet
  BY <1>1, <1>2, <1>3, <1>4, Zenon
<1>8. NZCV(x) \in FlagSet
  BY <1>1, <1>2, <1>3, Zenon
<1>9. QED
  BY <1>5, <1>6, <1>7, <1>8

\* What is read from memory is a word.
LEMMA ReadIsWord ==
  ASSUME NEW mem, NEW addr, NEW n \in {8, 16, 32, 64}
  PROVE  Read(mem, addr, n) \in SUBSET Ones(64)
<1>1. n \div 8 \in {1, 2, 4, 8}
  OBVIOUS
<1> DEFINE bytes == n \div 8
           byte(k) == {8 * k + b : b \in {c \in 0 .. 7 : <<Plus(addr, k), c>> \in mem}}
<1>2. \A k \in 0 .. bytes - 1 : \A b \in 0 .. 7 : 8 * k + b \in 0 .. 63
  BY <1>1
<1>3. ASSUME NEW k \in 0 .. bytes - 1 PROVE byte(k) \subseteq 0 .. 63
  <2>1. \A b \in 0 .. 7 : 8 * k + b \in 0 .. 63
    BY <1>2
  <2>2. ASSUME NEW z \in byte(k) PROVE z \in 0 .. 63
    <3>1. PICK b \in {c \in 0 .. 7 : <<Plus(addr, k), c>> \in mem} : z = 8 * k + b
      OBVIOUS
    <3>2. QED
      BY <2>1, <3>1
  <2>3. QED
    BY <2>2, Zenon
<1>4. Read(mem, addr, n) = UNION {byte(k) : k \in 0 .. bytes - 1}
  BY DEF Read
<1> HIDE DEF byte
<1>5. QED
  BY <1>3, <1>4, Word32

\* A decoded instruction, with all that fast timing relies on.
IsFast(i) == HasForm(i) /\ HasOperation(i) /\ IsDecoded(i) /\ IsTimed(i) /\ NamesRegisters(i)

\* An operation belongs to the formats its decoders give it.
LEMMA FormsOfOperations ==
  ASSUME NEW i, IsFast(i)
  PROVE  /\ i.op \in {"ADD", "SUB"} => i.fmt \in {"DPImm", "DPReg"}
         /\ i.op \in {"AND", "ORR", "EOR", "BIC", "ORN", "EON"} => i.fmt \in {"DPReg", "LogicalImm"}
         /\ i.op \in {"MADD", "MSUB"} => i.fmt = "DataProc3Src"
         /\ i.op \in {"MOVZ", "MOVN", "MOVK"} => i.fmt = "MoveWide"
         /\ i.op \in {"ADR", "ADRP"} => i.fmt = "PCRel"
         /\ i.op \in {"CSEL", "CSINC"} => i.fmt = "CondSelect"
         /\ i.op \in {"UBFM", "SBFM"} => i.fmt = "Bitfield"
         /\ i.op \in {"LSLV", "LSRV", "ASRV"} => i.fmt = "DataProc2Src"
         /\ i.op = "CCMP" => i.fmt = "CondCmp"
         /\ i.op \in {"LDR", "STR", "LDRB", "STRB", "LDRH", "STRH", "LDRSW"} => i.fmt = "LoadStore"
         /\ i.op \in {"LDP", "STP"} => i.fmt = "LoadStorePair"
         /\ i.op = "BCond" => i.fmt = "BranchCond"
         /\ i.op \in {"CBZ", "CBNZ"} => i.fmt = "CompareBranch"
         /\ i.op \in {"TBZ", "TBNZ"} => i.fmt = "TestBranch"
         /\ i.op \in {"B", "BL"} => i.fmt = "Branch"
         /\ i.op = "RET" => i.fmt = "BranchReg"
<1>1. i.op \in {"Unknown", "NOP", "SVC", "BRK"} \/ i.fmt \in Formats
  BY DEF IsFast, HasForm
<1>2. i.fmt = "Branch" => i.op \in {"B", "BL"}
  BY DEF IsFast, IsDecoded
<1>3. i.fmt = "BranchCond" => i.op = "BCond"
  BY DEF IsFast, IsDecoded
<1>4. i.fmt = "BranchReg" => i.op \in {"BR", "BLR", "RET", "Unknown"}
  BY DEF IsFast, IsDecoded
<1>5. i.fmt = "TestBranch" => i.op \in {"TBZ", "TBNZ"}
  BY DEF IsFast, IsDecoded
<1>6. i.fmt = "CompareBranch" => i.op \in {"CBZ", "CBNZ"}
  BY DEF IsFast, IsDecoded
<1>7. i.fmt = "DPImm" => i.op \in {"ADD", "SUB"}
  BY DEF IsFast, IsDecoded
<1>8. i.fmt = "DPReg" => i.op \in {"ADD", "SUB", "AND", "BIC", "ORR", "ORN", "EOR", "EON"}
  BY DEF IsFast, HasOperation
<1>9. i.fmt = "LogicalImm" => i.op \in {"AND", "ORR", "EOR"}
  BY DEF IsFast, HasOperation
<1>10. i.fmt = "Bitfield" => i.op \in {"SBFM", "BFM", "UBFM", "Unknown"}
  BY DEF IsFast, HasOperation
<1>11. i.fmt = "MoveWide" => i.op \in {"MOVN", "MOVZ", "MOVK", "Unknown"}
  BY DEF IsFast, HasOperation
<1>12. i.fmt = "CondSelect" => i.op \in {"CSEL", "CSINC", "CSINV", "CSNEG"}
  BY DEF IsFast, HasOperation
<1>13. i.fmt = "DataProc2Src" => i.op \in {"UDIV", "SDIV", "LSLV", "LSRV", "ASRV", "RORV", "Unknown"}
  BY DEF IsFast, HasOperation
<1>14. i.fmt = "LoadStore" => i.op \in {"LDR", "STR", "LDRB", "STRB", "LDRSB", "LDRH", "STRH", "LDRSH", "LDRSW", "Unknown"}
  BY DEF IsFast, IsDecoded
<1>15. i.fmt = "LoadStorePair" => i.op \in {"LDP", "STP"}
  BY DEF IsFast, IsDecoded
<1>16. i.fmt = "LoadStoreLit" => i.op = "LDRLit"
  BY DEF IsFast, IsDecoded
<1>17. i.fmt = "PCRel" => i.op \in {"ADR", "ADRP"}
  BY DEF IsFast, IsDecoded
<1>18. i.fmt = "Extract" => i.op = "EXTR"
  BY DEF IsFast, IsDecoded
<1>19. i.fmt = "CondCmp" => i.op \in {"CCMP", "CCMN"}
  BY DEF IsFast, IsDecoded
<1>20. i.fmt = "DataProc3Src" => i.op \in {"MADD", "MSUB"}
  BY DEF IsFast, IsDecoded
<1>21. i.fmt = "SystemReg" => i.op = "MRS"
  BY DEF IsFast, IsDecoded
<1>22. i.fmt \in {"SIMDReg", "SIMDLoadStore", "SIMDCopy"} =>
         i.op \in {"VADD", "VSUB", "VMUL", "VFADD", "VFSUB", "VFMUL", "LDRQ", "STRQ", "DUP", "Unknown"}
  BY DEF IsFast, IsTimed
<1>23. QED
  BY <1>1, <1>2, <1>3, <1>4, <1>5, <1>6, <1>7, <1>8, <1>9, <1>10, <1>11, <1>12, <1>13, <1>14, <1>15,
     <1>16, <1>17, <1>18, <1>19, <1>20, <1>21, <1>22 DEF Formats

\* An instruction of the general registers names them.
LEMMA NamedAreWords ==
  ASSUME NEW a, FastState(a), NEW i, IsFast(i), i.rm # NoRegister,
         i.fmt \notin {"SIMDReg", "SIMDLoadStore", "SIMDCopy"}
  PROVE  /\ ReadReg(a, i.rd) \in SUBSET Ones(64) /\ ReadReg(a, i.rn) \in SUBSET Ones(64)
         /\ ReadReg(a, i.rm) \in SUBSET Ones(64) /\ ReadReg(a, i.rt2) \in SUBSET Ones(64)
<1>1. /\ i.rd \in RegNums \cup {31} /\ i.rn \in RegNums \cup {31} /\ i.rt2 \in RegNums \cup {31}
      /\ i.rm \in RegNums \cup {31}
  BY DEF IsFast, NamesRegisters
<1>2. QED
  BY <1>1, RegistersAreWords

\* What fast timing makes of a field, by its bounds.
Unsigned(x, immr, imms, n) ==
  IF imms = n - 1 THEN Shr(Low(x, n), immr)
  ELSE IF imms + 1 = immr THEN Shl(x, n - immr, n)
  ELSE IF immr = 0 THEN Low(x, imms + 1)
  ELSE FieldOf(x, immr, imms)
Signed(x, immr, imms, n) ==
  IF imms = n - 1 THEN Sar(Low(x, n), immr, n)
  ELSE IF imms >= immr THEN SignExtend(FieldOf(x, immr, imms), imms - immr + 1, 64)
  ELSE FieldOf(x, immr, imms)

\* A field of a word, and one whose bounds the width has.
IsField(x, immr, imms, n) ==
  x \in SUBSET Ones(64) /\ n \in {32, 64} /\ immr \in 0 .. 63 /\ imms \in 0 .. 63
IsFieldOf(x, immr, imms, n) ==
  x \in SUBSET Ones(64) /\ n \in {32, 64} /\ immr \in 0 .. n - 1 /\ imms \in 0 .. n - 1

LEMMA FieldsAreWords ==
  ASSUME NEW x, NEW immr, NEW imms, NEW n, IsField(x, immr, imms, n)
  PROVE  Unsigned(x, immr, imms, n) \in SUBSET Ones(64) /\ Signed(x, immr, imms, n) \in SUBSET Ones(64)
<1>0. x \in SUBSET Ones(64) /\ n \in {32, 64} /\ immr \in 0 .. 63 /\ imms \in 0 .. 63
  BY DEF IsField
<1>1. Shr(x, immr) \in SUBSET Ones(64) /\ Shr(Low(x, n), immr) \in SUBSET Ones(64)
  BY <1>0, Word32 DEF Shr, Low
<1>2. Slice(x, imms, immr) \in SUBSET Ones(64)
  BY <1>0, Word32 DEF Slice
<1>3. Ones(n) \subseteq Ones(64)
  BY <1>0, Word32
<1>4. Shl(x, n - immr, n) \in SUBSET Ones(64)
  BY <1>3 DEF Shl, Low
<1>5. Low(x, imms + 1) \in SUBSET Ones(64)
  BY <1>0 DEF Low
<1>6. Sar(Low(x, n), immr, n) \in SUBSET Ones(64)
  BY <1>0, <1>1, Word32 DEF Sar
<1>7. imms >= immr => \A y : SignExtend(y, imms - immr + 1, 64) \in SUBSET Ones(64)
  BY <1>0, Word32 DEF SignExtend, Low, Ones
<1>8. QED
  BY <1>1, <1>2, <1>4, <1>5, <1>6, <1>7 DEF FieldOf, Unsigned, Signed

\* What executeInstruction does, operation by operation.
LEMMA FastExecutes ==
  ASSUME NEW a, NEW i, IsFast(i)
  PROVE  LET e == ExecuteInstruction(a, i)
         IN /\ i.rm = NoRegister => e = [a EXCEPT !.status = "panicked"]
            /\ i.rm # NoRegister =>
                 /\ i.op \in {"ADD", "SUB"} => e = Skip(AddSubInst(a, i))
                 /\ i.op \in {"AND", "ORR", "EOR", "BIC", "ORN", "EON"} => e = Skip(LogicInst(a, i))
                 /\ i.op \in {"MADD", "MSUB"} => e = Skip(MultiplyInst(a, i))
                 /\ i.op \in {"MOVZ", "MOVN", "MOVK"} => e = Skip(MoveInst(a, i))
                 /\ i.op \in {"ADR", "ADRP"} => e = Skip(AddressInst(a, i))
                 /\ i.op \in {"CSEL", "CSINC"} => e = Skip(SelectInst(a, i))
                 /\ i.op = "UBFM" => e = Skip(UBFMInst(a, i))
                 /\ i.op = "SBFM" => e = Skip(SBFMInst(a, i))
                 /\ i.op \in {"LSLV", "LSRV", "ASRV"} => e = Skip(ShiftInst(a, i))
                 /\ i.op = "CCMP" => e = Skip(CompareInst(a, i))
                 /\ i.op = "LDR" => e = Skip(LoadWord(a, i))
                 /\ i.op = "STR" => e = Skip(StoreWord(a, i))
                 /\ i.op \in {"LDRB", "STRB", "LDRH", "STRH", "LDRSW"} => e = Skip(NarrowInst(a, i))
                 /\ i.op \in {"LDP", "STP"} => e = Skip(PairInst(a, i))
                 /\ i.op \in {"BCond", "CBZ", "CBNZ", "TBZ", "TBNZ"} => e = BranchInst(a, i)
                 /\ i.op = "B" => e = Jump(a, i)
                 /\ i.op = "BL" => e = Jump(Link(a), i)
                 /\ i.op = "RET" => e = [a EXCEPT !.pc = ReadReg(a, 30)]
                 /\ i.op = "SVC" => e = HandleSyscall(a)
                 /\ i.op \in Silent \/ i.op \notin Handled => e = Skip(a)
<1>1. i.rm = NoRegister => i.op \in {"CCMP", "CCMN"}
  BY DEF IsFast, IsDecoded
<1>2. QED
  BY <1>1 DEF ExecuteInstruction, Silent, Handled, Timed

\* Every case of the executor leaves a whole state.
LEMMA FastKeepsState ==
  ASSUME NEW a, FastState(a), NEW i, IsFast(i)
  PROVE  FastState(ExecuteInstruction(a, i))
<1> DEFINE simd == i.fmt \in {"SIMDReg", "SIMDLoadStore", "SIMDCopy"}
           e == ExecuteInstruction(a, i)
<1>1. \A r : \A v \in SUBSET Ones(64) : \A b : FastState(b) => FastState(WriteReg(b, r, v))
  BY FastStateWrites
<1>2. \A b : FastState(b) => FastState(Skip(b)) /\ FastState(Jump(b, i)) /\ FastState(Link(b))
  BY FastStateWrites
<1>3. \A b : FastState(b) => \A f \in FlagSet : FastState(Flagged(b, i, f)) /\ FastState([b EXCEPT !.fl = f])
  BY FastStateWrites, FastStateChanges
<1>4. \A b, v : FastState(b) => FastState([b EXCEPT !.mem = v]) /\ FastState([b EXCEPT !.pc = v])
                                 /\ FastState([b EXCEPT !.status = v])
  BY FastStateChanges
<1>5. \A x, y : Add(x, y, 64) \in SUBSET Ones(64) /\ Sub(x, y, 64) \in SUBSET Ones(64)
  BY WordsOf64
<1>6. ASSUME ~simd, i.rm # NoRegister
      PROVE  /\ ReadReg(a, i.rd) \in SUBSET Ones(64) /\ ReadReg(a, i.rn) \in SUBSET Ones(64)
             /\ ReadReg(a, i.rm) \in SUBSET Ones(64) /\ ReadReg(a, i.rt2) \in SUBSET Ones(64)
  BY <1>6, NamedAreWords
<1>7. CASE i.rm = NoRegister
  <2>1. e = [a EXCEPT !.status = "panicked"]
    BY <1>7, FastExecutes
  <2>2. FastState([a EXCEPT !.status = "panicked"])
    BY <1>4, Zenon
  <2>3. QED
    BY <2>1, <2>2, Zenon
<1>8. CASE i.rm # NoRegister /\ i.op \in {"ADD", "SUB"}
  <2>1. AddOrSub(i, RnValue(a, i), Operand(a, i), 64) \in SUBSET Ones(64)
    BY <1>5 DEF AddOrSub
  <2>2. FastState(AddSubInst(a, i))
    BY <1>1, <1>3, <2>1, FlagsAreFlags DEF AddSubInst
  <2>3. e = Skip(AddSubInst(a, i))
    BY <1>8, FastExecutes
  <2>4. QED
    BY <1>2, <2>2, <2>3
<1>9. CASE i.rm # NoRegister /\ i.op \in {"AND", "ORR", "EOR", "BIC", "ORN", "EON"}
  <2>1. i.fmt \in {"DPReg", "LogicalImm"}
    BY <1>9, FormsOfOperations
  <2>2. RnValue(a, i) \in SUBSET Ones(64) /\ Operand(a, i) \in SUBSET Ones(64)
    BY <1>6, <1>9, <2>1 DEF RnValue, RmValue, Operand, IsFast, IsTimed
  <2>3. Logic(i.op, RnValue(a, i), Operand(a, i), 64) \in SUBSET Ones(64)
    <3>1. \A op \in {"AND", "BIC", "ORR", "ORN", "EOR", "EON"} :
            Logic(op, RnValue(a, i), Operand(a, i), 64) \in SUBSET Ones(64)
      BY <2>2, WordsOf64
    <3>2. QED
      BY <1>9, <3>1
  <2>4. FastState(LogicInst(a, i))
    BY <1>1, <1>3, <2>3, FlagsAreFlags DEF LogicInst
  <2>5. e = Skip(LogicInst(a, i))
    BY <1>9, FastExecutes
  <2>6. QED
    BY <1>2, <2>4, <2>5
<1>10. CASE i.rm # NoRegister /\ i.op \in {"MADD", "MSUB"}
  <2>1. FastState(MultiplyInst(a, i))
    BY <1>1, <1>5 DEF MultiplyInst
  <2>2. e = Skip(MultiplyInst(a, i))
    BY <1>10, FastExecutes
  <2>3. QED
    BY <1>2, <2>1, <2>2
<1>11. CASE i.rm # NoRegister /\ i.op \in {"MOVZ", "MOVN", "MOVK"}
  <2>1. ReadReg(a, i.rd) \in SUBSET Ones(64)
    BY <1>6, <1>11, FormsOfOperations
  <2>2. Shl(i.imm, i.shift, 64) \in SUBSET Ones(64) /\ Not(Shl(i.imm, i.shift, 64), 64) \in SUBSET Ones(64)
    BY DEF Shl, Low, Not
  <2>3. FastState(MoveInst(a, i))
    BY <1>1, <1>11, <2>1, <2>2 DEF MoveInst
  <2>4. e = Skip(MoveInst(a, i))
    BY <1>11, FastExecutes
  <2>5. QED
    BY <1>2, <2>3, <2>4
<1>12. CASE i.rm # NoRegister /\ i.op \in {"ADR", "ADRP"}
  <2>1. FastState(AddressInst(a, i))
    BY <1>1, <1>5 DEF AddressInst
  <2>2. e = Skip(AddressInst(a, i))
    BY <1>12, FastExecutes
  <2>3. QED
    BY <1>2, <2>1, <2>2
<1>13. CASE i.rm # NoRegister /\ i.op \in {"CSEL", "CSINC"}
  <2>1. RnValue(a, i) \in SUBSET Ones(64) /\ RmValue(a, i) \in SUBSET Ones(64)
    BY <1>6, <1>13, FormsOfOperations DEF RnValue, RmValue
  <2>2. FastState(SelectInst(a, i))
    BY <1>1, <1>5, <2>1 DEF SelectInst
  <2>3. e = Skip(SelectInst(a, i))
    BY <1>13, FastExecutes
  <2>4. QED
    BY <1>2, <2>2, <2>3
<1>14. CASE i.rm # NoRegister /\ i.op \in {"UBFM", "SBFM"}
  <2> DEFINE x == RnValue(a, i)   immr == Num(i.imm)   imms == Num(i.imm2)   n == Size(i)
  <2>1. x \in SUBSET Ones(64)
    BY <1>6, <1>14, FormsOfOperations DEF RnValue
  <2>2. immr \in 0 .. 63 /\ imms \in 0 .. 63 /\ n \in {32, 64}
    BY <1>14, FormsOfOperations, SixBits DEF IsFast, IsDecoded, Size
  <2>3. Unsigned(x, immr, imms, n) \in SUBSET Ones(64) /\ Signed(x, immr, imms, n) \in SUBSET Ones(64)
    <3> HIDE DEF x, immr, imms, n, e
    <3>1. IsField(x, immr, imms, n)
      BY <2>1, <2>2 DEF IsField
    <3>2. QED
      BY <3>1, FieldsAreWords
  <2>4. UBFMInst(a, i) = WriteReg(a, i.rd, Unsigned(x, immr, imms, n))
    BY Zenon DEF UBFMInst, Unsigned
  <2>5. SBFMInst(a, i) = WriteReg(a, i.rd, Signed(x, immr, imms, n))
    BY Zenon DEF SBFMInst, Signed
  <2>6. e = Skip(UBFMInst(a, i)) \/ e = Skip(SBFMInst(a, i))
    BY <1>14, FastExecutes
  <2> HIDE DEF x, immr, imms, n, e
  <2>7. FastState(UBFMInst(a, i)) /\ FastState(SBFMInst(a, i))
    BY <1>1, <2>3, <2>4, <2>5
  <2>8. FastState(e)
    BY <1>2, <2>6, <2>7
  <2>9. QED
    BY <2>8 DEF e
<1>15. CASE i.rm # NoRegister /\ i.op \in {"LSLV", "LSRV", "ASRV"}
  <2> DEFINE x == RnValue(a, i)   k == Num(Low(RmValue(a, i), 6))
  <2>1. x \in SUBSET Ones(64)
    BY <1>6, <1>15, FormsOfOperations DEF RnValue
  <2>2. k \in 0 .. 63
    <3>1. Low(RmValue(a, i), 6) \in SUBSET (0 .. 5)
      BY DEF Low, Ones
    <3>2. QED
      BY <3>1, SixBits
  <2> HIDE DEF x, k
  <2>3. Shl(x, k, 64) \in SUBSET Ones(64) /\ Shr(x, k) \in SUBSET Ones(64) /\ Sar(x, k, 64) \in SUBSET Ones(64)
    BY <2>1, <2>2, WordsOf64
  <2>4. FastState(ShiftInst(a, i))
    BY <1>1, <1>15, <2>3 DEF ShiftInst, x, k
  <2>5. e = Skip(ShiftInst(a, i))
    BY <1>15, FastExecutes
  <2>6. QED
    BY <1>2, <2>4, <2>5
<1>16. CASE i.rm # NoRegister /\ i.op = "CCMP"
  <2>1. FastState(CompareInst(a, i))
    BY <1>3, FlagsAreFlags DEF CompareInst
  <2>2. e = Skip(CompareInst(a, i))
    BY <1>16, FastExecutes
  <2>3. QED
    BY <1>2, <2>1, <2>2
<1>17. CASE i.rm # NoRegister /\ i.op = "LDR"
  <2>1. Moved(a, i) \in SUBSET Ones(64)
    BY <1>5 DEF Moved
  <2>2. \A addr : Read(a.mem, addr, 64) \in SUBSET Ones(64)
    BY ReadIsWord
  <2>3. FastState(LoadWord(a, i))
    BY <1>1, <2>1, <2>2 DEF LoadWord
  <2>4. e = Skip(LoadWord(a, i))
    BY <1>17, FastExecutes
  <2>5. QED
    BY <1>2, <2>3, <2>4
<1>18. CASE i.rm # NoRegister /\ i.op = "STR"
  <2>1. Moved(a, i) \in SUBSET Ones(64)
    BY <1>5 DEF Moved
  <2>2. FastState(StoreWord(a, i))
    BY <1>1, <1>4, <2>1 DEF StoreWord
  <2>3. e = Skip(StoreWord(a, i))
    BY <1>18, FastExecutes
  <2>4. QED
    BY <1>2, <2>2, <2>3
<1>19. CASE i.rm # NoRegister /\ i.op \in {"LDRB", "STRB", "LDRH", "STRH", "LDRSW"}
  <2>1. AccessSize(i) \in {8, 16, 32, 64}
    BY <1>19 DEF AccessSize
  <2>2. \A addr : Read(a.mem, addr, AccessSize(i)) \in SUBSET Ones(64)
    BY <2>1, ReadIsWord
  <2>3. \A x : SignExtend(x, 32, 64) \in SUBSET Ones(64)
    BY Word32 DEF SignExtend, Low
  <2>4. FastState(NarrowInst(a, i))
    BY <1>1, <1>4, <2>2, <2>3 DEF NarrowInst
  <2>5. e = Skip(NarrowInst(a, i))
    BY <1>19, FastExecutes
  <2>6. QED
    BY <1>2, <2>4, <2>5
<1>20. CASE i.rm # NoRegister /\ i.op \in {"LDP", "STP"}
  <2>1. Moved(a, i) \in SUBSET Ones(64)
    BY <1>5 DEF Moved
  <2>2. \A addr : Read(a.mem, addr, 64) \in SUBSET Ones(64)
    BY ReadIsWord
  <2>3. FastState(PairInst(a, i))
    <3>1. \A p, q : FastState(WriteReg(WriteReg(a, i.rd, Read(a.mem, p, 64)), i.rt2, Read(a.mem, q, 64)))
      BY <1>1, <2>2
    <3>2. QED
      BY <1>1, <1>4, <2>1, <3>1 DEF PairInst
  <2>4. e = Skip(PairInst(a, i))
    BY <1>20, FastExecutes
  <2>5. QED
    BY <1>2, <2>3, <2>4
<1>21. CASE i.rm # NoRegister /\ i.op \in {"BCond", "CBZ", "CBNZ", "TBZ", "TBNZ", "B", "BL", "RET"}
  <2>1. \/ e = Jump(a, i) \/ e = Skip(a) \/ e = Jump(Link(a), i)
        \/ e = [a EXCEPT !.pc = ReadReg(a, 30)]
    BY <1>21, FastExecutes DEF BranchInst
  <2>2. /\ FastState(Jump(a, i)) /\ FastState(Skip(a)) /\ FastState(Jump(Link(a), i))
        /\ FastState([a EXCEPT !.pc = ReadReg(a, 30)])
    BY <1>2, <1>4, Zenon
  <2>3. QED
    BY <2>1, <2>2, Zenon
<1>22. CASE i.rm # NoRegister /\ i.op = "SVC"
  <2>1. FastState(Handle(a))
    BY <1>1, <1>5, FastStateWrites DEF Handle, Negate
  <2>2. e = HandleSyscall(a)
    BY <1>22, FastExecutes
  <2>3. QED
    BY <1>2, <2>1, <2>2 DEF HandleSyscall
<1>23. CASE i.rm # NoRegister /\ (i.op \in Silent \/ i.op \notin Handled)
  <2>1. e = Skip(a)
    BY <1>23, FastExecutes
  <2>2. QED
    BY <1>2, <2>1
<1>24. QED
  BY <1>7, <1>8, <1>9, <1>10, <1>11, <1>12, <1>13, <1>14, <1>15, <1>16, <1>17, <1>18, <1>19, <1>20,
     <1>21, <1>22, <1>23 DEF Handled, Timed, Silent

LEMMA ProgramsAreFast ==
  ASSUME NEW p \in Programs, NEW addr
  PROVE  IsFast(InstAt(p, addr))
  BY InstructionsHaveForms, InstructionsHaveOperations, InstructionsAreDecoded, InstructionsAreTimed,
     InstructionsNameRegisters DEF IsFast

\* While fast timing runs, the program is one of the loaded ones and arch a whole state.
FastRuns == machine = "fast" => prog \in Programs /\ FastState(arch)

LEMMA FastKeepsRunning == SimSpec => []FastRuns
<1>1. SimInit => FastRuns
  BY SetupAssumption DEF SimInit, FastInit, Init, FastRuns, Start, FastState, IsWords, FlagSet, IsState, IsRegFile
<1>2. FastRuns /\ [SimNext]_simVars => FastRuns'
  <2> SUFFICES ASSUME FastRuns, [SimNext]_simVars, machine' = "fast"
               PROVE  prog' \in Programs /\ FastState(arch')
    BY DEF FastRuns
  <2>1. CASE Ticks
    <3> DEFINE i == InstAt(prog, arch.pc)
               done == ExecuteInstruction(arch, i)
    <3>1. prog' = prog /\ prog \in Programs /\ FastState(arch)
      BY <2>1 DEF Ticks, Tick, FastRuns
    <3>2. FastState(done)
      BY <3>1, ProgramsAreFast, FastKeepsState
    <3>3. \/ arch' = Stop(arch, {}) \/ arch' = Stop(arch, Failed)
          \/ \E k : arch' = [done EXCEPT !.count = k]
      BY <2>1, Zenon DEF Ticks, Tick
    <3> HIDE DEF done
    <3>4. /\ FastState(Stop(arch, {})) /\ FastState(Stop(arch, Failed))
          /\ \A k : FastState([done EXCEPT !.count = k])
      BY <3>1, <3>2, FastStateChanges, FastStateWrites
    <3>5. QED
      BY <3>1, <3>3, <3>4, Zenon
  <2>2. CASE Emulates \/ GoesThrough \/ Fuses
    BY <2>2 DEF Emulates, GoesThrough, Fuses
  <2>3. CASE UNCHANGED simVars
    BY <2>3 DEF simVars, fastVars, FastRuns, FastState, IsWords, IsState
  <2>4. QED
    BY <2>1, <2>2, <2>3 DEF SimNext
<1>3. QED
  BY <1>1, <1>2, PTL DEF SimSpec

---------------------------------------------------------------------------
(* What is compared of two results.                                         *)

LEMMA CountIsNotCompared ==
  ASSUME NEW a, IsState(a), NEW i, NEW k
  PROVE  Halved([a EXCEPT !.count = k], i) = Halved(a, i)
<1>1. Visible([a EXCEPT !.count = k]) = Visible(a)
  BY DEF IsState, Visible
<1>2. QED
  BY <1>1 DEF Halved

\* Two words with the same lower half, written to the destination of a 32-bit instruction,
\* are not told apart.
LEMMA SameHalves ==
  ASSUME NEW a, IsState(a), NEW i, NEW pc, NEW regs, IsRegFile(regs), NEW sp, NEW fl, NEW mem,
         NEW v \in SUBSET Ones(64), NEW u \in SUBSET Ones(64), Low(v, Size(i)) = Low(u, Size(i)),
         i.rd \in RegNums \cup {31}
  PROVE  Halved(Put(a, pc, Wrote(regs, i.rd, v), sp, fl, mem), i) =
         Halved(Put(a, pc, Wrote(regs, i.rd, u), sp, fl, mem), i)
<1> DEFINE r == i.rd
           shown == IF a.status = "exited" THEN {} ELSE pc
           s(w) == Put(a, pc, Wrote(regs, r, w), sp, fl, mem)
<1>1. CASE i.is64
  <2>1. v = u
    BY <1>1, LowOfWord DEF Size
  <2>2. QED
    BY <2>1
<1>2. CASE r = 31
  BY <1>2 DEF Wrote
<1>3. CASE ~i.is64 /\ r # 31
  <2>1. r \in RegNums /\ 31 \notin RegNums /\ Narrow(i) /\ Size(i) = 32
    BY <1>3, RegisterAssumption DEF Narrow, Size
  <2>2. ASSUME NEW w
        PROVE  Visible(s(w)) = Whole(shown, Wrote(regs, r, w), sp, fl, a.vec, mem, 0, a.status, a.code)
    <3> DEFINE q == Wrote(regs, r, w)   e == a.vec   m == mem   c == a.count   t == a.status   d == a.code
               x0 == Whole(pc, q, sp, fl, e, m, c, t, d)
    <3>1. s(w) = x0
      BY PutIsWhole
    <3>2. x0.status = t
      BY DEF Whole
    <3> HIDE DEF e, c, t, d, q
    <3>3. [x0 EXCEPT !.count = 0, !.pc = shown] = Whole(shown, q, sp, fl, e, m, 0, t, d)
      <4> HIDE DEF shown
      <4> DEFINE x1 == Whole(pc, q, sp, fl, e, m, 0, t, d)
      <4>1. [x0 EXCEPT !.count = 0] = x1
        BY DEF Whole
      <4>2. [x0 EXCEPT !.count = 0, !.pc = shown] = WithPC([x0 EXCEPT !.count = 0], shown)
        BY DEF WithPC
      <4> HIDE DEF x0, m
      <4>3. WithPC(x1, shown) = Whole(shown, q, sp, fl, e, m, 0, t, d)
        BY WholeChanges
      <4>4. QED
        BY <4>1, <4>2, <4>3
    <3> HIDE DEF x0, s
    <3>4. Visible(x0) = [x0 EXCEPT !.count = 0, !.pc = shown]
      BY <3>2 DEF Visible, x0, t, Whole
    <3>5. QED
      BY <3>1, <3>3, <3>4 DEF e, c, t, d, q
  <2>3. ASSUME NEW w
        PROVE  Halved(s(w), i) = Whole(shown, Wrote(regs, r, Low(w, 32)), sp, fl, a.vec, mem, 0, a.status, a.code)
    <3> DEFINE x == Visible(s(w))
               q == Wrote(regs, r, w)
    <3>1. Halved(s(w), i) = WithRegs(x, [x.regs EXCEPT ![r] = Low(@, 32)])
      <4> HIDE DEF s
      <4>1. QED
        BY <2>1 DEF Halved, WithRegs
    <3>2. x.regs = q
      <4> HIDE DEF q, s, shown
      <4>1. \A e, m, t, d : Whole(shown, q, sp, fl, e, m, 0, t, d).regs = q
        BY DEF Whole
      <4>2. x = Whole(shown, q, sp, fl, a.vec, mem, 0, a.status, a.code)
        BY <2>2 DEF q
      <4> HIDE DEF x
      <4>3. QED
        BY <4>1, <4>2
    <3>3. [q EXCEPT ![r] = Low(@, 32)] = Wrote(regs, r, Low(w, 32))
      BY <1>3, <2>1 DEF Wrote, IsRegFile
    <3> HIDE DEF x, q, shown, s
    <3>4. x = Whole(shown, q, sp, fl, a.vec, mem, 0, a.status, a.code)
      BY <2>2 DEF x, q
    <3>5. QED
      BY <3>1, <3>2, <3>3, <3>4, WholeChanges
  <2> HIDE DEF s
  <2>4. Low(v, 32) = Low(u, 32)
    BY <2>1
  <2>5. Halved(s(v), i) = Halved(s(u), i)
    BY <2>3, <2>4
  <2>6. QED
    BY <2>5 DEF s
<1>4. QED
  BY <1>1, <1>2, <1>3

\* An instruction that computes one register, and flags.
LEMMA OneResult ==
  ASSUME NEW a, IsState(a), NEW i, i.rd \in RegNums \cup {31}, NEW v \in SUBSET Ones(64),
         NEW u \in SUBSET Ones(64), Low(v, Size(i)) = Low(u, Size(i)), NEW f
  PROVE  /\ Halved(Skip(WriteReg(a, i.rd, v)), i) = Halved(Skip(WriteReg(a, i.rd, u)), i)
         /\ Halved(Skip(Flagged(WriteReg(a, i.rd, v), i, f)), i) =
            Halved(Skip(Flagged(WriteReg(a, i.rd, u), i, f)), i)
<1>1. IsRegFile(a.regs)
  BY DEF IsState
<1> DEFINE g == IF i.setFlags THEN f ELSE a.fl
           pc == Plus(a.pc, 4)
<1>2. ASSUME NEW w
      PROVE  /\ Skip(WriteReg(a, i.rd, w)) = Put(a, pc, Wrote(a.regs, i.rd, w), a.sp, a.fl, a.mem)
             /\ Skip(Flagged(WriteReg(a, i.rd, w), i, f)) = Put(a, pc, Wrote(a.regs, i.rd, w), a.sp, g, a.mem)
  BY EmulatorComputes
<1> HIDE DEF g, pc
<1>3. ASSUME NEW h
      PROVE  Halved(Put(a, pc, Wrote(a.regs, i.rd, v), a.sp, h, a.mem), i) =
             Halved(Put(a, pc, Wrote(a.regs, i.rd, u), a.sp, h, a.mem), i)
  BY <1>1, SameHalves
<1>4. QED
  BY <1>2, <1>3

---------------------------------------------------------------------------
(* Fast timing against the emulator, format by format.                      *)

\* What an instruction is when no difference of fast timing is named for it.
FastByName(a, i) ==
  /\ ~(i.op \notin Handled)
  /\ ~(i.op = "MRS")
  /\ ~(i.op = "DUP")
  /\ ~(i.rm = NoRegister)
  /\ ~(i.fmt = "DPReg" /\ i.shiftAmount > 0)
  /\ ~(i.fmt = "DPImm" /\ i.shift > 0)
  /\ ~(NamesSP(i))
  /\ ~(BasedOnSP(i))
  /\ ~(i.fmt = "PCRel")
  /\ ~(i.index = "regBase")
  /\ ~(Indexed(i) /\ i.op \in {"LDRB", "STRB", "LDRH", "STRH", "LDRSW"})
  /\ ~(Indexed(i) /\ i.op = "LDR" /\ i.rd = i.rn)
  /\ ~(i.index = "post" /\ i.op \in {"LDP", "STP"})
  /\ ~(Narrow(i) /\ i.op \in {"STR", "LDP", "STP"})
  /\ ~(Narrow(i) /\ i.op \in {"LSLV", "LSRV", "ASRV"} /\ 5 \in ReadReg(a, i.rm))
  /\ ~(Narrow(i) /\ i.op \in {"LSRV", "ASRV"}
       /\ (Upper(a, i.rn) \/ (i.op = "ASRV" /\ 31 \in ReadReg(a, i.rn))))
  /\ ~(Narrow(i) /\ i.op \in {"CBZ", "CBNZ"} /\ Upper(a, i.rd))
  /\ ~(i.op = "RET" /\ i.rn # 30)
  /\ ~(i.op \in {"UBFM", "SBFM"} /\ ~Extracts(i)
       /\ ~(i.op = "UBFM" /\ Num(i.imm2) + 1 = Num(i.imm)))
  /\ ~(Narrow(i) /\ i.op \in {"UBFM", "SBFM"} /\ 5 \in i.imm \cup i.imm2)
  /\ ~(Limited(a))

\* No name is in FastDiffers when none of its conditions holds.
LEMMA NoFastDifference ==
  ASSUME NEW a, NEW i, FastDiffers(a, i) = {}
  PROVE  FastByName(a, i)
<1>1. ASSUME i.op \notin Handled PROVE FALSE
  <2>1. "no case: one cycle and no effect" \in FastDiffers(a, i)
    BY <1>1, Zenon DEF FastDiffers, When
  <2>2. QED
    BY <2>1, Zenon
<1>2. ASSUME i.op = "MRS" PROVE FALSE
  <2>1. "system registers are not read" \in FastDiffers(a, i)
    BY <1>2, Zenon DEF FastDiffers, When
  <2>2. QED
    BY <2>1, Zenon
<1>3. ASSUME i.op = "DUP" PROVE FALSE
  <2>1. "vector registers are not written" \in FastDiffers(a, i)
    BY <1>3, Zenon DEF FastDiffers, When
  <2>2. QED
    BY <2>1, Zenon
<1>4. ASSUME i.rm = NoRegister PROVE FALSE
  <2>1. "an immediate conditional compare names no register" \in FastDiffers(a, i)
    BY <1>4, Zenon DEF FastDiffers, When
  <2>2. QED
    BY <2>1, Zenon
<1>5. ASSUME i.fmt = "DPReg" /\ i.shiftAmount > 0 PROVE FALSE
  <2>1. "the register operand is not shifted" \in FastDiffers(a, i)
    BY <1>5, Zenon DEF FastDiffers, When
  <2>2. QED
    BY <2>1, Zenon
<1>6. ASSUME i.fmt = "DPImm" /\ i.shift > 0 PROVE FALSE
  <2>1. "the immediate is not shifted" \in FastDiffers(a, i)
    BY <1>6, Zenon DEF FastDiffers, When
  <2>2. QED
    BY <2>1, Zenon
<1>7. ASSUME NamesSP(i) PROVE FALSE
  <2>1. "31 is not SP" \in FastDiffers(a, i)
    BY <1>7, Zenon DEF FastDiffers, When
  <2>2. QED
    BY <2>1, Zenon
<1>8. ASSUME BasedOnSP(i) PROVE FALSE
  <2>1. "31 is not SP" \in FastDiffers(a, i)
    BY <1>8, Zenon DEF FastDiffers, When
  <2>2. QED
    BY <2>1, Zenon
<1>9. ASSUME i.fmt = "PCRel" PROVE FALSE
  <2>1. "the PC offset is not added" \in FastDiffers(a, i)
    BY <1>9, Zenon DEF FastDiffers, When
  <2>2. QED
    BY <2>1, Zenon
<1>10. ASSUME i.index = "regBase" PROVE FALSE
  <2>1. "the offset register is not added" \in FastDiffers(a, i)
    BY <1>10, Zenon DEF FastDiffers, When
  <2>2. QED
    BY <2>1, Zenon
<1>11. ASSUME Indexed(i) /\ i.op \in {"LDRB", "STRB", "LDRH", "STRH", "LDRSW"} PROVE FALSE
  <2>1. "the index mode of a narrow access" \in FastDiffers(a, i)
    BY <1>11, Zenon DEF FastDiffers, When
  <2>2. QED
    BY <2>1, Zenon
<1>12. ASSUME Indexed(i) /\ i.op = "LDR" /\ i.rd = i.rn PROVE FALSE
  <2>1. "the loaded base" \in FastDiffers(a, i)
    BY <1>12, Zenon DEF FastDiffers, When
  <2>2. QED
    BY <2>1, Zenon
<1>13. ASSUME i.index = "post" /\ i.op \in {"LDP", "STP"} PROVE FALSE
  <2>1. "the address of a post-indexed pair" \in FastDiffers(a, i)
    BY <1>13, Zenon DEF FastDiffers, When
  <2>2. QED
    BY <2>1, Zenon
<1>14. ASSUME Narrow(i) /\ i.op \in {"STR", "LDP", "STP"} PROVE FALSE
  <2>1. "64 bits are accessed" \in FastDiffers(a, i)
    BY <1>14, Zenon DEF FastDiffers, When
  <2>2. QED
    BY <2>1, Zenon
<1>15. ASSUME Narrow(i) /\ i.op \in {"LSLV", "LSRV", "ASRV"} /\ 5 \in ReadReg(a, i.rm) PROVE FALSE
  <2>1. "the shift is modulo 64" \in FastDiffers(a, i)
    BY <1>15, Zenon DEF FastDiffers, When
  <2>2. QED
    BY <2>1, Zenon
<1>16. ASSUME Narrow(i) /\ i.op \in {"LSRV", "ASRV"}
              /\ (Upper(a, i.rn) \/ (i.op = "ASRV" /\ 31 \in ReadReg(a, i.rn))) PROVE FALSE
  <2>1. "the upper half is shifted in" \in FastDiffers(a, i)
    BY <1>16, Zenon DEF FastDiffers, When
  <2>2. QED
    BY <2>1, Zenon
<1>17. ASSUME Narrow(i) /\ i.op \in {"CBZ", "CBNZ"} /\ Upper(a, i.rd) PROVE FALSE
  <2>1. "the upper half is tested" \in FastDiffers(a, i)
    BY <1>17, Zenon DEF FastDiffers, When
  <2>2. QED
    BY <2>1, Zenon
<1>18. ASSUME i.op = "RET" /\ i.rn # 30 PROVE FALSE
  <2>1. "X30 is returned to" \in FastDiffers(a, i)
    BY <1>18, Zenon DEF FastDiffers, When
  <2>2. QED
    BY <2>1, Zenon
<1>19. ASSUME i.op \in {"UBFM", "SBFM"} /\ ~Extracts(i)
              /\ ~(i.op = "UBFM" /\ Num(i.imm2) + 1 = Num(i.imm)) PROVE FALSE
  <2>1. "a field moved up" \in FastDiffers(a, i)
    BY <1>19, Zenon DEF FastDiffers, When
  <2>2. QED
    BY <2>1, Zenon
<1>20. ASSUME Narrow(i) /\ i.op \in {"UBFM", "SBFM"} /\ 5 \in i.imm \cup i.imm2 PROVE FALSE
  <2>1. "a 32-bit field beyond bit 31" \in FastDiffers(a, i)
    BY <1>20, Zenon DEF FastDiffers, When
  <2>2. QED
    BY <2>1, Zenon
<1>21. ASSUME Limited(a) PROVE FALSE
  <2>1. "the instruction limit is not an error" \in FastDiffers(a, i)
    BY <1>21, Zenon DEF FastDiffers, When
  <2>2. QED
    BY <2>1, Zenon
<1>22. QED
  BY <1>1, <1>2, <1>3, <1>4, <1>5, <1>6, <1>7, <1>8, <1>9, <1>10, <1>11, <1>12, <1>13, <1>14, <1>15, <1>16, <1>17, <1>18, <1>19, <1>20, <1>21 DEF FastByName

\* Both executors do the same, as far as it is compared.
FollowsEmulator(a, i) == Halved(ExecuteInstruction(a, i), i) = Halved(Execute(a, i), i)

\* A word of n bits is its own lower n bits, and a word of 64.
LEMMA ShortWord ==
  ASSUME NEW n \in {32, 64}, NEW x \in SUBSET Ones(n)
  PROVE  Low(x, n) = x /\ x \in SUBSET Ones(64)
  BY Word32 DEF Low

\* The operands of an instruction of the general registers are words, its width one of two.
LEMMA FastOperands ==
  ASSUME NEW a, FastState(a), NEW i, IsFast(i), i.rm # NoRegister,
         i.fmt \notin {"SIMDReg", "SIMDLoadStore", "SIMDCopy"}
  PROVE  /\ IsState(a) /\ i.rd \in RegNums \cup {31} /\ Size(i) \in {32, 64}
         /\ ReadReg(a, i.rd) \in SUBSET Ones(64) /\ ReadReg(a, i.rn) \in SUBSET Ones(64)
         /\ ReadReg(a, i.rm) \in SUBSET Ones(64) /\ ReadReg(a, i.rt2) \in SUBSET Ones(64)
         /\ \A x : Low(x, Size(i)) \in SUBSET Ones(Size(i))
<1>1. IsState(a) /\ i.rd \in RegNums \cup {31} /\ Size(i) \in {32, 64}
  BY DEF FastState, IsFast, NamesRegisters, Size
<1>2. \A x : Low(x, Size(i)) \in SUBSET Ones(Size(i))
  BY DEF Low
<1>3. QED
  BY <1>1, <1>2, NamedAreWords

\* One result, written by both with the same lower half.
LEMMA ResultsFollow ==
  ASSUME NEW a, FastState(a), NEW i, i.rd \in RegNums \cup {31},
         NEW v \in SUBSET Ones(64), NEW u \in SUBSET Ones(Size(i)), Low(v, Size(i)) = u,
         ExecuteInstruction(a, i) = Skip(WriteReg(a, i.rd, v)), Execute(a, i) = Skip(WriteReg(a, i.rd, u))
  PROVE  FollowsEmulator(a, i)
<1>1. Size(i) \in {32, 64} /\ IsState(a)
  BY DEF Size, FastState
<1>2. u \in SUBSET Ones(64) /\ Low(u, Size(i)) = u
  BY <1>1, ShortWord
<1>3. Halved(Skip(WriteReg(a, i.rd, v)), i) = Halved(Skip(WriteReg(a, i.rd, u)), i)
  BY <1>1, <1>2, OneResult
<1>4. QED
  BY <1>3 DEF FollowsEmulator

LEMMA FlaggedFollow ==
  ASSUME NEW a, FastState(a), NEW i, i.rd \in RegNums \cup {31},
         NEW v \in SUBSET Ones(64), NEW u \in SUBSET Ones(Size(i)), Low(v, Size(i)) = u, NEW f,
         ExecuteInstruction(a, i) = Skip(Flagged(WriteReg(a, i.rd, v), i, f)),
         Execute(a, i) = Skip(Flagged(WriteReg(a, i.rd, u), i, f))
  PROVE  FollowsEmulator(a, i)
<1>1. Size(i) \in {32, 64} /\ IsState(a)
  BY DEF Size, FastState
<1>2. u \in SUBSET Ones(64) /\ Low(u, Size(i)) = u
  BY <1>1, ShortWord
<1>3. Halved(Skip(Flagged(WriteReg(a, i.rd, v), i, f)), i) = Halved(Skip(Flagged(WriteReg(a, i.rd, u), i, f)), i)
  BY <1>1, <1>2, OneResult
<1>4. QED
  BY <1>3 DEF FollowsEmulator

LEMMA ShiftedByNothing ==
  ASSUME NEW x \in SUBSET Ones(64)
  PROVE  Shl(x, 0, 64) = x
<1>1. \A b \in x : b + 0 = b
  BY Word32
<1>2. {b + 0 : b \in x} = x
  BY <1>1, Zenon
<1>3. QED
  BY <1>2 DEF Shl, Low

\* ADD and SUB: one 64-bit operation, the flags of the width.
LEMMA SumsFollow ==
  ASSUME NEW a, FastState(a), NEW i, IsFast(i), FastByName(a, i), i.op \in {"ADD", "SUB"}
  PROVE  FollowsEmulator(a, i)
<1> DEFINE n == Size(i)
           x == ReadReg(a, i.rn)
           y == Operand(a, i)
           r == AddOrSub(i, x, y, 64)
           s == AddOrSub(i, Low(x, n), Low(y, n), n)
           f == ArithFlags(i, Low(x, n), Low(y, n), s, n)
<1>1. i.fmt \in {"DPImm", "DPReg"} /\ i.rm # NoRegister
  BY FormsOfOperations DEF FastByName
<1>2. /\ IsState(a) /\ i.rd \in RegNums \cup {31} /\ n \in {32, 64}
      /\ x \in SUBSET Ones(64) /\ ReadReg(a, i.rm) \in SUBSET Ones(64)
      /\ \A z : Low(z, n) \in SUBSET Ones(n)
  BY <1>1, FastOperands
<1>3. y \in SUBSET Ones(64)
  BY <1>1, <1>2 DEF Operand, RmValue, IsFast, IsTimed
<1>4. ExecuteInstruction(a, i) = Skip(AddSubInst(a, i))
  BY <1>1, FastExecutes
<1>5. AddSubInst(a, i) = Flagged(WriteReg(a, i.rd, r), i,
                            IF i.op = "ADD" THEN UpdateFlagsAdd(x, Sub(r, x, 64), r, n)
                            ELSE UpdateFlagsSub(x, y, r, n))
  BY Zenon DEF AddSubInst, RnValue
<1>6. Execute(a, i) = Skip(Flagged(WriteReg(a, i.rd, s), i, f))
  <2>1. CASE i.fmt = "DPReg"
    <3>1. i.shiftAmount = 0
      BY <2>1 DEF FastByName, IsFast, HasForm
    <3>2. Execute(a, i) = Skip(ExecuteDPReg(a, i))
      BY <2>1 DEF Execute
    <3>3. y = ReadReg(a, i.rm)
      BY <2>1 DEF Operand, RmValue
    <3>4. ExecuteDPReg(a, i) = Flagged(WriteReg(a, i.rd, s), i, f)
      <4>1. ApplyShift(Low(ReadReg(a, i.rm), n), i.shiftType, i.shiftAmount, n) = Low(y, n)
        BY <3>1, <3>3 DEF ApplyShift
      <4> HIDE DEF y, n
      <4>2. QED
        BY <4>1 DEF ExecuteDPReg, n
    <3>5. QED
      BY <3>2, <3>4
  <2>2. CASE i.fmt = "DPImm"
    <3>1. /\ i.shift = 0 /\ i.imm \in SUBSET Ones(64)
          /\ i.rn # 31 /\ (i.rd # 31 \/ i.setFlags)
      BY <2>2 DEF FastByName, NamesSP, IsFast, IsTimed
    <3>2. Execute(a, i) = Skip(ExecuteDPImm(a, i))
      BY <2>2 DEF Execute
    <3>3. y = i.imm /\ Shl(i.imm, i.shift, 64) = y /\ ReadRegOrSP(a, i.rn) = x
      BY <2>2, <3>1, ShiftedByNothing DEF Operand, ReadReg, ReadRegOrSP
    <3> HIDE DEF y, x
    <3>4. ExecuteDPImm(a, i) = IF i.setFlags THEN Flagged(WriteReg(a, i.rd, s), i, f)
                               ELSE WriteRegOrSP(a, i.rd, s)
      BY <3>3, Zenon DEF ExecuteDPImm
    <3> HIDE DEF s, f, n
    <3>5. ExecuteDPImm(a, i) = Flagged(WriteReg(a, i.rd, s), i, f)
      BY <3>1, <3>4 DEF Flagged, WriteReg, WriteRegOrSP
    <3>6. QED
      BY <3>2, <3>5
  <2>3. QED
    BY <1>1, <2>1, <2>2
<1> HIDE DEF n, x, y
<1>7. r \in SUBSET Ones(64) /\ Low(r, n) = s
  <2>1. n \in 0 .. 64
    BY <1>2
  <2>2. QED
    BY <1>2, <1>3, <2>1, LowOfSum, WordsOf64 DEF AddOrSub
<1>8. s \in SUBSET Ones(n)
  BY <1>2, <1>7
<1>9. (IF i.op = "ADD" THEN UpdateFlagsAdd(x, Sub(r, x, 64), r, n) ELSE UpdateFlagsSub(x, y, r, n)) = f
  <2>1. CASE i.op = "ADD"
    <3>1. Sub(r, x, 64) = y
      BY <1>2, <1>3, <2>1, SumLessOne DEF AddOrSub
    <3> HIDE DEF r, s
    <3>2. UpdateFlagsAdd(x, y, r, n) = SetAddFlags(Low(x, n), Low(y, n), s, n)
      BY <1>2, <1>3, <1>7, FlagsOfHalves
    <3>3. QED
      BY <2>1, <3>1, <3>2 DEF ArithFlags
  <2>2. CASE i.op # "ADD"
    <3> HIDE DEF r, s
    <3>1. UpdateFlagsSub(x, y, r, n) = SetSubFlags(Low(x, n), Low(y, n), s, n)
      BY <1>2, <1>3, <1>7, FlagsOfHalves
    <3>2. QED
      BY <2>2, <3>1 DEF ArithFlags
  <2>3. QED
    BY <2>1, <2>2
<1> HIDE DEF r, s, f
<1>10. ExecuteInstruction(a, i) = Skip(Flagged(WriteReg(a, i.rd, r), i, f))
  BY <1>4, <1>5, <1>9
<1>11. QED
  BY <1>2, <1>6, <1>7, <1>8, <1>10, FlaggedFollow DEF n

\* The logical operations, of registers and of immediates.
LEMMA LogicFollows ==
  ASSUME NEW a, FastState(a), NEW i, IsFast(i), FastByName(a, i),
         i.op \in {"AND", "ORR", "EOR", "BIC", "ORN", "EON"}
  PROVE  FollowsEmulator(a, i)
<1> DEFINE n == Size(i)
           x == ReadReg(a, i.rn)
           y == Operand(a, i)
           r == Logic(i.op, x, y, 64)
           s == Logic(i.op, Low(x, n), Low(y, n), n)
           f == SetLogicFlags(s, n)
<1>1. i.fmt \in {"DPReg", "LogicalImm"} /\ i.rm # NoRegister
  BY FormsOfOperations DEF FastByName
<1>2. /\ IsState(a) /\ i.rd \in RegNums \cup {31} /\ n \in {32, 64}
      /\ x \in SUBSET Ones(64) /\ ReadReg(a, i.rm) \in SUBSET Ones(64)
      /\ \A z : Low(z, n) \in SUBSET Ones(n)
  BY <1>1, FastOperands
<1>3. y \in SUBSET Ones(64)
  BY <1>1, <1>2 DEF Operand, RmValue, IsFast, IsTimed
<1>4. ExecuteInstruction(a, i) = Skip(LogicInst(a, i))
  BY <1>1, FastExecutes
<1>5. LogicInst(a, i) = Flagged(WriteReg(a, i.rd, r), i, UpdateFlagsLogical(r, n))
  BY Zenon DEF LogicInst, RnValue
<1>6. Execute(a, i) = Skip(Flagged(WriteReg(a, i.rd, s), i, f))
  <2>1. CASE i.fmt = "DPReg"
    <3>1. i.shiftAmount = 0
      BY <2>1 DEF FastByName, IsFast, HasForm
    <3>2. Execute(a, i) = Skip(ExecuteDPReg(a, i))
      BY <2>1 DEF Execute
    <3>3. y = ReadReg(a, i.rm)
      BY <2>1 DEF Operand, RmValue
    <3>4. ExecuteDPReg(a, i) = Flagged(WriteReg(a, i.rd, s), i, f)
      <4>1. ApplyShift(Low(ReadReg(a, i.rm), n), i.shiftType, i.shiftAmount, n) = Low(y, n)
        BY <3>1, <3>3 DEF ApplyShift
      <4> HIDE DEF y, n
      <4>2. QED
        BY <4>1 DEF ExecuteDPReg, n
    <3>5. QED
      BY <3>2, <3>4
  <2>2. CASE i.fmt = "LogicalImm"
    <3>1. Execute(a, i) = Skip(ExecuteLogicalImm(a, i))
      BY <2>2 DEF Execute
    <3>2. y = i.imm
      BY <2>2 DEF Operand
    <3> HIDE DEF y
    <3>3. ExecuteLogicalImm(a, i) = Flagged(WriteReg(a, i.rd, s), i, f)
      BY <3>2, Zenon DEF ExecuteLogicalImm
    <3>4. QED
      BY <3>1, <3>3
  <2>3. QED
    BY <1>1, <2>1, <2>2
<1> HIDE DEF n, x, y
<1>7. r \in SUBSET Ones(64) /\ Low(r, n) = s
  <2>1. r \in SUBSET Ones(64)
    <3>1. \A op \in {"AND", "BIC", "ORR", "ORN", "EOR", "EON"} : Logic(op, x, y, 64) \in SUBSET Ones(64)
      BY <1>2, <1>3, WordsOf64
    <3>2. QED
      BY <3>1
  <2>2. \A op \in {"AND", "BIC", "ORR", "ORN", "EOR", "EON"} :
          Low(Logic(op, x, y, 64), n) = Logic(op, Low(x, n), Low(y, n), n)
    BY <1>2, <1>3, LowOfLogic
  <2>3. QED
    BY <2>1, <2>2
<1>8. s \in SUBSET Ones(n)
  BY <1>2, <1>7
<1> HIDE DEF r, s
<1>9. UpdateFlagsLogical(r, n) = f
  BY <1>2, <1>3, <1>7, FlagsOfHalves
<1> HIDE DEF f
<1>10. ExecuteInstruction(a, i) = Skip(Flagged(WriteReg(a, i.rd, r), i, f))
  BY <1>4, <1>5, <1>9
<1>11. QED
  BY <1>2, <1>6, <1>7, <1>8, <1>10, FlaggedFollow DEF n

\* MADD and MSUB.
LEMMA ProductsFollow ==
  ASSUME NEW a, FastState(a), NEW i, IsFast(i), FastByName(a, i), i.op \in {"MADD", "MSUB"}
  PROVE  FollowsEmulator(a, i)
<1> DEFINE n == Size(i)
           x == ReadReg(a, i.rn)
           y == ReadReg(a, i.rm)
           z == ReadReg(a, i.rt2)
           p == Mul(x, y, 64)
           q == Mul(Low(x, n), Low(y, n), n)
           r == IF i.op = "MADD" THEN Add(z, p, 64) ELSE Sub(z, p, 64)
           s == IF i.op = "MADD" THEN Add(Low(z, n), q, n) ELSE Sub(Low(z, n), q, n)
<1>1. i.fmt = "DataProc3Src" /\ i.rm # NoRegister
  BY FormsOfOperations DEF FastByName
<1>2. /\ IsState(a) /\ i.rd \in RegNums \cup {31} /\ n \in {32, 64}
      /\ x \in SUBSET Ones(64) /\ y \in SUBSET Ones(64) /\ z \in SUBSET Ones(64)
      /\ \A w : Low(w, n) \in SUBSET Ones(n)
  BY <1>1, FastOperands
<1>3. ExecuteInstruction(a, i) = Skip(WriteReg(a, i.rd, r))
  BY <1>1, FastExecutes DEF MultiplyInst, RnValue, RmValue
<1>4. Execute(a, i) = Skip(WriteReg(a, i.rd, s))
  BY <1>1 DEF Execute, ExecuteDataProc3Src
<1> HIDE DEF x, y, z, n
<1>5. p \in SUBSET Ones(64) /\ Low(p, n) = q
  <2>1. p \in SUBSET Ones(64) /\ Low(p, 32) = Mul(Low(x, 32), Low(y, 32), 32)
    BY <1>2, LowOfProduct
  <2>2. Low(x, 64) = x /\ Low(y, 64) = y /\ Low(p, 64) = p
    BY <1>2, <2>1, LowOfWord
  <2> HIDE DEF p
  <2>3. CASE n = 32
    BY <2>1, <2>3
  <2>4. CASE n = 64
    BY <2>1, <2>2, <2>4 DEF p
  <2>5. QED
    BY <1>2, <2>3, <2>4
<1> HIDE DEF p, q
<1>6. r \in SUBSET Ones(64) /\ Low(r, n) = s
  <2>1. n \in 0 .. 64
    BY <1>2
  <2>2. Low(Add(z, p, 64), n) = Add(Low(z, n), q, n) /\ Low(Sub(z, p, 64), n) = Sub(Low(z, n), q, n)
    BY <1>2, <1>5, <2>1, LowOfSum
  <2>3. Add(z, p, 64) \in SUBSET Ones(64) /\ Sub(z, p, 64) \in SUBSET Ones(64)
    BY <1>2, WordsOf64
  <2>4. QED
    BY <2>2, <2>3
<1>7. s \in SUBSET Ones(n)
  BY <1>2, <1>6
<1> HIDE DEF r, s
<1>8. QED
  BY <1>2, <1>3, <1>4, <1>6, <1>7, ResultsFollow DEF n

\* The moves of a wide immediate.
LEMMA MovesFollow ==
  ASSUME NEW a, FastState(a), NEW i, IsFast(i), FastByName(a, i), i.op \in {"MOVZ", "MOVN", "MOVK"}
  PROVE  FollowsEmulator(a, i)
<1> DEFINE n == Size(i)
           placed == Shl(i.imm, i.shift, 64)
<1>1. i.fmt = "MoveWide" /\ i.rm # NoRegister
  BY FormsOfOperations DEF FastByName
<1>2. /\ i.rd \in RegNums \cup {31} /\ n \in {32, 64}
      /\ \A w : Low(w, n) \in SUBSET Ones(n)
  BY <1>1, FastOperands
<1>3. ExecuteInstruction(a, i) = Skip(MoveInst(a, i))
  BY <1>1, FastExecutes
<1>4. Execute(a, i) = Skip(ExecuteMoveWide(a, i))
  BY <1>1 DEF Execute
<1>5. CASE i.op \in {"MOVZ", "MOVK"}
  BY <1>3, <1>4, <1>5 DEF MoveInst, ExecuteMoveWide, FollowsEmulator
<1>6. CASE i.op = "MOVN"
  <2> DEFINE r == Not(placed, 64)
  <2>1. MoveInst(a, i) = WriteReg(a, i.rd, r) /\ ExecuteMoveWide(a, i) = WriteReg(a, i.rd, Low(r, n))
    BY <1>6 DEF MoveInst, ExecuteMoveWide
  <2>2. r \in SUBSET Ones(64)
    BY DEF Not
  <2> HIDE DEF r, n
  <2>3. QED
    BY <1>2, <1>3, <1>4, <2>1, <2>2, ResultsFollow DEF n
<1>7. QED
  BY <1>5, <1>6

\* A decoded condition is one both evaluators know.
LEMMA ConditionsFollow ==
  ASSUME NEW a, FastState(a), NEW i, IsFast(i), i.fmt \in {"BranchCond", "CondSelect", "CondCmp"}
  PROVE  EvaluateCondition(a.fl, i.cond) <=> CheckCondition(a.fl, i.cond)
<1>1. a.fl \in FlagSet /\ i.cond \in 0 .. 15
  BY DEF FastState, IsFast, IsTimed
<1>2. QED
  BY <1>1, OneCondition

\* CSEL and CSINC.
LEMMA SelectionsFollow ==
  ASSUME NEW a, FastState(a), NEW i, IsFast(i), FastByName(a, i), i.op \in {"CSEL", "CSINC"}
  PROVE  FollowsEmulator(a, i)
<1> DEFINE n == Size(i)
           x == ReadReg(a, i.rn)
           y == ReadReg(a, i.rm)
           other == IF i.op = "CSINC" THEN Add(y, {0}, 64) ELSE y
           short == IF i.op = "CSINC" THEN Add(Low(y, n), {0}, n) ELSE Low(y, n)
           holds == CheckCondition(a.fl, i.cond)
           r == IF holds THEN x ELSE other
           s == IF holds THEN Low(x, n) ELSE short
<1>1. i.fmt = "CondSelect" /\ i.rm # NoRegister
  BY FormsOfOperations DEF FastByName
<1>2. /\ IsState(a) /\ i.rd \in RegNums \cup {31} /\ n \in {32, 64}
      /\ x \in SUBSET Ones(64) /\ y \in SUBSET Ones(64)
      /\ \A w : Low(w, n) \in SUBSET Ones(n)
  BY <1>1, FastOperands
<1>3. ExecuteInstruction(a, i) = Skip(SelectInst(a, i))
  BY <1>1, FastExecutes
<1>4. SelectInst(a, i) = WriteReg(a, i.rd, r)
  <2>1. EvaluateCondition(a.fl, i.cond) <=> holds
    BY <1>1, ConditionsFollow
  <2> HIDE DEF holds
  <2>2. QED
    BY <2>1, Zenon DEF SelectInst, RnValue, RmValue
<1>5. Execute(a, i) = Skip(ExecuteCondSelect(a, i))
  BY <1>1 DEF Execute
<1>6. ExecuteCondSelect(a, i) = WriteReg(a, i.rd, s)
  <2> HIDE DEF x, y, n
  <2>1. ExecuteCondSelect(a, i) =
          WriteReg(a, i.rd,
            IF holds THEN Low(x, n)
            ELSE CASE i.op = "CSEL" -> Low(y, n)          [] i.op = "CSINC" -> Add(Low(y, n), {0}, n)
                   [] i.op = "CSINV" -> Not(Low(y, n), n) [] i.op = "CSNEG" -> Negate(Low(y, n), n))
    BY Zenon DEF ExecuteCondSelect, x, y, n
  <2> HIDE DEF holds
  <2>2. QED
    BY <2>1
<1> HIDE DEF x, y, n, holds
<1>7. other \in SUBSET Ones(64) /\ Low(other, n) = short
  <2>1. n \in 0 .. 64 /\ {0} \in SUBSET Ones(64) /\ Low({0}, n) = {0}
    BY <1>2, Word32 DEF Low
  <2>2. Low(Add(y, {0}, 64), n) = Add(Low(y, n), {0}, n)
    <3> DEFINE one == {0}
    <3> HIDE DEF one
    <3>1. one \in SUBSET Ones(64) /\ Low(one, n) = one
      BY <2>1 DEF one
    <3>2. Low(Add(y, one, 64), n) = Add(Low(y, n), Low(one, n), n)
      BY <1>2, <2>1, <3>1, LowOfSum
    <3>3. QED
      BY <3>1, <3>2 DEF one
  <2>3. Add(y, {0}, 64) \in SUBSET Ones(64)
    BY <1>2, WordsOf64
  <2>4. QED
    BY <1>2, <2>2, <2>3
<1> HIDE DEF other, short
<1>8. r \in SUBSET Ones(64) /\ Low(r, n) = s
  BY <1>2, <1>7
<1>9. s \in SUBSET Ones(n)
  BY <1>2, <1>8
<1> HIDE DEF r, s
<1>10. QED
  BY <1>2, <1>3, <1>4, <1>5, <1>6, <1>8, <1>9, ResultsFollow DEF n

\* CCMP of two registers.
LEMMA ComparesFollow ==
  ASSUME NEW a, FastState(a), NEW i, IsFast(i), FastByName(a, i), i.op = "CCMP"
  PROVE  FollowsEmulator(a, i)
<1> DEFINE n == Size(i)
           x == ReadReg(a, i.rn)
           y == ReadReg(a, i.rm)
           holds == CheckCondition(a.fl, i.cond)
           f == SetSubFlags(Low(x, n), Low(y, n), Sub(Low(x, n), Low(y, n), n), n)
<1>1. i.fmt = "CondCmp" /\ i.rm # NoRegister
  BY FormsOfOperations DEF FastByName
<1>2. /\ IsState(a) /\ n \in {32, 64} /\ x \in SUBSET Ones(64) /\ y \in SUBSET Ones(64)
  BY <1>1, FastOperands
<1>3. ExecuteInstruction(a, i) = Skip(CompareInst(a, i))
  BY <1>1, FastExecutes
<1>4. Execute(a, i) = Skip(ExecuteCondCmp(a, i))
  BY <1>1 DEF Execute
<1>5. UpdateFlagsSub(x, y, Sub(x, y, 64), n) = f
  <2>1. n \in 0 .. 64
    BY <1>2
  <2> HIDE DEF n, x, y
  <2>2. Sub(x, y, 64) \in SUBSET Ones(64) /\ Low(Sub(x, y, 64), n) = Sub(Low(x, n), Low(y, n), n)
    BY <1>2, <2>1, LowOfSum, WordsOf64
  <2> DEFINE d == Sub(x, y, 64)
  <2> HIDE DEF d
  <2>3. UpdateFlagsSub(x, y, d, n) = SetSubFlags(Low(x, n), Low(y, n), Low(d, n), n)
    BY <1>2, <2>2, FlagsOfHalves DEF d
  <2>4. QED
    BY <2>2, <2>3 DEF d
<1>6. CompareInst(a, i) = WithFlags(a, IF holds THEN f ELSE NZCV(i.imm))
  <2>1. EvaluateCondition(a.fl, i.cond) <=> holds
    BY <1>1, ConditionsFollow
  <2> DEFINE g == UpdateFlagsSub(x, y, Sub(x, y, 64), n)
  <2>2. CompareInst(a, i) = [a EXCEPT !.fl = IF EvaluateCondition(a.fl, i.cond) THEN g ELSE NZCV(i.imm)]
    BY <1>1, Zenon DEF CompareInst, RnValue, RmValue
  <2> HIDE DEF g, f, holds
  <2>3. QED
    BY <1>5, <2>1, <2>2, Zenon DEF WithFlags, g
<1>7. ExecuteCondCmp(a, i) = WithFlags(a, IF holds THEN f ELSE NZCV(i.imm))
  BY <1>1, Zenon DEF ExecuteCondCmp, WithFlags
<1>8. QED
  BY <1>3, <1>4, <1>6, <1>7, Zenon DEF FollowsEmulator

\* The same field is taken, whichever of its cases fast timing takes it by.
LEMMA FieldsTaken ==
  ASSUME NEW x, NEW immr, NEW imms, NEW n, IsFieldOf(x, immr, imms, n)
  PROVE  /\ imms >= immr =>
              /\ Unsigned(x, immr, imms, n) = Shl(Slice(Low(x, n), imms, immr), 0, n)
              /\ Low(Signed(x, immr, imms, n), n) =
                   Shl(SignExtend(Slice(Low(x, n), imms, immr), imms - immr + 1, n), 0, n)
         /\ imms + 1 = immr =>
              Unsigned(x, immr, imms, n) = Shl(Slice(Low(x, n), imms, 0), n - immr, n)
<1> DEFINE u == Low(x, n)
<1>bounds. x \in SUBSET Ones(64) /\ n \in {32, 64} /\ immr \in 0 .. n - 1 /\ imms \in 0 .. n - 1
  BY DEF IsFieldOf
<1> USE <1>bounds
<1>0. /\ n \in Nat /\ n \in Int /\ immr \in 0 .. 63 /\ imms \in 0 .. 63 /\ immr \in Nat
      /\ immr \in Int /\ imms \in Int /\ n <= 64
  OBVIOUS
<1>1. /\ u \subseteq Int /\ x \subseteq Int
      /\ \A b \in Int : b \in u <=> b \in x /\ b < n
      /\ \A b \in x : b \in Int /\ 0 <= b /\ b <= 63
      /\ Ones(n) = 0 .. n - 1
      /\ \A b : b \in u <=> b \in x /\ b \in 0 .. n - 1
  <2>1. Ones(n) = 0 .. n - 1
    BY DEF Ones
  <2>2. \A b \in x : b \in Int /\ 0 <= b /\ b <= 63
    BY Word32
  <2>3. \A b : b \in u <=> b \in x /\ b \in 0 .. n - 1
    BY <2>1 DEF Low
  <2> HIDE DEF u
  <2>4. \A b \in Int : b \in u <=> b \in x /\ b < n
    BY <1>0, <2>2, <2>3
  <2>5. QED
    BY <2>1, <2>2, <2>3, <2>4
<1>2. \A b \in u : b \in 0 .. n - 1
  BY <1>1
<1> HIDE DEF u
<1>3. \A z : \A k \in Nat : z \subseteq Int => \A b : b \in Shl(z, k, n) <=> b \in 0 .. n - 1 /\ b - k \in z
  BY <1>0, ShlBits
<1>4. /\ \A z : \A b : b \in Slice(z, imms, immr) <=> b \in 0 .. imms - immr /\ b + immr \in z
      /\ \A z : \A b : b \in Slice(z, imms, 0) <=> b \in 0 .. imms - 0 /\ b + 0 \in z
  BY <1>0, SliceBits
<1>5. \A z : \A k \in 0 .. 63 : z \subseteq Int => \A b : b \in Shr(z, k) <=> b \in Int /\ b >= 0 /\ b + k \in z
  <2> SUFFICES ASSUME NEW z, NEW k \in 0 .. 63, z \subseteq Int, NEW b
               PROVE  b \in Shr(z, k) <=> b \in Int /\ b >= 0 /\ b + k \in z
    OBVIOUS
  <2>1. ASSUME b \in Shr(z, k) PROVE b \in Int /\ b >= 0 /\ b + k \in z
    <3>1. PICK c \in z : c >= k /\ b = c - k
      BY <2>1 DEF Shr
    <3>2. b + k = c
      BY <3>1
    <3>3. QED
      BY <3>1, <3>2
  <2>2. ASSUME b \in Int, b >= 0, b + k \in z PROVE b \in Shr(z, k)
    <3>1. b + k >= k /\ b = (b + k) - k
      BY <2>2
    <3>2. QED
      BY <2>2, <3>1 DEF Shr
  <2>3. QED
    BY <2>1, <2>2
<1>6. ASSUME imms >= immr
      PROVE  Unsigned(x, immr, imms, n) = Shl(Slice(u, imms, immr), 0, n)
  <2> DEFINE f == Slice(u, imms, immr)   r == Shl(f, 0, n)
  <2>1. \A b : b \in f <=> b \in 0 .. imms - immr /\ b + immr \in u
    BY <1>4
  <2>2. f \subseteq Int
    BY <2>1
  <2> HIDE DEF f
  <2>3. \A b : b \in r <=> b \in f
    <3>1. \A b : b \in r <=> b \in 0 .. n - 1 /\ b - 0 \in f
      BY <1>3, <2>2
    <3>2. \A b \in f : b \in 0 .. n - 1 /\ b - 0 = b
      BY <2>1
    <3>3. QED
      BY <3>1, <3>2
  <2>4. CASE imms = n - 1
    <3>1. \A b : b \in Shr(u, immr) <=> b \in Int /\ b >= 0 /\ b + immr \in u
      BY <1>0, <1>1, <1>5
    <3>2. \A b : b \in Shr(u, immr) <=> b \in f
      BY <1>2, <2>1, <2>4, <3>1
    <3>3. Unsigned(x, immr, imms, n) = Shr(u, immr)
      BY <2>4 DEF Unsigned, u
    <3>4. QED
      BY <2>3, <3>2, <3>3 DEF f
  <2>5. CASE imms # n - 1 /\ immr = 0
    <3>1. \A b : b \in Low(x, imms + 1) <=> b \in f
      BY <1>1, <2>1, <2>5 DEF Low, Ones
    <3>2. Unsigned(x, immr, imms, n) = Low(x, imms + 1)
      BY <2>5 DEF Unsigned
    <3>3. QED
      BY <2>3, <3>1, <3>2 DEF f
  <2>6. CASE imms # n - 1 /\ immr # 0
    <3>1. Unsigned(x, immr, imms, n) = Slice(x, imms, immr)
      BY <1>6, <2>6 DEF Unsigned, FieldOf
    <3>2. \A b : b \in Slice(x, imms, immr) <=> b \in 0 .. imms - immr /\ b + immr \in x
      BY <1>4
    <3>3. \A b : b \in Slice(x, imms, immr) <=> b \in f
      BY <1>1, <2>1, <3>2
    <3>4. QED
      BY <2>3, <3>1, <3>3 DEF f
  <2>7. QED
    BY <2>4, <2>5, <2>6
<1>7. ASSUME imms + 1 = immr
      PROVE  Unsigned(x, immr, imms, n) = Shl(Slice(u, imms, 0), n - immr, n)
  <2> DEFINE f == Slice(u, imms, 0)   r == Shl(f, n - immr, n)   k == n - immr
  <2>1. \A b : b \in f <=> b \in 0 .. imms /\ b \in u
    <3>1. \A b : b \in f <=> b \in 0 .. imms - 0 /\ b + 0 \in u
      BY <1>4
    <3>2. \A b \in 0 .. imms - 0 : b + 0 = b
      OBVIOUS
    <3>3. QED
      BY <3>1, <3>2
  <2>2. f \subseteq Int /\ k \in Nat
    BY <1>0, <2>1
  <2>3. \A b : b \in r <=> b \in 0 .. n - 1 /\ b - k \in f
    BY <1>3, <2>2
  <2>4. \A b : b \in Shl(x, k, n) <=> b \in 0 .. n - 1 /\ b - k \in x
    BY <1>1, <1>3, <2>2
  <2>5. Unsigned(x, immr, imms, n) = Shl(x, k, n)
    BY <1>7 DEF Unsigned
  <2> HIDE DEF f, r
  <2>6. \A b \in 0 .. n - 1 : b - k \in f <=> b - k \in x
    BY <1>1, <1>7, <2>1
  <2>7. QED
    BY <2>3, <2>4, <2>5, <2>6 DEF r, f
<1>8. ASSUME imms >= immr
      PROVE  Low(Signed(x, immr, imms, n), n) = Shl(SignExtend(Slice(u, imms, immr), imms - immr + 1, n), 0, n)
  <2> DEFINE w == imms - immr + 1
             f == Slice(u, imms, immr)   g == Slice(x, imms, immr)
             e == SignExtend(f, w, n)    r == Shl(e, 0, n)
  <2>1. \A b : b \in f <=> b \in 0 .. imms - immr /\ b + immr \in u
    BY <1>4
  <2>2. \A b : b \in g <=> b \in 0 .. imms - immr /\ b + immr \in x
    BY <1>4
  <2>3. \A b : b \in f <=> b \in g
    BY <1>1, <2>1, <2>2
  <2>4. f = g /\ w \in 1 .. n /\ w - 1 = imms - immr
    BY <1>8, <2>3
  <2> HIDE DEF f, g
  <2>5. \A b : b \in Low(f, w) <=> b \in f
    BY <2>1, <2>4 DEF Low, Ones
  <2> HIDE DEF w
  <2>6. \A b : b \in e <=> b \in f \/ (w - 1 \in f /\ b \in w .. n - 1)
    BY <2>5 DEF SignExtend
  <2>7. \A b \in e : b \in 0 .. n - 1
    BY <2>1, <2>4, <2>6
  <2> HIDE DEF e
  <2>8. \A b : b \in r <=> b \in e
    <3>1. \A b : b \in r <=> b \in 0 .. n - 1 /\ b - 0 \in e
      BY <1>3, <2>7
    <3>2. \A b \in e : b \in 0 .. n - 1 /\ b - 0 = b
      BY <2>7
    <3>3. QED
      BY <3>1, <3>2
  <2>9. CASE imms = n - 1
    <3>1. Signed(x, immr, imms, n) = Sar(u, immr, n)
      BY <2>9 DEF Signed, u
    <3>2. \A b : b \in Shr(u, immr) <=> b \in Int /\ b >= 0 /\ b + immr \in u
      BY <1>0, <1>1, <1>5
    <3>3. \A b : b \in Shr(u, immr) <=> b \in f
      BY <1>2, <2>1, <2>9, <3>2
    <3>4. n - 1 \in u <=> w - 1 \in f
      BY <1>8, <2>1, <2>4, <2>9
    <3>5. n - immr = w
      BY <2>4, <2>9
    <3>6. \A b : b \in Sar(u, immr, n) <=> b \in e
      BY <2>6, <3>3, <3>4, <3>5 DEF Sar
    <3>7. \A b : b \in Low(Sar(u, immr, n), n) <=> b \in e
      BY <1>1, <2>7, <3>6 DEF Low
    <3>8. QED
      BY <2>8, <3>1, <3>7 DEF e, f, w
  <2>10. CASE imms # n - 1
    <3>1. Signed(x, immr, imms, n) = SignExtend(g, w, 64)
      BY <1>8, <2>10 DEF Signed, FieldOf, g, w
    <3>2. \A b : b \in SignExtend(g, w, 64) <=> b \in f \/ (w - 1 \in f /\ b \in w .. 64 - 1)
      BY <2>4, <2>5 DEF SignExtend
    <3>3. \A b : b \in Low(SignExtend(g, w, 64), n) <=> b \in e
      BY <1>1, <2>4, <2>6, <2>7, <3>2 DEF Low
    <3>4. QED
      BY <2>8, <3>1, <3>3 DEF e, f, w
  <2>11. QED
    BY <2>9, <2>10 DEF r, e, f, w
<1>9. QED
  BY <1>6, <1>7, <1>8 DEF u

\* UBFM and SBFM, where the field is moved down or up by all of its width.
LEMMA FieldsFollow ==
  ASSUME NEW a, FastState(a), NEW i, IsFast(i), FastByName(a, i), i.op \in {"UBFM", "SBFM"}
  PROVE  FollowsEmulator(a, i)
<1> DEFINE n == Size(i)
           x == ReadReg(a, i.rn)
           immr == Num(i.imm)
           imms == Num(i.imm2)
           r == IF i.op = "UBFM" THEN Unsigned(x, immr, imms, n) ELSE Signed(x, immr, imms, n)
           field == SourceField(i, Low(x, n))
           s == IF i.op = "UBFM" THEN Shl(field, FieldShift(i), n)
                ELSE Shl(SignExtend(field, FieldWidth(i), n), FieldShift(i), n)
<1>1. i.fmt = "Bitfield" /\ i.rm # NoRegister
  BY FormsOfOperations DEF FastByName
<1>2. /\ i.rd \in RegNums \cup {31} /\ n \in {32, 64} /\ x \in SUBSET Ones(64)
      /\ \A w : Low(w, n) \in SUBSET Ones(n)
  BY <1>1, FastOperands
<1>3. immr \in 0 .. n - 1 /\ imms \in 0 .. n - 1
  <2>1. i.imm \in SUBSET (0 .. 5) /\ i.imm2 \in SUBSET (0 .. 5)
    BY <1>1 DEF IsFast, IsDecoded
  <2>2. /\ immr \in 0 .. 63 /\ (5 \notin i.imm => immr \in 0 .. 31)
        /\ imms \in 0 .. 63 /\ (5 \notin i.imm2 => imms \in 0 .. 31)
    BY <2>1, SixBits
  <2> HIDE DEF immr, imms
  <2>3. CASE i.is64
    BY <2>2, <2>3 DEF Size
  <2>4. CASE ~i.is64
    <3>1. 5 \notin i.imm /\ 5 \notin i.imm2
      BY <2>4 DEF FastByName, Narrow
    <3>2. QED
      BY <2>2, <2>4, <3>1 DEF Size
  <2>5. QED
    BY <2>3, <2>4
<1>4. imms >= immr \/ (i.op = "UBFM" /\ imms + 1 = immr)
  BY DEF FastByName, Extracts
<1>5. ExecuteInstruction(a, i) = Skip(WriteReg(a, i.rd, r))
  <2>1. UBFMInst(a, i) = WriteReg(a, i.rd, Unsigned(x, immr, imms, n))
    BY Zenon DEF UBFMInst, Unsigned, RnValue
  <2>2. SBFMInst(a, i) = WriteReg(a, i.rd, Signed(x, immr, imms, n))
    BY Zenon DEF SBFMInst, Signed, RnValue
  <2>3. /\ i.op = "UBFM" => ExecuteInstruction(a, i) = Skip(UBFMInst(a, i))
        /\ i.op = "SBFM" => ExecuteInstruction(a, i) = Skip(SBFMInst(a, i))
    BY <1>1, FastExecutes
  <2> HIDE DEF x, immr, imms, n
  <2>4. QED
    BY <2>1, <2>2, <2>3
<1>6. Execute(a, i) = Skip(WriteReg(a, i.rd, s))
  <2>1. Execute(a, i) = Skip(ExecuteBitfield(a, i))
    BY <1>1 DEF Execute
  <2>2. ExecuteBitfield(a, i) = WriteReg(a, i.rd, s)
    BY DEF ExecuteBitfield
  <2>3. QED
    BY <2>1, <2>2
<1>7. CASE imms >= immr
  <2>1. /\ field = Slice(Low(x, n), imms, immr)
        /\ FieldShift(i) = 0 /\ FieldWidth(i) = imms - immr + 1
    BY <1>7 DEF SourceField, FieldShift, FieldWidth, Extracts
  <2> DEFINE m == Slice(Low(x, n), imms, immr)
             t == Shl(m, 0, n)
             q == Shl(SignExtend(m, imms - immr + 1, n), 0, n)
  <2>2. i.op = "UBFM" => s = t
    BY <2>1
  <2>3. i.op = "SBFM" => s = q
    BY <2>1
  <2> HIDE DEF x, immr, imms, n, s
  <2>4. IsFieldOf(x, immr, imms, n) /\ IsField(x, immr, imms, n)
    BY <1>2, <1>3 DEF IsField, IsFieldOf
  <2>5. /\ Unsigned(x, immr, imms, n) = t /\ Low(Signed(x, immr, imms, n), n) = q
        /\ Unsigned(x, immr, imms, n) \in SUBSET Ones(64) /\ Signed(x, immr, imms, n) \in SUBSET Ones(64)
    BY <1>7, <2>4, FieldsTaken, FieldsAreWords
  <2>6. t \in SUBSET Ones(n) /\ q \in SUBSET Ones(n)
    BY DEF Shl, Low
  <2>7. Low(t, n) = t
    BY <2>6 DEF Low
  <2> HIDE DEF t, q
  <2>8. r \in SUBSET Ones(64) /\ s \in SUBSET Ones(n) /\ Low(r, n) = s
    BY <2>2, <2>3, <2>5, <2>6, <2>7
  <2> HIDE DEF r
  <2>9. QED
    BY <1>2, <1>5, <1>6, <2>8, ResultsFollow DEF n
<1>8. CASE ~(imms >= immr)
  <2> DEFINE t == Shl(Slice(Low(x, n), imms, 0), n - immr, n)
  <2>1. i.op = "UBFM" /\ imms + 1 = immr
    BY <1>4, <1>8
  <2>2. s = t
    BY <1>8, <2>1 DEF SourceField, FieldShift, Extracts
  <2> HIDE DEF x, immr, imms, n, s
  <2>3. IsFieldOf(x, immr, imms, n) /\ IsField(x, immr, imms, n)
    BY <1>2, <1>3 DEF IsField, IsFieldOf
  <2>4. r = t /\ r \in SUBSET Ones(64)
    BY <2>1, <2>3, FieldsTaken, FieldsAreWords
  <2>5. t \in SUBSET Ones(n)
    BY DEF Shl, Low
  <2>6. Low(t, n) = t
    BY <2>5 DEF Low
  <2> HIDE DEF t, r
  <2>7. QED
    BY <1>2, <1>5, <1>6, <2>2, <2>4, <2>5, <2>6, ResultsFollow DEF n
<1>9. QED
  BY <1>7, <1>8

\* The count of a 32-bit shift is below 32 when bit 5 of its register is clear.
LEMMA ShiftsFollow ==
  ASSUME NEW a, FastState(a), NEW i, IsFast(i), FastByName(a, i), i.op \in {"LSLV", "LSRV", "ASRV"}
  PROVE  FollowsEmulator(a, i)
<1> DEFINE n == Size(i)
           x == ReadReg(a, i.rn)
           y == ReadReg(a, i.rm)
           k == Num(Low(y, 6))
           r == CASE i.op = "LSLV" -> Shl(x, k, 64) [] i.op = "LSRV" -> Shr(x, k) [] i.op = "ASRV" -> Sar(x, k, 64)
           s == CASE i.op = "LSLV" -> Shl(Low(x, n), k, n) [] i.op = "LSRV" -> Shr(Low(x, n), k)
                  [] i.op = "ASRV" -> Sar(Low(x, n), k, n)
<1>1. i.fmt = "DataProc2Src" /\ i.rm # NoRegister
  BY FormsOfOperations DEF FastByName
<1>2. /\ i.rd \in RegNums \cup {31} /\ n \in {32, 64} /\ x \in SUBSET Ones(64) /\ y \in SUBSET Ones(64)
      /\ \A w : Low(w, n) \in SUBSET Ones(n)
  BY <1>1, FastOperands
<1>3. ExecuteInstruction(a, i) = Skip(WriteReg(a, i.rd, r))
  <2>1. ExecuteInstruction(a, i) = Skip(ShiftInst(a, i))
    BY <1>1, FastExecutes
  <2>2. ShiftInst(a, i) = WriteReg(a, i.rd, r)
    BY DEF ShiftInst, RnValue, RmValue
  <2>3. QED
    BY <2>1, <2>2
<1>4. Low(Low(y, n), IF i.is64 THEN 6 ELSE 5) = Low(y, 6)
  <2>1. Ones(6) = 0 .. 5 /\ Ones(5) = 0 .. 4
    <3>1. \A m \in Nat : Ones(m) = 0 .. m - 1
      BY DEF Ones
    <3>2. Ones(6) = 0 .. 6 - 1 /\ Ones(5) = 0 .. 5 - 1
      BY <3>1
    <3>3. QED
      BY <3>2
  <2>2. CASE i.is64
    BY <1>2, <2>2, LowOfWord DEF Size
  <2>3. CASE ~i.is64
    <3>1. 5 \notin y /\ n = 32
      BY <1>1, <2>3 DEF FastByName, Narrow, Size
    <3> HIDE DEF y, n
    <3>2. Low(Low(y, 32), 5) = Low(y, 6)
      BY <2>1, <3>1, Word32 DEF Low
    <3>3. QED
      BY <2>3, <3>1, <3>2
  <2>4. QED
    BY <2>2, <2>3
<1>5. Execute(a, i) = Skip(WriteReg(a, i.rd, s))
  <2>1. Execute(a, i) = Skip(ExecuteDataProc2Src(a, i))
    BY <1>1 DEF Execute
  <2>2. ExecuteDataProc2Src(a, i) = WriteReg(a, i.rd, s)
    BY <1>4 DEF ExecuteDataProc2Src
  <2>3. QED
    BY <2>1, <2>2
<1>6. k \in 0 .. 63
  <2>1. Low(y, 6) \in SUBSET (0 .. 5)
    BY DEF Low, Ones
  <2>2. QED
    BY <2>1, SixBits
<1>7. r \in SUBSET Ones(64)
  <2> HIDE DEF x, k, r
  <2>0. x \in SUBSET Ones(64) /\ k \in 0 .. 63
    BY <1>2, <1>6
  <2>1. Shl(x, k, 64) \in SUBSET Ones(64) /\ Shr(x, k) \in SUBSET Ones(64) /\ Sar(x, k, 64) \in SUBSET Ones(64)
    BY <2>0, WordsOf64
  <2>2. QED
    BY <2>1 DEF r
<1>8. Low(r, n) = s
  <2>1. CASE i.is64
    <3>1. n = 64 /\ Low(x, n) = x /\ Low(r, n) = r
      BY <1>2, <1>7, <2>1, LowOfWord DEF Size
    <3> HIDE DEF x, k, n
    <3>2. r = s
      BY <3>1
    <3>3. QED
      BY <3>1, <3>2
  <2>2. CASE ~i.is64 /\ i.op = "LSLV"
    <3>1. n = 32
      BY <2>2 DEF Size
    <3> HIDE DEF x, k, n
    <3>2. Low(Shl(x, k, 64), 32) = Shl(Low(x, 32), k, 32)
      BY <1>2, <1>6, LowOfShl
    <3>3. QED
      BY <2>2, <3>1, <3>2
  <2>3. CASE ~i.is64 /\ i.op \in {"LSRV", "ASRV"}
    <3>1. n = 32 /\ x \in SUBSET Ones(32) /\ (i.op = "ASRV" => 31 \notin x)
      BY <2>3 DEF Size, FastByName, Narrow, Upper
    <3> HIDE DEF x, k, n
    <3>2. Low(x, 32) = x /\ 64 - 1 \notin x /\ (i.op = "ASRV" => 32 - 1 \notin x)
      BY <3>1, Word32 DEF Low
    <3>3. Shr(x, k) \in SUBSET Ones(32)
      BY <1>6, <3>1, Word32 DEF Shr
    <3>4. Low(Shr(x, k), 32) = Shr(x, k)
      BY <3>3 DEF Low
    <3>5. CASE i.op = "LSRV"
      BY <3>1, <3>2, <3>4, <3>5
    <3>6. CASE i.op = "ASRV"
      <4>1. Sar(x, k, 64) = Shr(x, k) /\ Sar(x, k, 32) = Shr(x, k)
        BY <3>2, <3>6 DEF Sar
      <4>2. QED
        BY <3>1, <3>2, <3>4, <3>6, <4>1
    <3>7. QED
      BY <2>3, <3>5, <3>6
  <2>4. QED
    BY <2>1, <2>2, <2>3
<1>9. s \in SUBSET Ones(n)
  BY <1>2, <1>8
<1> HIDE DEF r, s, n
<1>10. QED
  BY <1>2, <1>3, <1>5, <1>7, <1>8, <1>9, ResultsFollow DEF n

\* Without SP for a base, the emulator's addresses are those of fast timing.
LEMMA BasesFollow ==
  ASSUME NEW a, NEW i, IsFast(i), FastByName(a, i), i.fmt \in {"LoadStore", "LoadStorePair"}
  PROVE  /\ i.rn # 31 /\ i.rm # NoRegister
         /\ i.fmt = "LoadStore" => Address(a, i) = WordAddress(a, i)
         /\ i.fmt = "LoadStorePair" => Address(a, i) = Moved(a, i)
         /\ \A s : BaseWriteback(a, s, i) = IF Indexed(i) THEN WriteReg(s, i.rn, Moved(a, i)) ELSE s
<1>1. i.rn # 31 /\ i.rm # NoRegister /\ i.index # "regBase"
  BY DEF FastByName, BasedOnSP
<1>2. ReadRegOrSP(a, i.rn) = RnValue(a, i)
  BY <1>1 DEF ReadRegOrSP, RnValue, ReadReg
<1>3. i.fmt = "LoadStore" => i.index \in {"none", "pre", "post"}
  BY <1>1 DEF IsFast, IsDecoded
<1>4. i.fmt = "LoadStorePair" => i.index \in {"pre", "signed"}
  BY DEF IsFast, IsDecoded, FastByName
<1>5. i.fmt = "LoadStore" => Address(a, i) = WordAddress(a, i)
  BY <1>2, <1>3 DEF Address, WordAddress, Moved
<1>6. i.fmt = "LoadStorePair" => Address(a, i) = Moved(a, i)
  BY <1>2, <1>4 DEF Address, Moved
<1>7. ASSUME NEW s
      PROVE  BaseWriteback(a, s, i) = IF Indexed(i) THEN WriteReg(s, i.rn, Moved(a, i)) ELSE s
  BY <1>1, <1>2 DEF BaseWriteback, WriteRegOrSP, WriteReg, Indexed, Moved
<1>8. QED
  BY <1>1, <1>5, <1>6, <1>7

\* STR of 64 bits, in every index mode.
LEMMA StoresFollow ==
  ASSUME NEW a, FastState(a), NEW i, IsFast(i), FastByName(a, i), i.op = "STR"
  PROVE  FollowsEmulator(a, i)
<1>1. i.fmt = "LoadStore" /\ i.is64
  BY FormsOfOperations DEF FastByName, Narrow
<1>2. Address(a, i) = WordAddress(a, i) /\ i.rm # NoRegister
  BY <1>1, BasesFollow
<1>3. ExecuteInstruction(a, i) = Skip(StoreWord(a, i))
  BY <1>2, FastExecutes
<1>4. Execute(a, i) = Skip(ExecuteLoadStore(a, i))
  BY <1>1 DEF Execute
<1> DEFINE stored == [a EXCEPT !.mem = Write(@, WordAddress(a, i), 64, ReadReg(a, i.rd))]
<1>5. ExecuteLoadStore(a, i) = BaseWriteback(a, stored, i)
  <2>1. AccessSize(i) = 64
    BY <1>1 DEF AccessSize, Size
  <2>2. QED
    BY <1>2, <2>1 DEF ExecuteLoadStore
<1>6. StoreWord(a, i) = IF Indexed(i) THEN WriteReg(stored, i.rn, Moved(a, i)) ELSE stored
  BY DEF StoreWord
<1> HIDE DEF stored
<1>7. StoreWord(a, i) = ExecuteLoadStore(a, i)
  BY <1>1, <1>5, <1>6, BasesFollow
<1>8. QED
  BY <1>3, <1>4, <1>7 DEF FollowsEmulator

\* LDP and STP of 64 bits: the base is written after both in both executors.
LEMMA PairsFollow ==
  ASSUME NEW a, FastState(a), NEW i, IsFast(i), FastByName(a, i), i.op \in {"LDP", "STP"}
  PROVE  FollowsEmulator(a, i)
<1> DEFINE addr == Moved(a, i)
           next == Plus(addr, 8)
           done == IF i.op = "LDP"
                     THEN WriteReg(WriteReg(a, i.rd, Read(a.mem, addr, 64)), i.rt2, Read(a.mem, next, 64))
                     ELSE [a EXCEPT !.mem = Write(Write(@, addr, 64, ReadReg(a, i.rd)),
                                                  next, 64, ReadReg(a, i.rt2))]
<1>1. i.fmt = "LoadStorePair" /\ i.is64
  BY FormsOfOperations DEF FastByName, Narrow
<1>2. Address(a, i) = addr /\ i.rm # NoRegister
  BY <1>1, BasesFollow
<1>3. ExecuteInstruction(a, i) = Skip(PairInst(a, i))
  BY <1>2, FastExecutes
<1>4. Execute(a, i) = Skip(ExecuteLoadStorePair(a, i))
  BY <1>1 DEF Execute
<1>5. PairInst(a, i) = IF Indexed(i) THEN WriteReg(done, i.rn, addr) ELSE done
  BY DEF PairInst
<1>6. ExecuteLoadStorePair(a, i) = BaseWriteback(a, done, i)
  <2>1. Size(i) = 64 /\ 64 \div 8 = 8
    BY <1>1 DEF Size
  <2> HIDE DEF addr
  <2>2. QED
    BY <1>2, <2>1 DEF ExecuteLoadStorePair
<1> HIDE DEF done
<1>7. PairInst(a, i) = ExecuteLoadStorePair(a, i)
  BY <1>1, <1>5, <1>6, BasesFollow
<1>8. QED
  BY <1>3, <1>4, <1>7 DEF FollowsEmulator

\* The accesses of one, two and four bytes.
LEMMA NarrowAccessesFollow ==
  ASSUME NEW a, FastState(a), NEW i, IsFast(i), FastByName(a, i),
         i.op \in {"LDRB", "STRB", "LDRH", "STRH", "LDRSW"}
  PROVE  FollowsEmulator(a, i)
<1> DEFINE addr == Add(RnValue(a, i), i.imm, 64)
           n == AccessSize(i)
           loaded == Read(a.mem, addr, n)
           stored == [a EXCEPT !.mem = Write(@, addr, n, ReadReg(a, i.rd))]
<1>1. i.fmt = "LoadStore" /\ ~Indexed(i)
  BY FormsOfOperations DEF FastByName
<1>2. Address(a, i) = addr /\ i.rm # NoRegister
  <2>1. WordAddress(a, i) = addr
    BY <1>1 DEF WordAddress, Indexed
  <2>2. QED
    BY <1>1, <2>1, BasesFollow
<1>3. ExecuteInstruction(a, i) = Skip(NarrowInst(a, i))
  BY <1>2, FastExecutes
<1>4. Execute(a, i) = Skip(ExecuteLoadStore(a, i))
  BY <1>1 DEF Execute
<1>5. \A s : BaseWriteback(a, s, i) = s
  BY <1>1 DEF BaseWriteback, Indexed
<1> DEFINE extended == SignExtend(loaded, n, Size(i))
<1>6. /\ i.op \in {"STRB", "STRH"} => ExecuteLoadStore(a, i) = stored
      /\ i.op \in {"LDRB", "LDRH"} => ExecuteLoadStore(a, i) = WriteReg(a, i.rd, loaded)
      /\ i.op = "LDRSW" => ExecuteLoadStore(a, i) = WriteReg(a, i.rd, extended)
  <2> HIDE DEF addr, n
  <2>1. QED
    BY <1>2, <1>5 DEF ExecuteLoadStore, n
<1>7. /\ i.op \in {"STRB", "STRH"} => NarrowInst(a, i) = stored
      /\ i.op \in {"LDRB", "LDRH"} => NarrowInst(a, i) = WriteReg(a, i.rd, loaded)
      /\ i.op = "LDRSW" => NarrowInst(a, i) = WriteReg(a, i.rd, SignExtend(loaded, 32, 64))
  BY DEF NarrowInst
<1> HIDE DEF stored, loaded
<1>8. CASE i.op # "LDRSW"
  BY <1>3, <1>4, <1>6, <1>7, <1>8 DEF FollowsEmulator
<1>9. CASE i.op = "LDRSW"
  <2> DEFINE m == Size(i)
             v == SignExtend(loaded, 32, 64)
             s == SignExtend(loaded, 32, m)
  <2>1. n = 32 /\ m \in {32, 64} /\ i.rd \in RegNums \cup {31}
    BY <1>1, <1>2, <1>9, FastOperands DEF AccessSize
  <2> HIDE DEF m, n
  <2>2. \A z, b : b \in Low(z, 32) <=> b \in z /\ b \in 0 .. 31
    BY Word32 DEF Low
  <2>3. \A b : b \in v <=> b \in Low(loaded, 32) \/ (32 - 1 \in loaded /\ b \in 32 .. 64 - 1)
    BY DEF SignExtend
  <2>4. \A b : b \in s <=> b \in Low(loaded, 32) \/ (32 - 1 \in loaded /\ b \in 32 .. m - 1)
    BY DEF SignExtend
  <2> HIDE DEF v, s
  <2>5. v \in SUBSET Ones(64) /\ s \in SUBSET Ones(m)
    <3>1. \A b \in v : b \in 0 .. 63
      BY <2>2, <2>3
    <3>2. \A b \in s : b \in 0 .. m - 1
      BY <2>1, <2>2, <2>4
    <3>3. QED
      BY <3>1, <3>2, Word32 DEF Ones
  <2>6. Low(v, m) = s
    <3>1. \A b : b \in Low(v, m) <=> b \in v /\ b \in 0 .. m - 1
      BY DEF Low, Ones
    <3>2. \A b : b \in Low(v, m) <=> b \in s
      BY <2>1, <2>2, <2>3, <2>4, <3>1
    <3>3. QED
      BY <3>2
  <2>7. ExecuteInstruction(a, i) = Skip(WriteReg(a, i.rd, v)) /\ Execute(a, i) = Skip(WriteReg(a, i.rd, s))
    BY <1>3, <1>4, <1>6, <1>7, <1>9, <2>1 DEF v, s, m
  <2>8. QED
    BY <2>1, <2>5, <2>6, <2>7, ResultsFollow DEF m
<1>10. QED
  BY <1>8, <1>9

\* Four bytes are the lower half of the eight at their address.
LEMMA ReadHalf ==
  ASSUME NEW mem, NEW addr, NEW n \in {32, 64}
  PROVE  Low(Read(mem, addr, 64), n) = Read(mem, addr, n) /\ Read(mem, addr, n) \in SUBSET Ones(n)
<1>1. 64 \div 8 = 8 /\ 32 \div 8 = 4
  OBVIOUS
<1> DEFINE held(b, m) == \E k \in 0 .. m - 1 : \E c \in 0 .. 7 : b = 8 * k + c /\ <<Plus(addr, k), c>> \in mem
<1>2. ASSUME NEW m \in {32, 64}, NEW b
      PROVE  b \in Read(mem, addr, m) <=> held(b, m \div 8)
  <2> DEFINE byte(k) == {8 * k + c : c \in {c \in 0 .. 7 : <<Plus(addr, k), c>> \in mem}}
             bytes == 0 .. (m \div 8) - 1
  <2>1. Read(mem, addr, m) = UNION {byte(k) : k \in bytes}
    BY DEF Read
  <2>2. \A k : b \in byte(k) <=> \E c \in 0 .. 7 : b = 8 * k + c /\ <<Plus(addr, k), c>> \in mem
    BY Zenon
  <2> HIDE DEF byte, bytes
  <2>3. b \in Read(mem, addr, m) <=> \E k \in bytes : b \in byte(k)
    BY <2>1
  <2>4. QED
    BY <2>2, <2>3, Zenon DEF bytes
<1>3. ASSUME NEW b PROVE held(b, 4) <=> held(b, 8) /\ b \in 0 .. 31
  <2>1. \A k \in 0 .. 7 : \A c \in 0 .. 7 : 8 * k + c \in 0 .. 31 <=> k \in 0 .. 3
    OBVIOUS
  <2>2. ASSUME held(b, 4) PROVE held(b, 8) /\ b \in 0 .. 31
    <3>1. PICK k \in 0 .. 4 - 1, c \in 0 .. 7 : b = 8 * k + c /\ <<Plus(addr, k), c>> \in mem
      BY <2>2
    <3>2. k \in 0 .. 8 - 1 /\ k \in 0 .. 7 /\ k \in 0 .. 3
      OBVIOUS
    <3>3. b \in 0 .. 31
      BY ONLY <2>1, <3>1, <3>2, c \in 0 .. 7
    <3>4. held(b, 8)
      BY <3>1, <3>2
    <3>5. QED
      BY <3>3, <3>4
  <2>3. ASSUME held(b, 8), b \in 0 .. 31 PROVE held(b, 4)
    <3>1. PICK k \in 0 .. 8 - 1, c \in 0 .. 7 : b = 8 * k + c /\ <<Plus(addr, k), c>> \in mem
      BY <2>3
    <3>2. k \in 0 .. 7
      OBVIOUS
    <3>3. k \in 0 .. 3
      BY ONLY <2>1, <2>3, <3>1, <3>2, c \in 0 .. 7
    <3>4. k \in 0 .. 4 - 1
      BY <3>3
    <3>5. QED
      BY <3>1, <3>4
  <2>4. QED
    BY <2>2, <2>3
<1>4. ASSUME NEW b PROVE held(b, 8) => b \in 0 .. 63
  OBVIOUS
<1> HIDE DEF held
<1>5. CASE n = 32
  <2>1. \A b : b \in Read(mem, addr, 64) <=> held(b, 8)
    BY <1>1, <1>2
  <2>2. \A b : b \in Read(mem, addr, 32) <=> held(b, 4)
    BY <1>1, <1>2
  <2>3. \A b : b \in Low(Read(mem, addr, 64), 32) <=> b \in Read(mem, addr, 64) /\ b \in 0 .. 31
    BY Word32 DEF Low
  <2>4. \A b : b \in Low(Read(mem, addr, 64), 32) <=> b \in Read(mem, addr, 32)
    BY <1>3, <2>1, <2>2, <2>3
  <2>5. Low(Read(mem, addr, 64), 32) = Read(mem, addr, 32)
    BY <2>4
  <2>6. \A z : Low(z, 32) \in SUBSET Ones(32)
    BY DEF Low
  <2>7. QED
    BY <1>5, <2>5, <2>6
<1>6. CASE n = 64
  <2>1. Read(mem, addr, 64) \in SUBSET Ones(64)
    BY ReadIsWord
  <2>2. QED
    BY <1>6, <2>1, LowOfWord
<1>7. QED
  BY <1>5, <1>6

\* LDR: the base before the loaded value here, after it in the emulator.
LEMMA LoadsFollow ==
  ASSUME NEW a, FastState(a), NEW i, IsFast(i), FastByName(a, i), i.op = "LDR"
  PROVE  FollowsEmulator(a, i)
<1> DEFINE addr == WordAddress(a, i)
           n == Size(i)
           v == Read(a.mem, addr, 64)
           u == Read(a.mem, addr, n)
           base == Moved(a, i)
           regs == BaseRegs(a.regs, i, base)
           pc == Plus(a.pc, 4)
<1>1. i.fmt = "LoadStore"
  BY FormsOfOperations
<1>2. /\ Address(a, i) = addr /\ i.rm # NoRegister /\ i.rn # 31
      /\ \A s : BaseWriteback(a, s, i) = IF Indexed(i) THEN WriteReg(s, i.rn, base) ELSE s
  BY <1>1, BasesFollow
<1>3. IsState(a) /\ IsRegFile(a.regs) /\ i.rd \in RegNums \cup {31} /\ n \in {32, 64}
  BY <1>1, <1>2, FastOperands DEF IsState
<1>4. ExecuteInstruction(a, i) = Skip(WriteReg(IF Indexed(i) THEN WriteReg(a, i.rn, base) ELSE a, i.rd, v))
  <2>1. ExecuteInstruction(a, i) = Skip(LoadWord(a, i))
    BY <1>2, FastExecutes
  <2>2. QED
    BY <2>1 DEF LoadWord
<1>5. Execute(a, i) = Skip(BaseWriteback(a, WriteReg(a, i.rd, u), i))
  <2>1. Execute(a, i) = Skip(ExecuteLoadStore(a, i))
    BY <1>1 DEF Execute
  <2>2. AccessSize(i) = n
    BY DEF AccessSize
  <2> HIDE DEF addr, n
  <2>3. ExecuteLoadStore(a, i) = BaseWriteback(a, WriteReg(a, i.rd, u), i)
    BY <1>2, <2>2 DEF ExecuteLoadStore
  <2>4. QED
    BY <2>1, <2>3
<1>6. v \in SUBSET Ones(64) /\ u \in SUBSET Ones(64) /\ Low(v, n) = Low(u, n)
  <2> HIDE DEF n, addr
  <2>1. Low(v, n) = u /\ u \in SUBSET Ones(n) /\ v \in SUBSET Ones(64)
    BY <1>3, ReadHalf, ReadIsWord
  <2>2. QED
    BY <1>3, <2>1, ShortWord
<1> HIDE DEF v, u, base, addr, n
<1>7. /\ \A r, w : WriteReg(a, r, w) = Put(a, a.pc, Wrote(a.regs, r, w), a.sp, a.fl, a.mem)
      /\ \A q, r, w : WriteReg(Put(a, a.pc, q, a.sp, a.fl, a.mem), r, w) = Put(a, a.pc, Wrote(q, r, w), a.sp, a.fl, a.mem)
      /\ \A q : Skip(Put(a, a.pc, q, a.sp, a.fl, a.mem)) = Put(a, pc, q, a.sp, a.fl, a.mem)
      /\ a = Put(a, a.pc, a.regs, a.sp, a.fl, a.mem)
  <2>1. a = Put(a, a.pc, a.regs, a.sp, a.fl, a.mem)
    BY <1>3, WholeState
  <2>2. \A q, r, w : WriteReg(Put(a, a.pc, q, a.sp, a.fl, a.mem), r, w) = Put(a, a.pc, Wrote(q, r, w), a.sp, a.fl, a.mem)
    BY <1>3, PutWrites
  <2>3. \A q : Skip(Put(a, a.pc, q, a.sp, a.fl, a.mem)) = Put(a, pc, q, a.sp, a.fl, a.mem)
    BY <1>3, PutWrites
  <2>4. ASSUME NEW r, NEW w PROVE WriteReg(a, r, w) = Put(a, a.pc, Wrote(a.regs, r, w), a.sp, a.fl, a.mem)
    BY <2>1, <2>2, Zenon
  <2>5. QED
    BY <2>1, <2>2, <2>3, <2>4
<1> HIDE DEF pc
<1> DEFINE put(q) == Put(a, a.pc, q, a.sp, a.fl, a.mem)
           end(q) == Put(a, pc, q, a.sp, a.fl, a.mem)
<1>8. /\ \A r, w : WriteReg(a, r, w) = put(Wrote(a.regs, r, w))
      /\ \A q, r, w : WriteReg(put(q), r, w) = put(Wrote(q, r, w))
      /\ \A q : Skip(put(q)) = end(q)
      /\ a = put(a.regs)
  BY <1>7
<1>9. ASSUME NEW w, w \in {v, u} PROVE Wrote(regs, i.rd, w) = BaseRegs(Wrote(a.regs, i.rd, w), i, base)
  <2>1. Indexed(i) => i.rd # i.rn
    BY DEF FastByName
  <2>2. QED
    BY <1>3, <2>1, BaseCommutes
<1> HIDE DEF put, end
<1>10. ExecuteInstruction(a, i) = end(Wrote(regs, i.rd, v))
  BY <1>4, <1>8 DEF BaseRegs
<1>11. Execute(a, i) = end(Wrote(regs, i.rd, u))
  <2>1. Execute(a, i) = end(BaseRegs(Wrote(a.regs, i.rd, u), i, base))
    BY <1>2, <1>5, <1>8 DEF BaseRegs
  <2> HIDE DEF regs
  <2>2. QED
    BY <1>9, <2>1
<1>12. IsRegFile(regs)
  BY <1>3, WroteIsFile DEF BaseRegs
<1> HIDE DEF regs
<1>13. Halved(end(Wrote(regs, i.rd, v)), i) = Halved(end(Wrote(regs, i.rd, u)), i)
  BY <1>3, <1>6, <1>12, SameHalves DEF end, n
<1>14. QED
  BY <1>10, <1>11, <1>13 DEF FollowsEmulator

\* Branches, their conditions and tests, and NOP.
LEMMA BranchesFollow ==
  ASSUME NEW a, FastState(a), NEW i, IsFast(i), FastByName(a, i),
         i.op \in {"B", "BL", "RET", "BCond", "CBZ", "CBNZ", "TBZ", "TBNZ", "NOP"}
  PROVE  FollowsEmulator(a, i)
<1>1. i.rm # NoRegister
  BY DEF FastByName
<1>2. CASE i.op \in {"B", "BL"}
  <2>1. Execute(a, i) = ExecuteBranch(a, i)
    BY <1>2, FormsOfOperations DEF Execute
  <2>2. ExecuteInstruction(a, i) = ExecuteBranch(a, i)
    BY <1>1, <1>2, FastExecutes DEF ExecuteBranch
  <2>3. QED
    BY <2>1, <2>2 DEF FollowsEmulator
<1>3. CASE i.op = "RET"
  <2>1. Execute(a, i) = ExecuteBranchReg(a, i)
    BY <1>3, FormsOfOperations DEF Execute
  <2>2. ExecuteBranchReg(a, i) = [a EXCEPT !.pc = ReadReg(a, 30)]
    BY <1>3 DEF ExecuteBranchReg, FastByName
  <2>3. ExecuteInstruction(a, i) = [a EXCEPT !.pc = ReadReg(a, 30)]
    BY <1>1, <1>3, FastExecutes
  <2>4. QED
    BY <2>1, <2>2, <2>3 DEF FollowsEmulator
<1>4. CASE i.op = "BCond"
  <2>1. i.fmt = "BranchCond"
    BY <1>4, FormsOfOperations
  <2>2. Execute(a, i) = ExecuteBranchCond(a, i)
    BY <1>4, <2>1 DEF Execute
  <2>3. EvaluateCondition(a.fl, i.cond) <=> CheckCondition(a.fl, i.cond)
    BY <2>1, ConditionsFollow
  <2>4. ExecuteInstruction(a, i) = BranchInst(a, i)
    BY <1>1, <1>4, FastExecutes
  <2>5. Test(a, i) <=> EvaluateCondition(a.fl, i.cond)
    BY <1>4, Zenon DEF Test
  <2>6. BranchInst(a, i) = ExecuteBranchCond(a, i)
    BY <2>3, <2>5, Zenon DEF BranchInst, ExecuteBranchCond
  <2>7. QED
    BY <2>2, <2>4, <2>6 DEF FollowsEmulator
<1>5. CASE i.op \in {"CBZ", "CBNZ"}
  <2>1. i.fmt = "CompareBranch"
    BY <1>5, FormsOfOperations
  <2>2. Execute(a, i) = ExecuteCompareBranch(a, i)
    BY <1>5, <2>1 DEF Execute
  <2>3. ExecuteInstruction(a, i) = BranchInst(a, i)
    BY <1>1, <1>5, FastExecutes
  <2> DEFINE x == ReadReg(a, i.rd)
  <2>4. Low(x, Size(i)) = x
    <3>1. x \in SUBSET Ones(64)
      BY <1>1, <2>1, FastOperands
    <3>2. CASE i.is64
      BY <3>1, <3>2, LowOfWord DEF Size
    <3>3. CASE ~i.is64
      <4>1. x \subseteq Ones(32)
        BY <1>5, <3>3 DEF FastByName, Narrow, Upper
      <4> HIDE DEF x
      <4>2. QED
        BY <3>3, <4>1 DEF Size, Low
    <3>4. QED
      BY <3>2, <3>3
  <2> HIDE DEF x
  <2>5. i.op = "CBZ" => ((Low(x, Size(i)) = {}) = (i.op = "CBZ") <=> x = {})
    BY <2>4
  <2>6. i.op = "CBNZ" => ((Low(x, Size(i)) = {}) = (i.op = "CBZ") <=> x # {})
    BY <2>4
  <2>7. /\ i.op = "CBZ" => Test(a, i) = (x = {})
        /\ i.op = "CBNZ" => Test(a, i) = (x # {})
    BY DEF Test, x
  <2>8. BranchInst(a, i) = ExecuteCompareBranch(a, i)
    BY <1>5, <2>5, <2>6, <2>7 DEF BranchInst, ExecuteCompareBranch, x
  <2>9. QED
    BY <2>2, <2>3, <2>8 DEF FollowsEmulator
<1>6. CASE i.op \in {"TBZ", "TBNZ"}
  <2>1. Execute(a, i) = ExecuteTestBranch(a, i)
    BY <1>6, FormsOfOperations DEF Execute
  <2>2. ExecuteInstruction(a, i) = BranchInst(a, i)
    BY <1>1, <1>6, FastExecutes
  <2> DEFINE set == Num(i.imm) \in ReadReg(a, i.rd)
             goes == Test(a, i)
             does == (Num(i.imm) \in ReadReg(a, i.rd)) = (i.op = "TBNZ")
  <2>3. i.op = "TBZ" => (goes <=> ~set)
    BY Zenon DEF Test
  <2>4. i.op = "TBNZ" => (goes <=> set)
    BY Zenon DEF Test
  <2>5. i.op = "TBZ" => (does <=> ~set)
    OBVIOUS
  <2>6. i.op = "TBNZ" => (does <=> set)
    OBVIOUS
  <2>7. BranchInst(a, i) = IF goes THEN Jump(a, i) ELSE Skip(a)
    BY Zenon DEF BranchInst
  <2>8. ExecuteTestBranch(a, i) = IF does THEN Jump(a, i) ELSE Skip(a)
    BY Zenon DEF ExecuteTestBranch
  <2> HIDE DEF set, goes, does
  <2>9. BranchInst(a, i) = ExecuteTestBranch(a, i)
    BY <1>6, <2>3, <2>4, <2>5, <2>6, <2>7, <2>8
  <2>10. QED
    BY <2>1, <2>2, <2>9 DEF FollowsEmulator
<1>7. CASE i.op = "NOP"
  <2>1. Execute(a, i) = Skip(a)
    BY <1>7 DEF Execute, IsFast, HasOperation, Formats
  <2>2. ExecuteInstruction(a, i) = Skip(a)
    BY <1>1, <1>7, FastExecutes DEF Silent
  <2>3. QED
    BY <2>1, <2>2 DEF FollowsEmulator
<1>8. QED
  BY <1>2, <1>3, <1>4, <1>5, <1>6, <1>7

\* A system call, whose exit leaves another PC than the emulator's.
LEMMA SystemCallsFollow ==
  ASSUME NEW a, FastState(a), NEW i, IsFast(i), FastByName(a, i), i.op = "SVC", a.status = "running"
  PROVE  FollowsEmulator(a, i)
<1> DEFINE pc == Plus(a.pc, 4)
           b == Skip(a)
           failed == Negate(ENOSYS, 64)
<1>1. IsState(a) /\ i.rm # NoRegister
  BY DEF FastState, FastByName
<1>2. b = WithPC(a, pc)
  BY DEF Skip, WithPC
<1>3. ExecuteInstruction(a, i) = HandleSyscall(a)
  BY <1>1, FastExecutes
<1>4. Execute(a, i) = Handle(b)
  BY DEF Execute, IsFast, HasOperation, Formats
<1>5. IsState(b) /\ b.regs = a.regs /\ b.status = "running"
  BY <1>1 DEF IsState, Skip, IsRegFile
<1>6. ReadReg(b, 8) = ReadReg(a, 8) /\ ReadReg(b, 0) = ReadReg(a, 0)
  BY <1>5 DEF ReadReg
<1> HIDE DEF b, pc
<1>7. CASE ReadReg(a, 8) = ExitNumber
  <2> DEFINE code == ReadReg(a, 0)
             p == a.pc   q == a.regs   x == a.sp   f == a.fl   v == a.vec   m == a.mem   c == a.count
             t == a.status   d == a.code
  <2>1. Handle(a) = Stop(a, code) /\ Handle(b) = Stop(b, code)
    BY <1>6, <1>7 DEF Handle
  <2> HIDE DEF code
  <2>2. a = Whole(p, q, x, f, v, m, c, t, d)
    BY <1>1 DEF IsState, Whole
  <2> HIDE DEF p, q, x, f, v, m, c, t, d
  <2>3. b = Whole(pc, q, x, f, v, m, c, t, d)
    BY <1>2, <2>2, WholeChanges
  <2>4. ASSUME NEW s
        PROVE  /\ Stop(Whole(s, q, x, f, v, m, c, t, d), code) = Whole(s, q, x, f, v, m, c, "exited", code)
               /\ Visible(Whole(s, q, x, f, v, m, c, "exited", code)) = Whole({}, q, x, f, v, m, 0, "exited", code)
               /\ Whole(s, q, x, f, v, m, c, "exited", code).status = "exited"
    <3> DEFINE y == Whole(s, q, x, f, v, m, c, t, d)
               z == Whole(s, q, x, f, v, m, c, "exited", code)
    <3>1. [y EXCEPT !.status = "exited", !.code = code] = z
      <4> DEFINE y1 == Whole(s, q, x, f, v, m, c, "exited", d)
      <4>1. [y EXCEPT !.status = "exited"] = y1
        BY DEF Whole
      <4>2. [y1 EXCEPT !.code = code] = z
        BY DEF Whole
      <4> HIDE DEF y, y1, z
      <4>3. [y EXCEPT !.status = "exited", !.code = code] = [[y EXCEPT !.status = "exited"] EXCEPT !.code = code]
        OBVIOUS
      <4>4. QED
        BY <4>1, <4>2, <4>3
    <3>2. z.status = "exited"
      BY DEF Whole
    <3>3. [z EXCEPT !.count = 0, !.pc = {}] = Whole({}, q, x, f, v, m, 0, "exited", code)
      <4> DEFINE z1 == Whole(s, q, x, f, v, m, 0, "exited", code)
      <4>1. [z EXCEPT !.count = 0] = z1
        BY DEF Whole
      <4>2. [z1 EXCEPT !.pc = {}] = Whole({}, q, x, f, v, m, 0, "exited", code)
        BY DEF Whole
      <4> HIDE DEF z, z1
      <4>3. [z EXCEPT !.count = 0, !.pc = {}] = [[z EXCEPT !.count = 0] EXCEPT !.pc = {}]
        OBVIOUS
      <4>4. QED
        BY <4>1, <4>2, <4>3
    <3> HIDE DEF y, z
    <3>4. Stop(y, code) = z
      BY <3>1 DEF Stop
    <3>5. Visible(z) = [z EXCEPT !.count = 0, !.pc = {}]
      BY <3>2 DEF Visible
    <3>6. QED
      BY <3>2, <3>3, <3>4, <3>5 DEF y, z
  <2>6. Visible(Handle(a)) = Visible(Handle(b))
    BY <2>1, <2>2, <2>3, <2>4
  <2>7. Handle(a).status = "exited"
    BY <2>1, <2>2, <2>4
  <2>8. QED
    BY <1>3, <1>4, <2>6, <2>7 DEF FollowsEmulator, HandleSyscall, Halved
<1>8. CASE ReadReg(a, 8) # ExitNumber
  <2>1. Handle(a) = WriteReg(a, 0, failed) /\ Handle(b) = WriteReg(b, 0, failed)
    BY <1>6, <1>8 DEF Handle
  <2> HIDE DEF failed
  <2>2. a = Put(a, a.pc, a.regs, a.sp, a.fl, a.mem)
    BY <1>1, WholeState
  <2> DEFINE regs == Wrote(a.regs, 0, failed)
             s == Put(a, a.pc, regs, a.sp, a.fl, a.mem)
             e == Put(a, pc, regs, a.sp, a.fl, a.mem)
             skipped == Put(a, pc, a.regs, a.sp, a.fl, a.mem)
  <2>3. WriteReg(a, 0, failed) = s
    <3>1. WriteReg(Put(a, a.pc, a.regs, a.sp, a.fl, a.mem), 0, failed) = s
      BY <1>1, PutWrites
    <3>2. QED
      BY <2>2, <3>1, Zenon
  <2>4. Skip(s) = e
    BY <1>1, PutWrites DEF pc
  <2>5. b = skipped
    <3>1. Skip(Put(a, a.pc, a.regs, a.sp, a.fl, a.mem)) = skipped
      BY <1>1, PutWrites DEF pc
    <3>2. QED
      BY <2>2, <3>1, Zenon DEF b
  <2>6. WriteReg(skipped, 0, failed) = e
    BY <1>1, PutWrites
  <2>7. s.status = "running"
    BY <1>1, PutParts
  <2> HIDE DEF s, e, skipped
  <2>8. HandleSyscall(a) = e
    BY <2>1, <2>3, <2>4, <2>7 DEF HandleSyscall
  <2>9. Handle(b) = e
    BY <2>1, <2>5, <2>6
  <2>10. QED
    BY <1>3, <1>4, <2>8, <2>9 DEF FollowsEmulator
<1>9. QED
  BY <1>7, <1>8

\* Every operation fast timing has a case for.
LEMMA FastFollows ==
  ASSUME NEW a, FastState(a), NEW i, IsFast(i), FastByName(a, i), a.status = "running"
  PROVE  FollowsEmulator(a, i)
<1>1. i.op \in Handled /\ i.op # "MRS" /\ i.op # "DUP" /\ i.op \notin {"ADR", "ADRP"}
  BY FormsOfOperations DEF FastByName
<1>2. \/ i.op \in {"ADD", "SUB"} \/ i.op \in {"AND", "ORR", "EOR", "BIC", "ORN", "EON"}
      \/ i.op \in {"MADD", "MSUB"} \/ i.op \in {"MOVZ", "MOVN", "MOVK"} \/ i.op \in {"CSEL", "CSINC"}
      \/ i.op = "CCMP" \/ i.op \in {"UBFM", "SBFM"} \/ i.op \in {"LSLV", "LSRV", "ASRV"}
      \/ i.op = "LDR" \/ i.op = "STR" \/ i.op \in {"LDRB", "STRB", "LDRH", "STRH", "LDRSW"}
      \/ i.op \in {"LDP", "STP"} \/ i.op = "SVC"
      \/ i.op \in {"B", "BL", "RET", "BCond", "CBZ", "CBNZ", "TBZ", "TBNZ", "NOP"}
  BY <1>1 DEF Handled, Timed, Silent
<1>3. QED
  BY <1>2, SumsFollow, LogicFollows, ProductsFollow, MovesFollow, SelectionsFollow, ComparesFollow,
     FieldsFollow, ShiftsFollow, LoadsFollow, StoresFollow, NarrowAccessesFollow, PairsFollow,
     SystemCallsFollow, BranchesFollow

(* Fast timing computes what the emulator computes but for the differences     *)
(* named, whatever the programs and the values in registers and memory are:    *)
(* each case of its executor against the emulator's handler of the same        *)
(* operation.                                                                  *)
THEOREM FastTimingIsTheEmulator == SimSpec => FastTimingFollowsEmulator
<1> DEFINE i == Current
           Claim == machine = "fast" /\ FastDiffers(arch, Current) = {} =>
                      Halved(arch', Current) = Halved(Step(arch), Current)
<1>1. FastRuns /\ [SimNext]_simVars => [Claim]_simVars
  <2> SUFFICES ASSUME FastRuns, SimNext, machine = "fast", FastDiffers(arch, Current) = {}
               PROVE  Halved(arch', Current) = Halved(Step(arch), Current)
    OBVIOUS
  <2> DEFINE done == ExecuteInstruction(arch, i)
             right == Execute(arch, i)
             k == IF done.status = "panicked" THEN done.count ELSE done.count + 1
  <2>1. prog \in Programs /\ FastState(arch) /\ IsState(arch)
    BY DEF FastRuns, FastState
  <2>2. IsFast(i)
    BY <2>1, ProgramsAreFast DEF Current
  <2>3. FastByName(arch, i)
    BY NoFastDifference
  <2>4. Tick
    BY DEF SimNext, Emulates, GoesThrough, Fuses, Ticks
  <2>5. i.op # "Unknown" /\ ~Limited(arch)
    BY <2>3 DEF FastByName, Handled, Timed, Silent
  <2>6. arch.status = "running" /\ arch' = [done EXCEPT !.count = k]
    <3>1. /\ arch.status = "running"
          /\ IF Limited(arch) THEN arch' = Stop(arch, {})
             ELSE IF i.op = "Unknown" THEN arch' = Stop(arch, Failed)
             ELSE arch' = [done EXCEPT !.count = IF done.status = "panicked" THEN @ ELSE @ + 1]
      BY <2>4, Zenon DEF Tick, Current
    <3> HIDE DEF done
    <3>2. QED
      BY <2>5, <3>1
  <2>7. Step(arch) = [right EXCEPT !.count = right.count + 1]
    BY <2>5 DEF Step, Current
  <2>8. IsState(done)
    BY <2>1, <2>2, FastKeepsState DEF FastState
  <2>9. IsState(right)
    BY <2>1, <2>2, ExecuteKeepsState DEF IsFast
  <2>10. Halved(done, i) = Halved(right, i)
    BY <2>1, <2>2, <2>3, <2>6, FastFollows DEF FollowsEmulator
  <2> HIDE DEF done, right, k, i
  <2>11. Halved(arch', i) = Halved(done, i)
    BY <2>6, <2>8, CountIsNotCompared
  <2>12. Halved(Step(arch), i) = Halved(right, i)
    BY <2>7, <2>9, CountIsNotCompared
  <2>13. QED
    BY <2>10, <2>11, <2>12 DEF i
<1>2. SimSpec => []FastRuns
  BY FastKeepsRunning
<1> HIDE DEF Claim
<1>3. SimSpec => [][Claim]_simVars
  BY <1>1, <1>2, PTL DEF SimSpec
<1>4. QED
  BY <1>3 DEF FastTimingFollowsEmulator, Claim
===========================================================================
