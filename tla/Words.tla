------------------------------ MODULE Words ------------------------------
(***************************************************************************)
(* Machine words, exactly.  A word is the set of the positions of its one   *)
(* bits, so 0 is {} and 2^64 - 1 is 0 .. 63: the logical operations are     *)
(* those of sets, and no value is scaled down.  A word of n bits is a       *)
(* subset of 0 .. n - 1; n is a parameter where the width matters.          *)
(*                                                                         *)
(* These are the operators of Go's uint64, int64, uint32 and int32 that     *)
(* the instruction set needs, and emu.Memory over such words.               *)
(***************************************************************************)
EXTENDS Integers, Folds

Ones(n) == 0 .. n - 1

\* Between small natural numbers and words.
W(k) == {b \in 0 .. 30 : (k \div 2^b) % 2 = 1}
Num(x) == MapThenFoldSet(+, 0, LAMBDA b : 2^b, LAMBDA S : CHOOSE b \in S : TRUE, x)

\* Conversion to n bits, the bits hi .. lo as a word, and sign extension of k bits to n.
Low(x, n) == x \cap Ones(n)
Slice(x, hi, lo) == {b - lo : b \in x \cap (lo .. hi)}
Field(x, hi, lo) == Num(Slice(x, hi, lo))
SignExtend(x, k, n) == IF k - 1 \in x THEN Low(x, k) \cup (k .. n - 1) ELSE Low(x, k)

Xor(x, y) == (x \cup y) \ (x \cap y)
Not(x, n) == Ones(n) \ x
\* Go shifts by an unsigned count: a negative one is huge and leaves nothing.
Shl(x, k, n) == IF k < 0 THEN {} ELSE Low({b + k : b \in x}, n)
Shr(x, k) == {b - k : b \in {c \in x : c >= k}}
Sar(x, k, n) == IF n - 1 \in x THEN Shr(x, k) \cup ((IF k < n THEN n - k ELSE 0) .. n - 1)
                ELSE Shr(x, k)
Ror(x, k, n) == Shr(x, k) \cup Shl(x, n - k, n)

\* Addition with all carries found at once: out of the 2^k positions up to b a carry
\* comes when one of them generates it and those above pass it on.
Add(x, y, n) ==
  LET span[k \in 0 .. 6] ==
        IF k = 0 THEN [generate |-> x \cap y, pass |-> Xor(x, y)]
        ELSE LET half == span[k - 1]
                 d == 2^(k - 1)
             IN [generate |-> half.generate \cup (half.pass \cap Shl(half.generate, d, n)),
                 pass |-> half.pass \cap Shl(half.pass, d, n)]
  IN Low(Xor(Xor(x, y), Shl(span[6].generate, 1, n)), n)

\* In two's complement x - y is the complement of (the complement of x) + y.
Sub(x, y, n) == Not(Add(Not(x, n), Low(y, n), n), n)

\* x < y of unsigned and of n-bit signed words.
Less(x, y) ==
  LET d == x \ y IN \E b \in y \ x : \A c \in d : c < b
SignedLess(x, y, n) ==
  IF (n - 1 \in x) = (n - 1 \in y) THEN Less(x, y) ELSE n - 1 \in x

\* The sum of x moved up to each one of y, taken in pairs, pairs of pairs and so on.
Mul(x, y, n) ==
  LET sum[k \in 0 .. 6] ==
        [j \in 0 .. 2^(6 - k) - 1 |->
           IF Slice(y, 2^k * (j + 1) - 1, 2^k * j) = {} THEN {}
           ELSE IF k = 0 THEN Shl(x, j, n)
           ELSE Add(sum[k - 1][2 * j], sum[k - 1][2 * j + 1], n)]
  IN sum[6][0]

\* Go's unsigned division, by long division from the top bit, and its signed one,
\* which truncates towards zero; the divisor is not 0.
UDiv(x, y, n) ==
  LET step[k \in 0 .. n] ==
        IF k = 0 THEN [q |-> {}, r |-> {}]
        ELSE LET last == step[k - 1]
                 r == Shl(last.r, 1, n + 1) \cup Slice(x, n - k, n - k)
             IN IF Less(r, y) THEN [q |-> last.q, r |-> r]
                ELSE [q |-> last.q \cup {n - k}, r |-> Sub(r, y, n + 1)]
  IN step[n].q
Negate(x, n) == Sub({}, x, n)
Magnitude(x, n) == IF n - 1 \in x THEN Negate(x, n) ELSE x
SDiv(x, y, n) ==
  LET q == UDiv(Magnitude(x, n), Magnitude(y, n), n)
  IN IF (n - 1 \in x) = (n - 1 \in y) THEN q ELSE Negate(q, n)

---------------------------------------------------------------------------
(* emu.Memory: the pairs of an address and a position that holds a one in    *)
(* the byte there; bytes never written read as 0.                            *)

Plus(addr, k) == Add(addr, W(k), 64)

\* Little-endian access to the n bits at addr.
Read(mem, addr, n) ==
  UNION {{8 * k + b : b \in {c \in 0 .. 7 : <<Plus(addr, k), c>> \in mem}} : k \in 0 .. (n \div 8) - 1}
Write(mem, addr, n, v) ==
  LET bytes == {Plus(addr, k) : k \in 0 .. (n \div 8) - 1}
  IN {p \in mem : p[1] \notin bytes} \cup {<<Plus(addr, b \div 8), b % 8>> : b \in Low(v, n)}
==========================================================================
