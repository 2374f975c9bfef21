-------------------------------- MODULE Bits --------------------------------
(***************************************************************************)
(* The puzzles of datalab/bits.c, for words of W bits and floats with EXP  *)
(* bits of exponent (32 and 8 in the code, whose constants are the values  *)
(* for 32 and 8 of the expressions here).  A word is the set of the        *)
(* numbers of its bits that are 1.                                         *)
(***************************************************************************)
EXTENDS Integers, FiniteSets, FiniteSetsExt

CONSTANTS W,    \* bits of a word: a power of two, at least 8
          EXP   \* bits of the exponent of a float

ASSUME BitsAssumption == W \in {8, 16, 32} /\ EXP \in 2 .. W - 2

VARIABLES x, y, z    \* the arguments

Bit == 0 .. W - 1
SIGN == W - 1
Words == SUBSET Bit

\* 2^n.
Pow2[n \in Nat] == IF n = 0 THEN 1 ELSE 2 * Pow2[n - 1]

\* The numbers that a word stands for, and back.
Unsigned(a) == MapThenSumSet(LAMBDA b : Pow2[b], a)
Signed(a) == IF SIGN \in a THEN Unsigned(a) - Pow2[W] ELSE Unsigned(a)
Word(n) == {b \in Bit : (n \div Pow2[b]) % 2 = 1}

\* The operators of C on int: + wraps around, >> copies the sign.
Not(a) == Bit \ a
Xor(a, b) == (a \ b) \cup (b \ a)
Plus(a, b) == Word((Unsigned(a) + Unsigned(b)) % Pow2[W])
Shl(a, n) == {b + n : b \in a} \cap Bit
Shr(a, n) == {b - n : b \in a} \cap Bit
Sar(a, n) == Shr(a, n) \cup IF SIGN \in a THEN W - n .. SIGN ELSE {}
Bang(a) == IF a = {} THEN {0} ELSE {}
One == {0}

bitXor(a, b) == Not(a \cap b) \cap Not(Not(a) \cap Not(b))

tmin == Shl(One, SIGN)

\* Mutation: -1 is not removed first.
isTmax_NotMinusOne(a) == Bang(Xor(Plus(a, One), Not(a)))

isTmax(a) == LET new == Plus(Bang(Plus(a, One)), a)
             IN  Bang(Xor(Plus(new, One), Not(new)))

\* 0xAA, and the same in each byte.
OddBits == {b \in Bit : b % 2 = 1}
allOddBits(a) == Bang(Xor(OddBits \cap a, OddBits))

negate(a) == Plus(Not(a), One)

isAsciiDigit(a) == Bang(Xor(Sar(a, 3), Word(6))) \cup Bang(Xor(Sar(a, 1), Word(28)))

conditional(a, b, c) == LET mask == Plus(Not(Bang(a)), One)
                        IN  (Not(mask) \cap b) \cup (mask \cap c)

isLessOrEqual(a, b) ==
  LET differ == Xor(Sar(a, SIGN), Sar(b, SIGN))
      cond_1 == differ \cap (Sar(a, SIGN) \cap One)
      cond_2 == Bang(differ) \cap Bang(Sar(Plus(b, negate(a)), SIGN) \cap One)
  IN  cond_1 \cup cond_2

logicalNeg(a) == Plus(Sar(a \cup negate(a), SIGN), One)

\* The first 1 is looked for in the upper half, then in the half of the half it is in.
Halves == <<W \div 2, W \div 4, W \div 8, W \div 16, W \div 32>>
Halve(found, h) ==      \* found: what is left of the word, and the sum of the m's
  IF h # 0 /\ Sar(found[1], h) # {} THEN <<Sar(found[1], h), found[2] + h>> ELSE found
howManyBits(a) ==
  LET found == Halve(Halve(Halve(Halve(Halve(<<Xor(Sar(a, SIGN), a), 0>>,
                 Halves[1]), Halves[2]), Halves[3]), Halves[4]), Halves[5])
  IN  found[2] + Unsigned(found[1]) + 1

\* Floats: sign, exponent, fraction.
FRAC == W - 1 - EXP
BIAS == Pow2[EXP - 1] - 1
Exponent(f) == Shr(Shl(f, 1), FRAC + 1)
AllOnes == 0 .. EXP - 1
Infinity == FRAC .. FRAC + EXP - 1

floatScale2(f) ==
  CASE Exponent(f) = AllOnes -> f
    [] Exponent(f) = {}      -> Plus(Shl(Shr(f, SIGN), SIGN), Shl(f, 1))
    [] OTHER                 -> Plus(f, Shl(One, FRAC))

floatFloat2Int(f) ==
  LET E == Unsigned(Exponent(f)) - BIAS
      pow_2_E == Shl(One, E)
  IN  CASE E >= SIGN -> tmin
        [] E < 0     -> {}
        [] OTHER     -> IF SIGN \in f THEN negate(pow_2_E) ELSE pow_2_E

\* n is an int: any of the range of the words is enough, the float has far fewer exponents.
floatPower2(n) ==
  CASE n > BIAS -> Infinity
    [] 1 - BIAS <= n /\ n <= BIAS -> Shl(Word(n + BIAS), FRAC)
    [] 1 - BIAS - FRAC <= n /\ n <= -BIAS -> Shl(One, n + BIAS + FRAC - 1)
    [] OTHER -> {}

BitsInit == x \in Words /\ y \in Words /\ z = Xor(x, y)
-----------------------------------------------------------------------------
Truth(condition) == IF condition THEN One ELSE {}

\* The least number of bits that n fits in.
Fits(n, bits) == -Pow2[bits - 1] <= n /\ n < Pow2[bits - 1]

\* |f| in units of the smallest float, for a float that is not infinite.
Fraction(f) == f \cap 0 .. FRAC - 1
Finite(f) == Exponent(f) # AllOnes
Size(f) == IF Exponent(f) = {} THEN Unsigned(Fraction(f))
           ELSE (Pow2[FRAC] + Unsigned(Fraction(f))) * Pow2[Unsigned(Exponent(f)) - 1]
UNIT == Pow2[BIAS - 1 + FRAC]      \* the number 1 in these units
MAXINT == Pow2[SIGN] - 1

\* The puzzles on integers give what the comment above each says, for every word.
IntegersRight ==
  LET i == Signed(x)
      j == Signed(y)
  IN  /\ bitXor(x, y) = Xor(x, y)
      /\ isTmax(x) = Truth(i = MAXINT) /\ Signed(tmin) = -Pow2[SIGN]
      /\ allOddBits(x) = Truth(\A b \in Bit : b % 2 = 1 => b \in x)
      /\ negate(x) = Word((Pow2[W] - i) % Pow2[W])
      /\ isAsciiDigit(x) = Truth(48 <= i /\ i <= 57)
      /\ conditional(x, y, z) = IF i # 0 THEN y ELSE z
      /\ isLessOrEqual(x, y) = Truth(i <= j)
      /\ logicalNeg(x) = Truth(i = 0)
      /\ Fits(i, howManyBits(x)) /\ (howManyBits(x) > 1 => ~Fits(i, howManyBits(x) - 1))

\* Twice f, unless that is above the largest float and f has a fraction (the code then returns a
\* NaN, bits.c:333 calls it inf); (int) f, for an f without fraction or below 1 or too large (for
\* others the code drops the fraction and returns the power of two below, bits.c:337 says (int) f);
\* 2.0^n.
FloatsRight ==
  LET n == Signed(x)
  IN  /\ Finite(x) /\ (Finite(floatScale2(x)) \/ Fraction(x) = {})
           => /\ SIGN \in floatScale2(x) <=> SIGN \in x
              /\ IF Finite(floatScale2(x)) THEN Size(floatScale2(x)) = 2 * Size(x)
                 ELSE floatScale2(x) \ {SIGN} = Infinity /\ 2 * Size(x) >= UNIT * Pow2[BIAS + 1]
      /\ ~Finite(x) => floatScale2(x) = x
      /\ IF ~Finite(x) \/ Size(x) >= UNIT * Pow2[SIGN] THEN floatFloat2Int(x) = tmin
         ELSE Fraction(x) = {} \/ Size(x) < UNIT
              => Signed(floatFloat2Int(x)) = (IF SIGN \in x THEN -1 ELSE 1) * (Size(x) \div UNIT)
      /\ LET f == floatPower2(n)
         IN  IF Finite(f) THEN IF f = {} THEN n < 1 - BIAS - FRAC
                               ELSE SIGN \notin f /\ n >= 1 - BIAS - FRAC /\ Size(f) = Pow2[n + BIAS - 1 + FRAC]
             ELSE f = Infinity /\ n > BIAS

BitsRight == IntegersRight /\ FloatsRight
=============================================================================
