------------------------------ MODULE WordProofs -------------------------------
(***************************************************************************)
(* The arithmetic of module Words, for words of any number of bytes and    *)
(* any limit to the exponent of wrapping_pow: what MCWords checks on words *)
(* of one and two bytes.                                                   *)
(***************************************************************************)
EXTENDS MCWords, OpcodeTable, WellFoundedInduction, TLAPS

Word == 0 .. Largest

-------------------------------------------------------------------------------
(* Quotients and remainders.                                                   *)

\* A nonempty set of natural numbers has a least element.
LEMMA Least ==
    ASSUME NEW T, T \subseteq Nat, T # {}
    PROVE  \E x \in T : \A y \in T : x <= y
<1> DEFINE R == OpToRel(<, Nat)
<1>1. IsWellFoundedOn(R, Nat)
  BY NatLessThanWellFounded
<1>2. \A x, y \in Nat : x < y => <<x, y>> \in R
  BY DEF OpToRel
<1> HIDE DEF R
<1>3. PICK x \in T : \A y \in T : ~(<<y, x>> \in R)
  BY <1>1, WFMin
<1>4. \A y \in T : x \in Nat /\ y \in Nat /\ ~(y < x)
  BY <1>2, <1>3
<1> QED
  BY <1>3, <1>4

\* A larger factor, a larger product.
LEMMA Products ==
    ASSUME NEW d \in Nat \ {0}, NEW p \in Int, NEW q \in Int, p < q
    PROVE  d * p + d <= d * q
<1> DEFINE r == q - p
<1>1. r \in Nat \ {0} /\ d * q = d * p + d * r
  OBVIOUS
<1> HIDE DEF r
<1>2. r - 1 \in Nat /\ d * r = d * (r - 1) + d
  BY <1>1
<1>3. d * (r - 1) \in Nat
  BY <1>2
<1>4. d * p \in Int /\ d * r \in Int /\ d * q \in Int
  BY <1>1
<1> QED
  BY <1>1, <1>2, <1>3, <1>4

\* What \div and % compute, also of negative numbers.
LEMMA Division ==
    ASSUME NEW a \in Int, NEW d \in Nat \ {0}
    PROVE  /\ a \div d \in Int /\ a % d \in 0 .. d - 1
           /\ a = d * (a \div d) + (a % d)
           /\ d * (a \div d) <= a /\ a < d * (a \div d) + d
           /\ a \in Nat => a \div d \in Nat
OBVIOUS

\* The same of natural numbers.
LEMMA DivisionNat ==
    ASSUME NEW x \in Nat, NEW d \in Nat \ {0}
    PROVE  /\ x \div d \in Nat /\ x % d \in 0 .. d - 1
           /\ x = d * (x \div d) + (x % d)
           /\ d * (x \div d) <= x /\ x < d * (x \div d) + d
<1>1. x \in Int
  OBVIOUS
<1> QED
  BY <1>1, Division

\* No other quotient and remainder do.
LEMMA Unique ==
    ASSUME NEW a \in Int, NEW d \in Nat \ {0}, NEW q \in Int, NEW r \in Int,
           0 <= r, r < d, a = d * q + r
    PROVE  a \div d = q /\ a % d = r
<1> DEFINE p == a \div d
           s == a % d
<1>1. p \in Int /\ s \in 0 .. d - 1 /\ a = d * p + s
  BY Division
<1> HIDE DEF p, s
<1>2. d * p \in Int /\ d * q \in Int
  BY <1>1
<1>3. ~(p < q)
  BY <1>1, <1>2, Products
<1>4. ~(q < p)
  BY <1>1, <1>2, Products
<1>5. p = q
  BY <1>1, <1>3, <1>4
<1>6. s = r
  BY <1>1, <1>2, <1>5
<1> QED
  BY <1>5, <1>6 DEF p, s

\* Multiples of the divisor do not matter.
LEMMA Shifted ==
    ASSUME NEW a \in Int, NEW d \in Nat \ {0}, NEW k \in Int
    PROVE  (a + d * k) % d = a % d /\ (a + d * k) \div d = a \div d + k
<1> DEFINE p == a \div d
           s == a % d
<1>1. p \in Int /\ s \in Int /\ 0 <= s /\ s < d /\ a = d * p + s
  BY Division
<1> HIDE DEF p, s
<1>2. d * (p + k) = d * p + d * k /\ d * p \in Int /\ d * k \in Int
  BY <1>1
<1>3. a + d * k \in Int /\ a + d * k = d * (p + k) + s /\ p + k \in Int
  BY <1>1, <1>2
<1> QED
  BY <1>1, <1>3, Unique DEF p, s

\* A factor may be reduced before a product is.
LEMMA ReduceFactor ==
    ASSUME NEW x \in Int, NEW y \in Int, NEW d \in Nat \ {0}
    PROVE  ((x % d) * y) % d = (x * y) % d /\ (y * (x % d)) % d = (y * x) % d
<1> DEFINE p == x \div d
           s == x % d
<1>1. p \in Int /\ s \in Int /\ x = d * p + s
  BY Division
<1> HIDE DEF p, s
<1>2. x * y = s * y + d * (p * y)
  <2>1. (d * p + s) * y = (d * p) * y + s * y /\ (d * p) * y = d * (p * y)
    BY <1>1
  <2> QED
    BY <1>1, <2>1
<1>3. s * y \in Int /\ p * y \in Int
  BY <1>1
<1>4. (x * y) % d = (s * y) % d
  <2> DEFINE a == s * y
             k == p * y
  <2>1. a \in Int /\ k \in Int /\ x * y = a + d * k
    BY <1>2, <1>3
  <2> HIDE DEF a, k
  <2>2. (a + d * k) % d = a % d
    BY <2>1, Shifted
  <2> QED
    BY <2>1, <2>2 DEF a
<1>5. y * x = x * y /\ y * s = s * y
  BY <1>1
<1> QED
  BY <1>4, <1>5 DEF s

\* A term may be reduced before a sum is.
LEMMA ReduceTerms ==
    ASSUME NEW x \in Int, NEW y \in Int, NEW d \in Nat \ {0}
    PROVE  ((x % d) + (y % d)) % d = (x + y) % d
<1> DEFINE p == x \div d
           s == x % d
           q == y \div d
           t == y % d
<1>1. p \in Int /\ s \in Int /\ x = d * p + s
  BY Division
<1>2. q \in Int /\ t \in Int /\ y = d * q + t
  BY Division
<1> HIDE DEF p, q, s, t
<1>3. x + y = (s + t) + d * (p + q)
  BY <1>1, <1>2
<1> DEFINE a == s + t
           k == p + q
<1>4. a \in Int /\ k \in Int /\ x + y = a + d * k
  BY <1>1, <1>2, <1>3
<1> HIDE DEF a, k
<1>5. (a + d * k) % d = a % d
  BY <1>4, Shifted
<1> QED
  BY <1>4, <1>5 DEF a, s, t

\* A number below the modulus is its own remainder.
LEMMA Small ==
    ASSUME NEW a \in Nat, NEW d \in Nat \ {0}, a < d
    PROVE  a % d = a /\ a \div d = 0
OBVIOUS

-------------------------------------------------------------------------------
(* Powers of two.                                                              *)

LEMMA BitsFacts == Bits \in Nat /\ Bits >= 8 /\ WordBytes \in Nat \ {0} /\ Bits = 8 * WordBytes
BY WordsAssumption DEF Bits

\* Each power is twice the one before ...
LEMMA PowStep ==
    ASSUME NEW i \in 1 .. Bits
    PROVE  2^i = 2 * 2^(i - 1)
<1>1. i - 1 \in 0 .. Bits - 1 /\ (i - 1) + 1 = i
  BY BitsFacts
<1> QED
  BY <1>1, PowersAssumption

\* ... and positive.
LEMMA PowTwo == \A i \in 0 .. Bits : 2^i \in Nat \ {0}
<1> DEFINE T == {i \in 0 .. Bits : 2^i \notin Nat \ {0}}
<1>1. SUFFICES ASSUME T # {}
               PROVE  FALSE
  OBVIOUS
<1>2. T \subseteq Nat
  BY BitsFacts
<1>3. PICK x \in T : \A y \in T : x <= y
  BY <1>1, <1>2, Least
<1>4. x \in 0 .. Bits /\ 2^x \notin Nat \ {0}
  OBVIOUS
<1>5. x # 0
  <2>1. 2^0 \in Nat \ {0}
    BY PowersAssumption
  <2> QED
    BY <1>4, <2>1
<1>6. x \in 1 .. Bits /\ x - 1 \in 0 .. Bits /\ x - 1 \notin T
  BY <1>3, <1>4, <1>5, BitsFacts
<1>7. 2^(x - 1) \in Nat \ {0}
  BY <1>6
<1>8. 2^x = 2 * 2^(x - 1)
  BY <1>6, PowStep
<1> HIDE DEF T
<1> QED
  BY <1>4, <1>7, <1>8

\* Exponents add up.
LEMMA PowSum ==
    ASSUME NEW i \in Nat, NEW j \in Nat, i + j <= Bits
    PROVE  2^(i + j) = 2^i * 2^j
<1> DEFINE T == {k \in 0 .. j : 2^(i + k) # 2^i * 2^k}
<1>1. SUFFICES ASSUME T # {}
               PROVE  FALSE
  OBVIOUS
<1>2. T \subseteq Nat
  OBVIOUS
<1>3. PICK x \in T : \A y \in T : x <= y
  BY <1>1, <1>2, Least
<1>4. x \in 0 .. j /\ 2^(i + x) # 2^i * 2^x
  OBVIOUS
<1>5. \A k \in 0 .. Bits : 2^k \in Nat
  BY PowTwo
<1>6. x # 0
  <2>1. 2^i \in Nat
    BY <1>5, BitsFacts
  <2>2. i + 0 = i /\ 2^i * 2^0 = 2^i
    BY <2>1, PowersAssumption
  <2> QED
    BY <1>4, <2>2
<1>7. x - 1 \in 0 .. j /\ x - 1 \notin T
  BY <1>3, <1>4, <1>6
<1>8. 2^(i + (x - 1)) = 2^i * 2^(x - 1)
  BY <1>7
<1> HIDE DEF T
<1>9. x \in 1 .. Bits /\ i + x \in 1 .. Bits /\ i \in 0 .. Bits /\ x - 1 \in 0 .. Bits
  BY <1>4, <1>6, BitsFacts
<1>10. 2^x = 2 * 2^(x - 1)
  BY <1>9, PowStep
<1>11. 2^(i + x) = 2 * 2^(i + (x - 1))
  <2>1. (i + x) - 1 = i + (x - 1)
    BY <1>9
  <2>2. 2^(i + x) = 2 * 2^((i + x) - 1)
    BY <1>9, PowStep
  <2> QED
    BY <2>1, <2>2
<1> DEFINE u == 2^i
           v == 2^(x - 1)
<1>12. u \in Nat /\ v \in Nat
  BY <1>5, <1>9
<1>13. 2^(i + x) = 2 * (u * v) /\ 2^x = 2 * v
  BY <1>8, <1>10, <1>11
<1>14. 2^(i + x) # u * 2^x
  BY <1>4
<1> HIDE DEF u, v
<1>15. 2 * (u * v) = u * (2 * v)
  BY <1>12
<1> QED
  BY <1>13, <1>14, <1>15

\* They grow.
LEMMA PowGrows ==
    ASSUME NEW i \in Nat, NEW j \in Nat, i <= j, j <= Bits
    PROVE  2^i <= 2^j /\ (i < j => 2 * 2^i <= 2^j)
<1>1. \A k \in 0 .. Bits : 2^k \in Nat \ {0}
  BY PowTwo
<1>2. j - i \in Nat /\ i + (j - i) = j
  OBVIOUS
<1>3. 2^j = 2^i * 2^(j - i)
  BY <1>2, PowSum
<1>4. i \in 0 .. Bits /\ j - i \in 0 .. Bits
  BY <1>2, BitsFacts
<1> DEFINE u == 2^i
           v == 2^(j - i)
<1>5. u \in Nat \ {0} /\ v \in Nat \ {0} /\ 2^j = u * v
  BY <1>1, <1>3, <1>4
<1>6. i < j => v >= 2
  <2>1. SUFFICES ASSUME i < j
                 PROVE  v >= 2
    OBVIOUS
  <2>2. j - i \in 1 .. Bits /\ (j - i) - 1 \in 0 .. Bits
    BY <2>1, BitsFacts
  <2>3. v = 2 * 2^((j - i) - 1) /\ 2^((j - i) - 1) \in Nat \ {0}
    BY <2>2, <1>1, PowStep
  <2> HIDE DEF v
  <2> QED
    BY <2>3
<1> HIDE DEF u, v
<1>7. u * 1 <= u * v
  BY <1>5
<1>8. v >= 2 => u * 2 <= u * v
  BY <1>5
<1> QED
  BY <1>5, <1>6, <1>7, <1>8 DEF u

\* The modulus of words and the least negative word.
LEMMA ModulusFacts ==
    /\ Half \in Nat /\ Half >= 128 /\ Modulus = 2 * Half /\ Modulus \in Nat \ {0}
    /\ Largest = Modulus - 1 /\ Word = 0 .. Modulus - 1
<1>1. Bits - 1 \in 0 .. Bits - 1 /\ (Bits - 1) + 1 = Bits
  BY BitsFacts
<1>2. Modulus = 2 * Half /\ Half \in Nat \ {0}
  BY <1>1, PowersAssumption, PowTwo, BitsFacts DEF Modulus, Half
<1>3. 2^7 = 128
  <2>1. \A i \in 0 .. 6 : 2^(i + 1) = 2 * 2^i
    BY PowersAssumption, BitsFacts
  <2>2. 2^1 = 2 * 2^0 /\ 2^2 = 2 * 2^1 /\ 2^3 = 2 * 2^2 /\ 2^4 = 2 * 2^3
    BY <2>1
  <2>3. 2^5 = 2 * 2^4 /\ 2^6 = 2 * 2^5 /\ 2^7 = 2 * 2^6
    BY <2>1
  <2> QED
    BY <2>2, <2>3, PowersAssumption
<1>4. 2^7 <= Half
  <2>1. 7 \in Nat /\ Bits - 1 \in Nat /\ 7 <= Bits - 1 /\ Bits - 1 <= Bits
    BY BitsFacts
  <2> QED
    BY <2>1, PowGrows DEF Half
<1> QED
  BY <1>2, <1>3, <1>4 DEF Largest, Word

-------------------------------------------------------------------------------
(* Signed words.                                                               *)

\* A word, its magnitude and its sign.
LEMMA SignedFacts ==
    ASSUME NEW a \in Word
    PROVE  /\ Abs(a) \in 0 .. Half /\ (Abs(a) = 0 <=> a = 0)
           /\ Signed(a) = IF IsNeg(a) THEN -Abs(a) ELSE Abs(a)
           /\ IsNeg(a) => Abs(a) > 0
           /\ ~IsNeg(a) => Abs(a) < Half
           /\ Signed(a) \in -Half .. Half - 1
<1>1. Half \in Nat /\ Modulus = 2 * Half /\ a \in 0 .. Modulus - 1 /\ Modulus \in Nat \ {0}
  BY ModulusFacts
<1>2. CASE IsNeg(a)
  <2>1. a >= Half
    BY <1>2 DEF IsNeg
  <2>2. Modulus - a \in Nat /\ Modulus - a < Modulus
    BY <1>1, <2>1, ModulusFacts
  <2>3. Abs(a) = Modulus - a
    BY <1>1, <1>2, <2>2, Small DEF Abs, Neg
  <2>4. Signed(a) = a - Modulus
    BY <1>1, <2>1 DEF Signed
  <2> QED
    BY <1>1, <1>2, <2>1, <2>3, <2>4, ModulusFacts
<1>3. CASE ~IsNeg(a)
  <2>1. a < Half
    BY <1>1, <1>3 DEF IsNeg
  <2>2. Abs(a) = a /\ Signed(a) = a
    BY <1>3, <2>1 DEF Abs, Signed
  <2> QED
    BY <1>1, <1>3, <2>1, <2>2
<1> QED
  BY <1>2, <1>3

\* The word that a magnitude and a sign make, and how it reads.
LEMMA NegFacts ==
    ASSUME NEW q \in 0 .. Half
    PROVE  /\ q \in Word /\ Neg(q) \in Word
           /\ Signed(Neg(q)) = -q
           /\ q < Half => Signed(q) = q
           /\ q = Half => Signed(q) = -q
<1>1. Half \in Nat /\ Half >= 128 /\ Modulus = 2 * Half /\ Modulus \in Nat \ {0}
  BY ModulusFacts
<1>2. q \in Word
  BY <1>1, ModulusFacts
<1>3. /\ q < Half => Signed(q) = q
      /\ q = Half => Signed(q) = -q
  BY <1>1 DEF Signed
<1>4. CASE q = 0
  <2>1. Modulus - q = Modulus * 1 + 0
    BY <1>1, <1>4
  <2>2. Modulus - q \in Int
    BY <1>1
  <2>3. Neg(q) = 0
    BY <1>1, <2>1, <2>2, Unique DEF Neg
  <2> QED
    BY <1>1, <1>2, <1>3, <1>4, <2>3
<1>5. CASE q # 0
  <2>1. Modulus - q \in Nat /\ Modulus - q < Modulus
    BY <1>1, <1>5
  <2>2. Neg(q) = Modulus - q
    BY <1>1, <2>1, Small DEF Neg
  <2>3. Neg(q) \in Word /\ ~(Neg(q) < Half)
    BY <1>1, <1>5, <2>2, ModulusFacts
  <2>4. Signed(Neg(q)) = Neg(q) - Modulus
    BY <2>3 DEF Signed
  <2> QED
    BY <1>1, <1>2, <1>3, <2>2, <2>3, <2>4
<1> QED
  BY <1>4, <1>5

\* The quotient and the remainder of the magnitudes.
LEMMA MagnitudesDivided ==
    ASSUME NEW m \in 0 .. Half, NEW n \in 1 .. Half
    PROVE  /\ m \div n \in 0 .. Half /\ m % n \in 0 .. n - 1 /\ m % n < Half
           /\ m = n * (m \div n) + (m % n)
           /\ m \div n = Half => m = Half /\ n = 1
<1>1. Half \in Nat
  BY ModulusFacts
<1> DEFINE q == m \div n
           r == m % n
<1>2. q \in Nat /\ r \in 0 .. n - 1 /\ m = n * q + r
  <2>1. m \in Int /\ m \in Nat /\ n \in Nat \ {0}
    BY <1>1
  <2> QED
    BY <2>1, Division
<1> HIDE DEF q, r
<1>3. n - 1 \in Nat /\ n * q = (n - 1) * q + q
  BY <1>1, <1>2
<1>4. (n - 1) * q \in Nat
  BY <1>2, <1>3
<1>5. q <= m
  BY <1>1, <1>2, <1>3, <1>4
<1>6. q = Half => m = Half /\ n = 1
  <2>1. SUFFICES ASSUME q = Half
                 PROVE  m = Half /\ n = 1
    OBVIOUS
  <2>2. m = Half /\ (n - 1) * q = 0
    BY <1>1, <1>2, <1>3, <1>4, <2>1
  <2>3. q \in Nat \ {0}
    BY <2>1, ModulusFacts
  <2>4. n - 1 = 0
    BY <1>3, <2>2, <2>3
  <2> QED
    BY <1>1, <2>2, <2>4
<1> QED
  BY <1>1, <1>2, <1>5, <1>6 DEF q, r

\* What SDIV and SMOD compute, read as signed numbers.
LEMMA SignedQuotient ==
    ASSUME NEW a \in Word, NEW b \in Word, b # 0
    PROVE  LET q == Signed(SignedDiv(a, b))
               r == Signed(SignedRem(a, b))
           IN  /\ SignedDiv(a, b) \in Word /\ SignedRem(a, b) \in Word
               /\ Magnitude(r) < Magnitude(Signed(b))
               /\ r # 0 => (r < 0) = (Signed(a) < 0)
               /\ IF Signed(a) = -Half /\ Signed(b) = -1 THEN q = Signed(a)
                  ELSE q * Signed(b) + r = Signed(a)
<1> DEFINE A == Abs(a)
           B == Abs(b)
           Q == A \div B
           R == A % B
           q == Signed(SignedDiv(a, b))
           r == Signed(SignedRem(a, b))
<1>1. /\ A \in 0 .. Half /\ Signed(a) = (IF IsNeg(a) THEN -A ELSE A)
      /\ IsNeg(a) => A > 0
      /\ ~IsNeg(a) => A < Half
  BY SignedFacts
<1>2. /\ B \in 1 .. Half /\ Signed(b) = (IF IsNeg(b) THEN -B ELSE B)
      /\ ~IsNeg(b) => B < Half
  <2>1. /\ B \in 0 .. Half /\ Signed(b) = (IF IsNeg(b) THEN -B ELSE B)
        /\ ~IsNeg(b) => B < Half
        /\ B # 0
    BY SignedFacts
  <2> QED
    BY <2>1, ModulusFacts
<1>3. /\ Q \in 0 .. Half /\ R \in 0 .. B - 1 /\ R < Half /\ A = B * Q + R
      /\ Q = Half => A = Half /\ B = 1
  BY <1>1, <1>2, MagnitudesDivided
<1>4. Half \in Nat /\ Half >= 128
  BY ModulusFacts
<1>5. R \in 0 .. Half
  BY <1>2, <1>3, <1>4
<1>6. /\ SignedDiv(a, b) = IF IsNeg(a) # IsNeg(b) THEN Neg(Q) ELSE Q
      /\ SignedRem(a, b) = IF IsNeg(a) THEN Neg(R) ELSE R
  BY DEF SignedDiv, SignedRem
<1>7. /\ Q \in Word /\ Neg(Q) \in Word /\ Signed(Neg(Q)) = -Q
      /\ Q < Half => Signed(Q) = Q
      /\ Q = Half => Signed(Q) = -Q
  BY <1>3, NegFacts
<1>8. R \in Word /\ Neg(R) \in Word /\ Signed(Neg(R)) = -R /\ Signed(R) = R
  BY <1>3, <1>5, NegFacts
<1>9. r = IF IsNeg(a) THEN -R ELSE R
  BY <1>6, <1>8
<1> HIDE DEF A, B, Q, R, r
<1>10. Magnitude(r) = R /\ Magnitude(Signed(b)) = B /\ R < B
  BY <1>2, <1>3, <1>4, <1>9 DEF Magnitude
<1>11. r # 0 => (r < 0) = (Signed(a) < 0)
  BY <1>1, <1>3, <1>4, <1>9
<1>12. CASE Signed(a) = -Half /\ Signed(b) = -1
  <2>1. IsNeg(a) /\ IsNeg(b) /\ A = Half /\ B = 1
    BY <1>1, <1>2, <1>4, <1>12
  <2>2. Q = Half
    BY <1>3, <1>4, <2>1
  <2>3. q = -Half
    BY <1>6, <1>7, <2>1, <2>2
  <2> QED
    BY <1>6, <1>7, <1>8, <1>10, <1>11, <1>12, <2>3 DEF r
<1>13. CASE ~(Signed(a) = -Half /\ Signed(b) = -1)
  <2>1. IsNeg(a) = IsNeg(b) => Q < Half
    <3>1. SUFFICES ASSUME IsNeg(a) = IsNeg(b), Q = Half
                   PROVE  FALSE
      BY <1>3, <1>4
    <3>2. A = Half /\ B = 1
      BY <1>3, <3>1
    <3>3. IsNeg(a) /\ IsNeg(b)
      BY <1>1, <1>4, <3>1, <3>2
    <3> QED
      BY <1>1, <1>2, <1>13, <3>2, <3>3
  <2>2. q = IF IsNeg(a) # IsNeg(b) THEN -Q ELSE Q
    BY <1>6, <1>7, <2>1
  <2> HIDE DEF q
  <2>3. /\ B * Q \in Int /\ Q * B = B * Q /\ (-Q) * (-B) = B * Q
        /\ (-Q) * B = -(B * Q) /\ Q * (-B) = -(B * Q)
    BY <1>2, <1>3, <1>4
  <2>4. q * Signed(b) = IF IsNeg(a) THEN -(B * Q) ELSE B * Q
    <3>1. CASE IsNeg(a) /\ IsNeg(b)
      <4>1. q = Q /\ Signed(b) = -B
        BY <1>2, <2>2, <3>1
      <4> QED
        BY <2>3, <3>1, <4>1
    <3>2. CASE IsNeg(a) /\ ~IsNeg(b)
      <4>1. q = -Q /\ Signed(b) = B
        BY <1>2, <2>2, <3>2
      <4> QED
        BY <2>3, <3>2, <4>1
    <3>3. CASE ~IsNeg(a) /\ IsNeg(b)
      <4>1. q = -Q /\ Signed(b) = -B
        BY <1>2, <2>2, <3>3
      <4> QED
        BY <2>3, <3>3, <4>1
    <3>4. CASE ~IsNeg(a) /\ ~IsNeg(b)
      <4>1. IsNeg(a) \in BOOLEAN /\ IsNeg(b) \in BOOLEAN
        BY DEF IsNeg
      <4>2. q = Q /\ Signed(b) = B
        BY <1>2, <2>2, <3>4, <4>1
      <4> QED
        BY <2>3, <3>4, <4>2
    <3> QED
      BY <3>1, <3>2, <3>3, <3>4
  <2>5. q * Signed(b) + r = Signed(a)
    BY <1>1, <1>3, <1>4, <1>9, <2>3, <2>4
  <2> QED
    BY <1>6, <1>7, <1>8, <1>10, <1>11, <1>13, <2>5 DEF q, r
<1> QED
  BY <1>12, <1>13

\* What SLT and SGT compare.
LEMMA SignedCompared ==
    ASSUME NEW a \in Word, NEW b \in Word
    PROVE  /\ SignedLess(a, b) <=> Signed(a) < Signed(b)
           /\ a = b <=> Signed(a) = Signed(b)
<1>1. /\ Half \in Nat /\ Modulus = 2 * Half
      /\ a \in 0 .. Modulus - 1 /\ b \in 0 .. Modulus - 1
  BY ModulusFacts
<1> QED
  BY <1>1 DEF SignedLess, Signed, IsNeg

-------------------------------------------------------------------------------
(* Modular arithmetic.                                                         *)

\* What ADDMOD and MULMOD compute, while what they reduce fits in a word.
LEMMA ModularExact ==
    ASSUME NEW a \in Word, NEW b \in Word, NEW n \in Word, n # 0
    PROVE  /\ AddMod(a, b, n) \in Word /\ MulMod(a, b, n) \in Word
           /\ (a % n) + (b % n) < Modulus => AddMod(a, b, n) = (a + b) % n
           /\ (a % n) * (b % n) < Modulus => MulMod(a, b, n) = (a * b) % n
<1> DEFINE r == a % n
           s == b % n
<1>1. a \in Int /\ b \in Int /\ n \in Nat \ {0} /\ n \in Int /\ n < Modulus /\ Modulus \in Nat \ {0}
  BY ModulusFacts
<1>2. r \in 0 .. n - 1 /\ s \in 0 .. n - 1
  BY <1>1, Division
<1>3. (r + s) % n = (a + b) % n
  BY <1>1, ReduceTerms
<1>4. (r * s) % n = (a * b) % n
  <2>1. ASSUME NEW x \in Int
        PROVE  ((a % n) * x) % n = (a * x) % n /\ (a * (b % n)) % n = (a * b) % n
    BY <1>1, ReduceFactor
  <2>2. s \in Int /\ a % n = r /\ b % n = s
    BY <1>1, <1>2
  <2> HIDE DEF r, s
  <2>3. (r * s) % n = (a * s) % n /\ (a * s) % n = (a * b) % n
    BY <2>1, <2>2
  <2> QED
    BY <2>3
<1> HIDE DEF r, s
<1>5. r + s \in Nat /\ r * s \in Nat
  BY <1>1, <1>2
<1> DEFINE sum == r + s
           product == r * s
<1>6. sum \in Nat /\ product \in Nat
  BY <1>5
<1>7. AddMod(a, b, n) = (sum % Modulus) % n /\ MulMod(a, b, n) = (product % Modulus) % n
  BY DEF AddMod, MulMod, r, s
<1>8. sum % n = (a + b) % n /\ product % n = (a * b) % n
  BY <1>3, <1>4
<1> HIDE DEF sum, product
<1>9. sum % Modulus \in Nat /\ product % Modulus \in Nat
  BY <1>1, <1>6
<1> DEFINE x == sum % Modulus
           y == product % Modulus
<1>10. x % n \in Word /\ y % n \in Word
  <2>1. x \in Nat /\ y \in Nat
    BY <1>9
  <2> HIDE DEF x, y
  <2>2. x % n \in 0 .. n - 1 /\ y % n \in 0 .. n - 1
    BY <1>1, <2>1
  <2> QED
    BY <1>1, <2>2, ModulusFacts
<1>11. (sum < Modulus => x = sum) /\ (product < Modulus => y = product)
  BY <1>1, <1>6, Small
<1> HIDE DEF x, y
<1>12. AddMod(a, b, n) = x % n /\ MulMod(a, b, n) = y % n
  BY <1>7 DEF x, y
<1> QED
  BY <1>8, <1>10, <1>11, <1>12 DEF sum, product, r, s

-------------------------------------------------------------------------------
(* Bits.                                                                       *)

\* One division after another is one by the product ...
LEMMA NestedDivision ==
    ASSUME NEW x \in Nat, NEW c \in Nat \ {0}, NEW d \in Nat \ {0}
    PROVE  (x \div c) \div d = x \div (c * d)
<1> DEFINE p == x \div c
           r == x % c
           q == p \div d
           t == p % d
<1>1. p \in Nat /\ r \in 0 .. c - 1 /\ x = c * p + r
  BY DivisionNat
<1> HIDE DEF p, r
<1>2. q \in Nat /\ t \in 0 .. d - 1 /\ p = d * q + t
  BY <1>1, DivisionNat
<1> HIDE DEF q, t
<1>3. x = (c * d) * q + (c * t + r)
  <2>1. c * (d * q + t) = (c * d) * q + c * t
    BY <1>2
  <2> QED
    BY <1>1, <1>2, <2>1
<1>4. c * t + c <= c * d
  BY <1>2, Products
<1> DEFINE e == c * d
           u == c * t + r
<1>5. e \in Nat \ {0} /\ u \in Nat /\ u < e
  <2>1. c * t \in Nat /\ c * d \in Nat
    BY <1>2
  <2> QED
    BY <1>1, <1>4, <2>1
<1>6. x = e * q + u
  BY <1>3
<1> HIDE DEF e, u
<1>7. x \div e = q
  BY <1>2, <1>5, <1>6, Unique
<1> QED
  BY <1>7 DEF e, q, p

\* ... and a common factor cancels.
LEMMA CommonFactor ==
    ASSUME NEW x \in Nat, NEW c \in Nat \ {0}, NEW d \in Nat \ {0}
    PROVE  (x * c) \div (c * d) = x \div d
<1> DEFINE q == x \div d
           t == x % d
<1>1. q \in Nat /\ t \in 0 .. d - 1 /\ x = d * q + t
  BY DivisionNat
<1> HIDE DEF q, t
<1>2. x * c = (c * d) * q + c * t
  BY <1>1
<1>3. c * t + c <= c * d
  BY <1>1, Products
<1> DEFINE e == c * d
           u == c * t
           y == x * c
<1>4. e \in Nat \ {0} /\ u \in Nat /\ u < e /\ y \in Nat
  <2>1. c * t \in Nat /\ c * d \in Nat /\ x * c \in Nat
    BY <1>1
  <2> QED
    BY <1>3, <2>1
<1>5. y = e * q + u
  BY <1>2
<1> HIDE DEF e, u, y
<1>6. y \div e = q
  BY <1>1, <1>4, <1>5, Unique
<1> QED
  BY <1>6 DEF e, y, q

\* A quotient is small when the dividend is, and large when it is.
LEMMA QuotientBounds ==
    ASSUME NEW x \in Nat, NEW c \in Nat \ {0}, NEW d \in Nat
    PROVE  /\ x < c * d => x \div c < d
           /\ c * d <= x => d <= x \div c
<1> DEFINE p == x \div c
<1>1. p \in Nat /\ c * p <= x /\ x < c * p + c
  BY DivisionNat
<1> HIDE DEF p
<1>2. c * p \in Nat /\ c * d \in Nat
  BY <1>1
<1>3. x < c * d => p < d
  <2>1. SUFFICES ASSUME x < c * d, ~(p < d)
                 PROVE  FALSE
    OBVIOUS
  <2>2. d = p \/ d < p
    BY <1>1, <2>1
  <2>3. d < p => c * d + c <= c * p
    BY <1>1, Products
  <2> QED
    BY <1>1, <1>2, <2>1, <2>2, <2>3
<1>4. c * d <= x => d <= p
  <2>1. SUFFICES ASSUME c * d <= x, p < d
                 PROVE  FALSE
    BY <1>1
  <2>2. c * p + c <= c * d
    BY <1>1, <2>1, Products
  <2> QED
    BY <1>1, <1>2, <2>1, <2>2
<1> QED
  BY <1>3, <1>4 DEF p

\* The powers on either side of a place in a word.
LEMMA Split ==
    ASSUME NEW s \in 0 .. Bits
    PROVE  /\ Bits - s \in 0 .. Bits /\ 2^s \in Nat \ {0} /\ 2^(Bits - s) \in Nat \ {0}
           /\ Modulus = 2^s * 2^(Bits - s)
<1>1. s \in Nat /\ Bits - s \in Nat /\ s + (Bits - s) = Bits /\ Bits - s \in 0 .. Bits
  BY BitsFacts
<1>2. 2^(s + (Bits - s)) = 2^s * 2^(Bits - s)
  BY <1>1, BitsFacts, PowSum
<1>3. 2^s \in Nat \ {0} /\ 2^(Bits - s) \in Nat \ {0}
  BY <1>1, PowTwo
<1> QED
  BY <1>1, <1>2, <1>3 DEF Modulus

\* A word shifted to the right.
LEMMA RightIsWord ==
    ASSUME NEW a \in Word, NEW s \in 0 .. Bits
    PROVE  ShiftRight(a, s) \in Word /\ ShiftRight(a, s) \in 0 .. 2^(Bits - s) - 1
<1>1. 2^s \in Nat \ {0} /\ 2^(Bits - s) \in Nat \ {0} /\ Modulus = 2^s * 2^(Bits - s)
  BY Split
<1>2. a \in Nat /\ a < Modulus
  BY ModulusFacts
<1> DEFINE c == 2^s
           d == 2^(Bits - s)
           q == a \div c
<1>3. c \in Nat \ {0} /\ d \in Nat \ {0} /\ a < c * d
  BY <1>1, <1>2
<1> HIDE DEF c, d
<1>4. q \in Nat /\ c * q <= a
  BY <1>2, <1>3, DivisionNat
<1>5. q < d
  BY <1>2, <1>3, QuotientBounds
<1> HIDE DEF q
<1>6. q <= c * q
  <2>1. c - 1 \in Nat /\ c * q = (c - 1) * q + q
    BY <1>3, <1>4
  <2>2. (c - 1) * q \in Nat
    BY <1>4, <2>1
  <2> QED
    BY <1>4, <2>1, <2>2
<1>7. c * q \in Nat
  BY <1>3, <1>4
<1>8. q \in 0 .. Modulus - 1
  BY <1>2, <1>4, <1>6, <1>7, ModulusFacts
<1> QED
  BY <1>3, <1>4, <1>5, <1>8, ModulusFacts DEF ShiftRight, q, c, d

\* The bits of a word shifted to the right.
LEMMA RightBits ==
    ASSUME NEW a \in Word, NEW s \in 0 .. Bits - 1
    PROVE  BitsOf(ShiftRight(a, s)) = {i - s : i \in BitsOf(a)} \cap Nat
<1> DEFINE z == ShiftRight(a, s)
<1>1. Bits \in Nat /\ s \in 0 .. Bits /\ a \in Nat
  BY BitsFacts, ModulusFacts
<1>2. z \in Nat /\ z < 2^(Bits - s)
  <2>1. 2^(Bits - s) \in Nat
    BY <1>1, Split
  <2> QED
    BY <1>1, <2>1, RightIsWord
<1>3. ASSUME NEW j \in Nat, j + s < Bits
      PROVE  z \div 2^j = a \div 2^(j + s)
  <2>1. 2^(s + j) = 2^s * 2^j /\ s + j = j + s
    BY <1>1, <1>3, PowSum
  <2>2. 2^s \in Nat \ {0} /\ 2^j \in Nat \ {0}
    BY <1>1, <1>3, PowTwo
  <2> DEFINE c == 2^s
             d == 2^j
  <2>3. c \in Nat \ {0} /\ d \in Nat \ {0}
    BY <2>2
  <2> HIDE DEF c, d
  <2>4. (a \div c) \div d = a \div (c * d)
    BY <1>1, <2>3, NestedDivision
  <2> QED
    BY <2>1, <2>4 DEF c, d, ShiftRight
<1>4. ASSUME NEW j \in 0 .. Bits - 1, ~(j + s < Bits)
      PROVE  z \div 2^j = 0
  <2>1. 2^(Bits - s) <= 2^j
    <3>1. Bits - s \in Nat /\ j \in Nat /\ Bits - s <= j /\ j <= Bits
      BY <1>1, <1>4
    <3> QED
      BY <3>1, PowGrows
  <2>2. 2^j \in Nat \ {0} /\ 2^(Bits - s) \in Nat
    BY <1>1, <1>4, PowTwo, Split
  <2> DEFINE d == 2^j
  <2>3. z < d /\ d \in Nat \ {0}
    BY <1>2, <2>1, <2>2
  <2> HIDE DEF d, z
  <2>4. z \div d = 0
    BY <1>2, <2>3, Small
  <2> QED
    BY <2>4 DEF d
<1> HIDE DEF z
<1>5. ASSUME NEW j \in BitsOf(z)
      PROVE  j + s \in BitsOf(a) /\ j \in Nat /\ j = (j + s) - s
  <2>1. j \in 0 .. Bits - 1 /\ (z \div 2^j) % 2 = 1
    BY <1>5 DEF BitsOf
  <2>2. j + s < Bits
    <3>1. SUFFICES ASSUME ~(j + s < Bits)
                   PROVE  FALSE
      OBVIOUS
    <3>2. z \div 2^j = 0
      BY <1>4, <2>1, <3>1
    <3> QED
      BY <2>1, <3>2
  <2>3. z \div 2^j = a \div 2^(j + s)
    BY <1>3, <2>1, <2>2
  <2>4. j + s \in 0 .. Bits - 1 /\ j \in Nat /\ j = (j + s) - s
    BY <1>1, <2>1, <2>2
  <2>5. (a \div 2^(j + s)) % 2 = 1
    BY <2>1, <2>3
  <2>6. j + s \in BitsOf(a)
    BY <2>4, <2>5 DEF BitsOf
  <2> QED
    BY <2>4, <2>6
<1>6. ASSUME NEW i \in BitsOf(a), i - s \in Nat
      PROVE  i - s \in BitsOf(z)
  <2>1. i \in 0 .. Bits - 1 /\ (a \div 2^i) % 2 = 1
    BY <1>6 DEF BitsOf
  <2>2. (i - s) + s = i /\ i - s \in 0 .. Bits - 1
    BY <1>1, <1>6, <2>1
  <2>3. z \div 2^(i - s) = a \div 2^i
    <3>1. (i - s) + s < Bits
      BY <1>1, <2>1, <2>2
    <3>2. z \div 2^(i - s) = a \div 2^((i - s) + s)
      BY <1>3, <1>6, <3>1
    <3> QED
      BY <2>2, <3>2
  <2> QED
    BY <2>1, <2>2, <2>3 DEF BitsOf
<1>7. BitsOf(z) \subseteq {i - s : i \in BitsOf(a)} \cap Nat
  BY <1>5
<1>8. {i - s : i \in BitsOf(a)} \cap Nat \subseteq BitsOf(z)
  BY <1>6
<1> QED
  BY <1>7, <1>8 DEF z

\* An even multiple of a power of two does not change the bit of this power.
LEMMA Parity ==
    ASSUME NEW x \in Int, NEW d \in Nat \ {0}, NEW k \in Int
    PROVE  ((x + d * (2 * k)) \div d) % 2 = (x \div d) % 2
<1> DEFINE e == 2 * k
           p == x \div d
<1>1. e \in Int /\ p \in Int
  BY Division
<1>2. (x + d * e) \div d = p + e
  <2> HIDE DEF e
  <2> QED
    BY <1>1, Shifted
<1> HIDE DEF p
<1>3. (p + e) % 2 = p % 2
  BY <1>1
<1> QED
  BY <1>2, <1>3 DEF e, p

\* A word shifted to the left.
LEMMA LeftIsWord ==
    ASSUME NEW a \in Word, NEW s \in 0 .. Bits
    PROVE  ShiftLeft(a, s) \in Word
<1> DEFINE c == 2^s
           d == 2^(Bits - s)
           m == a % d
<1>1. c \in Nat \ {0} /\ d \in Nat \ {0} /\ Modulus = c * d /\ a \in Nat
  BY Split, ModulusFacts
<1> HIDE DEF c, d
<1>2. m \in 0 .. d - 1
  BY <1>1, DivisionNat
<1>3. ShiftLeft(a, s) = m * c
  BY DEF ShiftLeft, m, c, d
<1> HIDE DEF m
<1>4. c * m + c <= c * d
  BY <1>1, <1>2, Products
<1>5. m * c \in Nat /\ m * c = c * m /\ c * d \in Nat
  BY <1>1, <1>2
<1>6. m * c \in 0 .. Modulus - 1
  BY <1>1, <1>4, <1>5
<1> QED
  BY <1>3, <1>6, ModulusFacts

\* The bits of a word shifted to the left: below the shift, all are zero ...
LEMMA LeftLowBits ==
    ASSUME NEW a \in Word, NEW s \in 0 .. Bits - 1, NEW j \in 0 .. s - 1
    PROVE  (ShiftLeft(a, s) \div 2^j) % 2 = 0
<1> DEFINE m == a % 2^(Bits - s)
           d == 2^j
           u == 2^((s - j) - 1)
<1>1. s \in Nat /\ j \in Nat /\ s \in 0 .. Bits /\ (s - j) - 1 \in 0 .. Bits /\ s - j \in 1 .. Bits
  BY BitsFacts
<1>2. a \in Nat /\ 2^(Bits - s) \in Nat \ {0}
  BY <1>1, Split, ModulusFacts
<1>3. m \in Nat
  <2> DEFINE h == 2^(Bits - s)
  <2>1. h \in Nat \ {0}
    BY <1>2
  <2> HIDE DEF h
  <2>2. a % h \in Nat
    BY <1>2, <2>1, DivisionNat
  <2> QED
    BY <2>2 DEF h
<1>4. d \in Nat \ {0} /\ u \in Nat
  BY <1>1, PowTwo, BitsFacts
<1>5. 2^s = d * (2 * u)
  <2>1. j + (s - j) = s /\ s - j \in Nat /\ s <= Bits
    BY <1>1
  <2>2. 2^(j + (s - j)) = 2^j * 2^(s - j)
    BY <1>1, <2>1, PowSum
  <2>3. 2^(s - j) = 2 * u
    BY <1>1, PowStep
  <2> QED
    BY <2>1, <2>2, <2>3
<1>6. ShiftLeft(a, s) = m * (d * (2 * u))
  BY <1>5 DEF ShiftLeft
<1> HIDE DEF m, d, u
<1>7. m * (d * (2 * u)) = d * (2 * (u * m))
  BY <1>3, <1>4
<1> DEFINE k == u * m
<1>8. k \in Int /\ ShiftLeft(a, s) = 0 + d * (2 * k)
  BY <1>3, <1>4, <1>6, <1>7
<1> HIDE DEF k
<1>9. ((0 + d * (2 * k)) \div d) % 2 = (0 \div d) % 2
  <2>1. 0 \in Int
    OBVIOUS
  <2> QED
    BY <1>4, <1>8, <2>1, Parity
<1>10. 0 \div d = 0
  BY <1>4
<1>11. (ShiftLeft(a, s) \div d) % 2 = 0
  BY <1>8, <1>9, <1>10
<1> QED
  BY <1>11 DEF d

\* ... and the others are those of the word.
LEMMA LeftHighBits ==
    ASSUME NEW a \in Word, NEW s \in 0 .. Bits - 1, NEW i \in 0 .. Bits - 1, i + s < Bits
    PROVE  (ShiftLeft(a, s) \div 2^(i + s)) % 2 = (a \div 2^i) % 2
<1> DEFINE h == 2^(Bits - s)
           p == a \div h
           m == a % h
           c == 2^s
           d == 2^i
           u == 2^(((Bits - s) - i) - 1)
<1>1. /\ s \in Nat /\ i \in Nat /\ s \in 0 .. Bits /\ Bits - s \in Nat
      /\ (Bits - s) - i \in 1 .. Bits /\ ((Bits - s) - i) - 1 \in 0 .. Bits
      /\ i \in 0 .. Bits /\ s + i = i + s /\ s + i <= Bits /\ Bits - s <= Bits
      /\ i + ((Bits - s) - i) = Bits - s /\ (Bits - s) - i \in Nat
  BY BitsFacts
<1>2. h \in Nat \ {0} /\ c \in Nat \ {0} /\ d \in Nat \ {0} /\ u \in Nat /\ a \in Nat
  <2>1. h \in Nat \ {0} /\ c \in Nat \ {0}
    BY <1>1, Split
  <2>2. d \in Nat \ {0} /\ u \in Nat
    BY <1>1, PowTwo
  <2> QED
    BY <2>1, <2>2, ModulusFacts
<1>3. h = d * (2 * u)
  <2>1. i + ((Bits - s) - i) = Bits - s
    BY <1>1
  <2>2. 2^(i + ((Bits - s) - i)) = 2^i * 2^((Bits - s) - i)
    BY <1>1, <2>1, PowSum
  <2>3. 2^((Bits - s) - i) = 2 * u
    BY <1>1, PowStep
  <2> QED
    BY <2>1, <2>2, <2>3
<1>4. 2^(i + s) = c * d
  <2>1. 2^(s + i) = 2^s * 2^i /\ s + i = i + s
    BY <1>1, PowSum
  <2> QED
    BY <2>1
<1>5. ShiftLeft(a, s) = m * c
  BY DEF ShiftLeft
<1> HIDE DEF h, c, d, u
<1>6. p \in Nat /\ m \in Nat /\ a = h * p + m
  <2>1. a \in Nat /\ h \in Nat \ {0}
    BY <1>2
  <2>2. p \in Nat /\ a = h * p + m /\ m \in 0 .. h - 1
    BY <2>1, DivisionNat
  <2> HIDE DEF p, m
  <2> QED
    BY <2>1, <2>2
<1> HIDE DEF p, m
<1>7. (m * c) \div (c * d) = m \div d
  BY <1>2, <1>6, CommonFactor
<1>8. (a \div d) % 2 = (m \div d) % 2
  <2> DEFINE k == u * p
  <2>1. (d * (2 * u)) * p = d * (2 * (u * p))
    BY <1>2, <1>6
  <2>2. k \in Int /\ m \in Int /\ a = m + d * (2 * k)
    <3>1. h * p = d * (2 * k) /\ h * p \in Int
      BY <1>2, <1>3, <1>6, <2>1
    <3>2. k \in Int
      BY <1>2, <1>6
    <3> HIDE DEF k
    <3> QED
      BY <1>6, <3>1, <3>2
  <2> HIDE DEF k
  <2>3. ((m + d * (2 * k)) \div d) % 2 = (m \div d) % 2
    BY <1>2, <2>2, Parity
  <2> QED
    BY <2>2, <2>3
<1> QED
  BY <1>4, <1>5, <1>7, <1>8 DEF d

\* Together.
LEMMA LeftBits ==
    ASSUME NEW a \in Word, NEW s \in 0 .. Bits - 1
    PROVE  BitsOf(ShiftLeft(a, s)) = {i + s : i \in BitsOf(a)} \cap (0 .. Bits - 1)
<1> DEFINE z == ShiftLeft(a, s)
<1>1. ASSUME NEW j \in BitsOf(z)
      PROVE  j - s \in BitsOf(a) /\ j \in 0 .. Bits - 1 /\ j = (j - s) + s
  <2>1. j \in 0 .. Bits - 1 /\ (z \div 2^j) % 2 = 1
    BY <1>1 DEF BitsOf
  <2>2. ~(j < s)
    <3>1. SUFFICES ASSUME j < s
                   PROVE  FALSE
      OBVIOUS
    <3>2. j \in 0 .. s - 1
      BY <2>1, <3>1, BitsFacts
    <3>3. (z \div 2^j) % 2 = 0
      BY <3>2, LeftLowBits
    <3> QED
      BY <2>1, <3>3
  <2>3. j - s \in 0 .. Bits - 1 /\ (j - s) + s < Bits /\ j = (j - s) + s
    BY <2>1, <2>2, BitsFacts
  <2>4. (z \div 2^((j - s) + s)) % 2 = (a \div 2^(j - s)) % 2
    BY <2>3, LeftHighBits
  <2>5. (a \div 2^(j - s)) % 2 = 1
    BY <2>1, <2>3, <2>4
  <2>6. j - s \in BitsOf(a)
    BY <2>3, <2>5 DEF BitsOf
  <2> QED
    BY <2>1, <2>3, <2>6
<1>2. ASSUME NEW i \in BitsOf(a), i + s \in 0 .. Bits - 1
      PROVE  i + s \in BitsOf(z)
  <2>1. i \in 0 .. Bits - 1 /\ (a \div 2^i) % 2 = 1
    BY <1>2 DEF BitsOf
  <2>2. i + s < Bits
    BY <1>2, BitsFacts
  <2>3. (z \div 2^(i + s)) % 2 = 1
    BY <2>1, <2>2, LeftHighBits
  <2> QED
    BY <1>2, <2>3 DEF BitsOf
<1> HIDE DEF z
<1>3. BitsOf(z) \subseteq {i + s : i \in BitsOf(a)} \cap (0 .. Bits - 1)
  BY <1>1
<1>4. {i + s : i \in BitsOf(a)} \cap (0 .. Bits - 1) \subseteq BitsOf(z)
  BY <1>2
<1> QED
  BY <1>3, <1>4 DEF z

\* Zero has no bits.
LEMMA NoBits == BitsOf(0) = {}
<1>1. SUFFICES ASSUME NEW i \in BitsOf(0)
               PROVE  FALSE
  OBVIOUS
<1>2. i \in 0 .. Bits - 1 /\ (0 \div 2^i) % 2 = 1
  BY DEF BitsOf
<1> DEFINE d == 2^i
<1>3. d \in Nat \ {0}
  BY <1>2, PowTwo, BitsFacts
<1>4. (0 \div d) % 2 = 1
  BY <1>2
<1> HIDE DEF d
<1> QED
  BY <1>3, <1>4

\* SAR divides a signed word, rounding down.
LEMMA SarDivides ==
    ASSUME NEW a \in Word, NEW s \in 0 .. Bits - 1
    PROVE  Sar(s, a) \in Word /\ Signed(Sar(s, a)) = Signed(a) \div 2^s
<1> DEFINE c == 2^s
           d == 2^(Bits - s)
           q == a \div c
<1>1. /\ c \in Nat \ {0} /\ d \in Nat \ {0} /\ Modulus = c * d /\ a \in 0 .. Modulus - 1
      /\ a \in Nat /\ s \in 0 .. Bits /\ Half \in Nat /\ Half >= 128 /\ Modulus = 2 * Half
  BY Split, ModulusFacts, BitsFacts
<1>2. ShiftRight(a, s) = q
  BY DEF ShiftRight
<1>3. q \in Word /\ q \in 0 .. d - 1
  BY <1>1, <1>2, RightIsWord
<1> HIDE DEF c, d, q
<1>4. q \in Nat /\ q < d /\ q \in 0 .. Modulus - 1
  BY <1>1, <1>3, ModulusFacts
<1>5. c * q <= a
  BY <1>1, DivisionNat DEF q
<1>6. q <= a
  <2>1. c - 1 \in Nat /\ c * q = (c - 1) * q + q
    BY <1>1, <1>4
  <2>2. (c - 1) * q \in Nat
    BY <1>4, <2>1
  <2> QED
    BY <1>1, <1>4, <1>5, <2>1, <2>2
<1>7. CASE ~IsNeg(a)
  <2>1. Sar(s, a) = q
    BY <1>2, <1>7, BitsFacts DEF Sar, Shr
  <2>2. a < Half
    BY <1>1, <1>7 DEF IsNeg
  <2>3. Signed(q) = q /\ Signed(a) = a
    BY <1>1, <1>4, <1>6, <2>2 DEF Signed
  <2> QED
    BY <1>3, <2>1, <2>3 DEF q, c
<1>8. CASE IsNeg(a) /\ s = 0
  <2>1. Sar(s, a) = a
    BY <1>8 DEF Sar
  <2>2. c = 1
    BY <1>8, PowersAssumption DEF c
  <2>3. Signed(a) \in Int
    BY <1>1 DEF Signed
  <2>4. Signed(a) \div 1 = Signed(a)
    BY <2>3
  <2> QED
    BY <2>1, <2>2, <2>4 DEF c
<1>9. CASE IsNeg(a) /\ s # 0
  <2>1. Sar(s, a) = Modulus - d + q
    BY <1>2, <1>9, BitsFacts DEF Sar, d
  <2>2. Modulus - d + q = (Modulus - d) + q
    BY <1>1, <1>4
  <2>3. 2 * d <= Modulus
    <3>1. Bits - s \in Nat /\ Bits \in Nat /\ Bits - s < Bits /\ Bits - s <= Bits
      BY <1>9, BitsFacts
    <3> QED
      BY <3>1, PowGrows DEF Modulus, d
  <2>4. Sar(s, a) \in 0 .. Modulus - 1 /\ Sar(s, a) >= Half /\ Sar(s, a) \in Int
    BY <1>1, <1>4, <2>1, <2>2, <2>3
  <2>5. Signed(Sar(s, a)) = q - d
    BY <1>1, <1>4, <2>1, <2>2, <2>4 DEF Signed
  <2>6. Signed(a) = a - Modulus
    BY <1>1, <1>9 DEF Signed, IsNeg
  <2> DEFINE k == -d
  <2>7. k \in Int /\ a \in Int /\ a - Modulus = a + c * k
    <3>1. c * k = -(c * d)
      BY <1>1
    <3> QED
      BY <1>1, <3>1
  <2>8. (a + c * k) \div c = a \div c + k
    <3> HIDE DEF k
    <3> QED
      BY <1>1, <2>7, Shifted
  <2>9. Signed(a) \div c = q + k
    BY <2>6, <2>7, <2>8 DEF q
  <2>10. q + k = q - d
    BY <1>1, <1>4
  <2> HIDE DEF k
  <2> QED
    BY <2>4, <2>5, <2>9, <2>10, ModulusFacts DEF c
<1> QED
  BY <1>7, <1>8, <1>9

-------------------------------------------------------------------------------
(* Bytes.                                                                      *)

\* A byte is eight bits.
LEMMA EightBits == 2^8 = 256
<1>1. \A i \in 0 .. 7 : 2^(i + 1) = 2 * 2^i
  BY PowersAssumption, BitsFacts
<1>2. 2^1 = 2 * 2^0 /\ 2^2 = 2 * 2^1 /\ 2^3 = 2 * 2^2 /\ 2^4 = 2 * 2^3
  BY <1>1
<1>3. 2^5 = 2 * 2^4 /\ 2^6 = 2 * 2^5 /\ 2^7 = 2 * 2^6 /\ 2^8 = 2 * 2^7
  BY <1>1
<1> QED
  BY <1>2, <1>3, PowersAssumption

\* So the powers of 256 are the places of bytes.
LEMMA BytePowers == \A k \in 0 .. WordBytes - 1 : 2^(8 * k) = 256^k
<1> DEFINE T == {k \in 0 .. WordBytes - 1 : 2^(8 * k) # 256^k}
<1>1. SUFFICES ASSUME T # {}
               PROVE  FALSE
  OBVIOUS
<1>2. T \subseteq Nat
  OBVIOUS
<1>3. PICK x \in T : \A y \in T : x <= y
  BY <1>1, <1>2, Least
<1>4. x \in 0 .. WordBytes - 1 /\ 2^(8 * x) # 256^x
  OBVIOUS
<1>5. x # 0
  <2>1. 8 * 0 = 0
    OBVIOUS
  <2>2. 2^(8 * 0) = 256^0
    BY <2>1, PowersAssumption
  <2> QED
    BY <1>4, <2>2
<1>6. x - 1 \in 0 .. WordBytes - 1 /\ x - 1 \notin T
  <2>1. x - 1 \in 0 .. WordBytes - 1 /\ ~(x <= x - 1)
    BY <1>4, <1>5, BitsFacts
  <2> HIDE DEF T
  <2> QED
    BY <1>3, <2>1
<1>7. 2^(8 * (x - 1)) = 256^(x - 1)
  BY <1>6
<1> HIDE DEF T
<1>8. 256^x = 256 * 256^(x - 1)
  <2>1. x - 1 \in 0 .. WordBytes - 2 /\ (x - 1) + 1 = x
    BY <1>4, <1>5, BitsFacts
  <2> QED
    BY <2>1, PowersAssumption
<1>9. /\ 8 * (x - 1) \in Nat /\ 8 \in Nat /\ 8 * (x - 1) + 8 <= Bits /\ 8 * x = 8 * (x - 1) + 8
      /\ 8 * (x - 1) \in 0 .. Bits
  BY <1>4, <1>6, BitsFacts
<1>10. 2^(8 * (x - 1) + 8) = 2^(8 * (x - 1)) * 2^8
  BY <1>9, PowSum
<1> DEFINE u == 2^(8 * (x - 1))
<1>11. u \in Nat
  BY <1>9, PowTwo
<1>12. 2^(8 * x) = u * 256 /\ 256^x = 256 * u
  BY <1>7, <1>8, <1>9, <1>10, EightBits
<1> HIDE DEF u
<1>13. u * 256 = 256 * u
  BY <1>11
<1> QED
  BY <1>4, <1>12, <1>13

\* What BYTE computes.
LEMMA ByteDigit ==
    ASSUME NEW i \in Word, NEW x \in Word
    PROVE  /\ ByteOf(i, x) \in Word
           /\ ByteOf(i, x) = (IF i < WordBytes THEN (x \div 256^(WordBytes - 1 - i)) % 256 ELSE 0)
<1>1. Modulus \in Nat /\ Modulus >= 256 /\ i \in Nat /\ x \in Nat
  BY ModulusFacts
<1>2. CASE i >= WordBytes
  <2>1. ByteOf(i, x) = 0
    BY <1>2 DEF ByteOf
  <2>2. ~(i < WordBytes)
    BY <1>1, <1>2, BitsFacts
  <2>3. 0 \in 0 .. Modulus - 1
    BY <1>1
  <2> QED
    BY <2>1, <2>2, <2>3, ModulusFacts
<1>3. CASE i < WordBytes
  <2> DEFINE k == WordBytes - 1 - i
             d == 2^(8 * k)
             q == x \div d
  <2>1. k \in 0 .. WordBytes - 1 /\ 8 * k \in 0 .. Bits /\ ~(i >= WordBytes)
    BY <1>1, <1>3, BitsFacts
  <2>2. d = 256^k
    BY <2>1, BytePowers
  <2>3. d \in Nat \ {0}
    BY <2>1, PowTwo
  <2>4. ByteOf(i, x) = q % 256
    BY <2>1 DEF ByteOf, ShiftRight
  <2>5. q \in Nat
    <3> HIDE DEF d
    <3> QED
      BY <1>1, <2>3, DivisionNat
  <2> HIDE DEF q
  <2>6. q % 256 \in 0 .. Modulus - 1
    BY <1>1, <2>5
  <2>7. q % 256 = (x \div 256^k) % 256
    BY <2>2 DEF q
  <2> QED
    BY <1>3, <2>4, <2>6, <2>7, ModulusFacts
<1> QED
  BY <1>1, <1>2, <1>3, BitsFacts

\* What SIGNEXTEND computes, when it keeps w bits, for values on either side of its sign bit.
LEMMA Extended ==
    ASSUME NEW x \in Word, NEW w \in 0 .. Bits
    PROVE  LET mask  == 2^w
               value == x % mask
               y     == IF value >= mask \div 2 THEN Modulus - mask + value ELSE value
           IN  /\ y \in Word
               /\ w \in 1 .. Bits - 1 => /\ Signed(y) \in -(2^(w - 1)) .. 2^(w - 1) - 1
                                         /\ (y - x) % mask = 0
<1> DEFINE m == 2^w
           d == 2^(Bits - w)
           v == x % m
           p == x \div m
           y == IF v >= m \div 2 THEN Modulus - m + v ELSE v
<1>1. m \in Nat \ {0} /\ d \in Nat \ {0} /\ Modulus = m * d
  BY Split
<1>2. x \in Nat /\ Half \in Nat /\ Modulus = 2 * Half /\ Modulus \in Nat
  BY ModulusFacts
<1>3. m <= Modulus
  <2>1. w \in Nat /\ Bits \in Nat /\ w <= Bits
    BY BitsFacts
  <2> QED
    BY <2>1, PowGrows DEF Modulus
<1>4. v \in 0 .. m - 1 /\ p \in Nat /\ x = m * p + v
  <2> HIDE DEF m
  <2> QED
    BY <1>1, <1>2, DivisionNat
<1> HIDE DEF v, p
<1>5. y \in 0 .. Modulus - 1
  <2> HIDE DEF m, d
  <2>1. Modulus - m + v \in 0 .. Modulus - 1 /\ v \in 0 .. Modulus - 1
    BY <1>1, <1>2, <1>3, <1>4
  <2> QED
    BY <2>1
<1>6. ASSUME w \in 1 .. Bits - 1
      PROVE  /\ Signed(y) \in -(2^(w - 1)) .. 2^(w - 1) - 1
             /\ (y - x) % m = 0
  <2> DEFINE h == 2^(w - 1)
  <2>1. m = 2 * h /\ h \in Nat \ {0} /\ h <= Half /\ 2 * m <= Modulus
    <3>1. w \in 1 .. Bits /\ w - 1 \in 0 .. Bits
      BY <1>6, BitsFacts
    <3>2. m = 2 * h /\ h \in Nat \ {0}
      BY <3>1, PowStep, PowTwo
    <3>3. 2 * m <= Modulus
      <4>1. w \in Nat /\ Bits \in Nat /\ w <= Bits /\ w < Bits
        BY <1>6, BitsFacts
      <4> QED
        BY <4>1, PowGrows DEF Modulus
    <3> HIDE DEF m, h
    <3> QED
      BY <1>1, <1>2, <3>2, <3>3
  <2> HIDE DEF m, d, h
  <2>2. m \div 2 = h
    BY <2>1
  <2>3. CASE v >= h
    <3>1. y = Modulus - m + v
      BY <2>2, <2>3
    <3>2. Modulus - m + v = (Modulus - m) + v
      BY <1>1, <1>2, <1>4
    <3> HIDE DEF y
    <3>3. ~(y < Half) /\ y \in Int
      BY <1>1, <1>2, <1>4, <2>1, <3>1, <3>2
    <3>4. Signed(y) = v - m
      BY <1>1, <1>2, <1>4, <3>1, <3>2, <3>3 DEF Signed
    <3>5. v - m \in -h .. h - 1
      BY <1>1, <1>4, <2>1, <2>3
    <3>6. y - x = m * ((d - 1) - p) + 0
      <4>1. m * ((d - 1) - p) = (m * d - m) - m * p
        BY <1>1, <1>4
      <4>2. m * p \in Int
        BY <1>1, <1>4
      <4> QED
        BY <1>1, <1>2, <1>4, <3>1, <3>2, <4>1, <4>2
    <3> DEFINE z == y - x
               k == (d - 1) - p
    <3>7. z \in Int /\ k \in Int /\ z = m * k + 0
      BY <1>1, <1>2, <1>4, <3>3, <3>6
    <3> HIDE DEF z, k
    <3>8. z % m = 0
      BY <1>1, <3>7, Unique
    <3> QED
      BY <3>4, <3>5, <3>8 DEF z, h
  <2>4. CASE ~(v >= h)
    <3>1. y = v
      BY <2>2, <2>4
    <3> HIDE DEF y
    <3>2. y < Half /\ y \in Int
      BY <1>1, <1>2, <1>4, <2>1, <2>4, <3>1
    <3>3. Signed(y) = v
      BY <3>1, <3>2 DEF Signed
    <3>4. v \in -h .. h - 1
      BY <1>1, <1>4, <2>1, <2>4
    <3>5. y - x = m * (-p) + 0
      <4>1. m * (-p) = -(m * p) /\ m * p \in Int
        BY <1>1, <1>4
      <4> QED
        BY <1>1, <1>2, <1>4, <3>1, <4>1
    <3> DEFINE z == y - x
               k == -p
    <3>6. z \in Int /\ k \in Int /\ z = m * k + 0
      BY <1>1, <1>2, <1>4, <3>2, <3>5
    <3> HIDE DEF z, k
    <3>7. z % m = 0
      BY <1>1, <3>6, Unique
    <3> QED
      BY <3>3, <3>4, <3>7 DEF z, h
  <2> QED
    BY <2>3, <2>4
<1>7. y \in Word
  BY <1>5, ModulusFacts
<1> QED
  BY <1>6, <1>7 DEF m, v, y

\* How many bytes it keeps: never all of them.
LEMMA ExtendedWidth ==
    ASSUME NEW b \in Word, NEW x \in Word
    PROVE  LET width == 8 * (IF b < WordBytes - 1 THEN b + 1 ELSE WordBytes - 1)
           IN  /\ SignExtend(b, x) \in Word
               /\ WordBytes > 1 =>
                     /\ Signed(SignExtend(b, x)) \in -(2^(width - 1)) .. 2^(width - 1) - 1
                     /\ (SignExtend(b, x) - x) % 2^width = 0
<1> DEFINE width == 8 * (IF b < WordBytes - 1 THEN b + 1 ELSE WordBytes - 1)
           w == 8 * ((IF b < WordBytes - 2 THEN b ELSE WordBytes - 2) + 1)
<1>1. w = width /\ w \in 0 .. Bits /\ (WordBytes > 1 => w \in 1 .. Bits - 1)
  <2>1. b \in Nat
    BY ModulusFacts
  <2>2. CASE b < WordBytes - 2
    <3>1. w = 8 * (b + 1) /\ b < WordBytes - 1
      BY <2>1, <2>2, BitsFacts
    <3>2. width = 8 * (b + 1)
      BY <3>1
    <3> QED
      BY <2>1, <3>1, <3>2, BitsFacts
  <2>3. CASE ~(b < WordBytes - 2)
    <3>1. w = 8 * (WordBytes - 1) /\ width = 8 * (WordBytes - 1)
      BY <2>1, <2>3, BitsFacts
    <3> QED
      BY <3>1, BitsFacts
  <2> QED
    BY <2>2, <2>3
<1>2. SignExtend(b, x) = LET mask  == 2^w
                             value == x % mask
                         IN  IF value >= mask \div 2 THEN Modulus - mask + value ELSE value
  BY DEF SignExtend
<1> HIDE DEF w, width
<1>3. LET mask  == 2^w
          value == x % mask
          y     == IF value >= mask \div 2 THEN Modulus - mask + value ELSE value
      IN  /\ y \in Word
          /\ w \in 1 .. Bits - 1 => /\ Signed(y) \in -(2^(w - 1)) .. 2^(w - 1) - 1
                                    /\ (y - x) % mask = 0
  BY <1>1, Extended
<1>4. /\ SignExtend(b, x) \in Word
      /\ WordBytes > 1 => /\ Signed(SignExtend(b, x)) \in -(2^(w - 1)) .. 2^(w - 1) - 1
                          /\ (SignExtend(b, x) - x) % 2^w = 0
  BY <1>1, <1>2, <1>3
<1> QED
  BY <1>1, <1>4 DEF width

-------------------------------------------------------------------------------
(* Recursions.                                                                 *)

\* What holds at 0, and at each number up to n if it does at the one before, holds up to n.
LEMMA UpTo ==
    ASSUME NEW n \in Nat, NEW T, 0 \in T, \A i \in 1 .. n : i - 1 \in T => i \in T
    PROVE  \A i \in 0 .. n : i \in T
<1> DEFINE S == {i \in 0 .. n : i \notin T}
<1>1. SUFFICES ASSUME S # {}
               PROVE  FALSE
  OBVIOUS
<1>2. S \subseteq Nat
  OBVIOUS
<1>3. PICK x \in S : \A y \in S : x <= y
  BY <1>1, <1>2, Least
<1>4. x \in 0 .. n /\ x \notin T
  OBVIOUS
<1>5. x \in 1 .. n /\ x - 1 \in 0 .. n /\ x - 1 \notin S
  BY <1>3, <1>4
<1> HIDE DEF S
<1>6. x - 1 \in T
  BY <1>5 DEF S
<1> QED
  BY <1>4, <1>5, <1>6

\* f is the sequence from c on that takes step[i] to its i-th element.
Iterates(f, n, c, step) == f = [i \in 0 .. n |-> IF i = 0 THEN c ELSE step[i][f[i - 1]]]

\* There is such a sequence.
LEMMA IteratesExist ==
    ASSUME NEW n \in Nat, NEW V, NEW c \in V, NEW step \in [1 .. n -> [V -> V]]
    PROVE  \E f \in [0 .. n -> V] : Iterates(f, n, c, step)
<1> DEFINE T == {k \in 0 .. n : \E f \in [0 .. k -> V] : Iterates(f, k, c, step)}
<1>1. 0 \in T
  <2> DEFINE g == [i \in 0 .. 0 |-> c]
  <2>1. g \in [0 .. 0 -> V] /\ Iterates(g, 0, c, step)
    BY DEF Iterates
  <2>2. 0 \in 0 .. n
    OBVIOUS
  <2> QED
    BY <2>1, <2>2
<1>2. ASSUME NEW x \in 1 .. n, x - 1 \in T
      PROVE  x \in T
  <2>1. PICK f \in [0 .. x - 1 -> V] : Iterates(f, x - 1, c, step)
    BY <1>2
  <2>2. f[0] = c /\ \A i \in 1 .. x - 1 : f[i] = step[i][f[i - 1]]
    BY <2>1 DEF Iterates
  <2>3. step[x] \in [V -> V] /\ f[x - 1] \in V
    OBVIOUS
  <2> DEFINE last == step[x][f[x - 1]]
             g == [i \in 0 .. x |-> IF i = x THEN last ELSE f[i]]
  <2>4. last \in V
    BY <2>3
  <2>5. g \in [0 .. x -> V]
    <3> HIDE DEF last
    <3> QED
      BY <2>4
  <2>6. ASSUME NEW i \in 0 .. x
        PROVE  g[i] = IF i = 0 THEN c ELSE step[i][g[i - 1]]
    <3>1. CASE i = 0
      BY <2>2, <3>1
    <3>2. CASE i = x
      <4>1. i # 0 /\ i - 1 \in 0 .. x - 1 /\ g[i - 1] = f[i - 1] /\ g[i] = last
        BY <3>2
      <4> QED
        BY <3>2, <4>1
    <3>3. CASE i # 0 /\ i # x
      <4>1. i \in 1 .. x - 1 /\ g[i - 1] = f[i - 1] /\ g[i] = f[i]
        BY <3>3
      <4> QED
        BY <2>2, <3>3, <4>1
    <3> QED
      BY <3>1, <3>2, <3>3
  <2>7. g = [i \in 0 .. x |-> g[i]]
    OBVIOUS
  <2> HIDE DEF g
  <2>8. Iterates(g, x, c, step)
    BY <2>6, <2>7 DEF Iterates
  <2> QED
    BY <2>5, <2>8
<1> HIDE DEF T
<1>3. \A i \in 0 .. n : i \in T
  BY <1>1, <1>2, UpTo
<1>4. n \in T
  BY <1>3
<1> QED
  BY <1>4 DEF T

-------------------------------------------------------------------------------
(* The word with given bits.                                                   *)

\* low[n] sums the powers of two that set selects below n.
Lows(low, set) ==
    low = [n \in 0 .. Bits |->
              IF n = 0 THEN 0 ELSE low[n - 1] + (IF n - 1 \in set THEN 2^(n - 1) ELSE 0)]

\* There are such sums ...
LEMMA LowsExist == \A set : \E low : Lows(low, set)
<1> TAKE set
<1> DEFINE part == [i \in 1 .. Bits |-> IF i - 1 \in set THEN 2^(i - 1) ELSE 0]
           step == [i \in 1 .. Bits |-> [v \in Nat |-> v + part[i]]]
<1>1. ASSUME NEW i \in 1 .. Bits
      PROVE  part[i] \in Nat
  <2>1. i - 1 \in 0 .. Bits
    BY BitsFacts
  <2>2. 2^(i - 1) \in Nat
    BY <2>1, PowTwo
  <2> QED
    BY <2>2
<1>2. Bits \in Nat /\ 0 \in Nat
  BY BitsFacts
<1>3. \A i \in 1 .. Bits : part[i] = IF i - 1 \in set THEN 2^(i - 1) ELSE 0
  OBVIOUS
<1> HIDE DEF part
<1>4. step \in [1 .. Bits -> [Nat -> Nat]]
  BY <1>1
<1>5. \A i \in 1 .. Bits, v \in Nat : step[i][v] = v + part[i]
  OBVIOUS
<1> HIDE DEF step
<1>6. PICK f \in [0 .. Bits -> Nat] : Iterates(f, Bits, 0, step)
  BY <1>2, <1>4, IteratesExist
<1>7. ASSUME NEW n \in 0 .. Bits
      PROVE  f[n] = IF n = 0 THEN 0 ELSE f[n - 1] + (IF n - 1 \in set THEN 2^(n - 1) ELSE 0)
  <2>1. f[n] = IF n = 0 THEN 0 ELSE step[n][f[n - 1]]
    BY <1>6 DEF Iterates
  <2>2. n # 0 => n \in 1 .. Bits /\ f[n - 1] \in Nat
    BY <1>2
  <2> QED
    BY <1>3, <1>5, <2>1, <2>2
<1>8. f = [n \in 0 .. Bits |-> f[n]]
  OBVIOUS
<1>9. Lows(f, set)
  BY <1>7, <1>8 DEF Lows
<1> QED
  BY <1>9

\* ... and their last is a word.
LEMMA WithBitsIsWord == \A set : WithBits(set) \in Word
<1> TAKE set
<1> DEFINE low == CHOOSE f : Lows(f, set)
<1>1. WithBits(set) = low[Bits]
  BY DEF WithBits, Lows
<1>2. Lows(low, set)
  BY LowsExist
<1> HIDE DEF low
<1>3. \A n \in 0 .. Bits :
          low[n] = IF n = 0 THEN 0 ELSE low[n - 1] + (IF n - 1 \in set THEN 2^(n - 1) ELSE 0)
  BY <1>2 DEF Lows
<1> DEFINE T == {n \in 0 .. Bits : low[n] \in 0 .. 2^n - 1}
<1>4. 0 \in T
  BY <1>3, PowersAssumption, BitsFacts
<1>5. ASSUME NEW n \in 1 .. Bits, n - 1 \in T
      PROVE  n \in T
  <2>1. low[n - 1] \in 0 .. 2^(n - 1) - 1 /\ n - 1 \in 0 .. Bits
    BY <1>5
  <2>2. 2^(n - 1) \in Nat /\ 2^n = 2 * 2^(n - 1)
    BY <2>1, PowTwo, PowStep
  <2>3. low[n] = low[n - 1] + (IF n - 1 \in set THEN 2^(n - 1) ELSE 0)
    BY <1>3, BitsFacts
  <2> DEFINE p == 2^(n - 1)
             v == low[n - 1]
             b == IF n - 1 \in set THEN p ELSE 0
  <2>4. p \in Nat /\ v \in 0 .. p - 1 /\ b \in {0, p} /\ low[n] = v + b /\ 2^n = 2 * p
    BY <2>1, <2>2, <2>3
  <2> HIDE DEF p, v, b
  <2>5. low[n] \in 0 .. 2^n - 1
    BY <2>4
  <2>6. n \in 0 .. Bits
    BY BitsFacts
  <2> QED
    BY <2>5, <2>6
<1> HIDE DEF T
<1>6. \A n \in 0 .. Bits : n \in T
  BY <1>4, <1>5, UpTo, BitsFacts
<1>7. Bits \in T
  BY <1>6, BitsFacts
<1> QED
  BY <1>1, <1>7, ModulusFacts DEF T, Modulus

-------------------------------------------------------------------------------
(* Powers of words.                                                            *)

\* pow[i] is the ith power of a, wrapped.
Wraps(pow, a, e) == pow = [i \in 0 .. e |-> IF i = 0 THEN 1 ELSE (a * pow[i - 1]) % Modulus]

\* A product wraps to a word.
LEMMA WrapsToWord ==
    ASSUME NEW a \in Word, NEW b \in Word
    PROVE  (a * b) % Modulus \in Word
<1> DEFINE x == a * b
<1>1. a \in Nat /\ b \in Nat /\ Modulus \in Nat \ {0}
  BY ModulusFacts
<1>2. x \in Nat
  BY <1>1
<1> HIDE DEF x
<1>3. x % Modulus \in 0 .. Modulus - 1
  BY <1>1, <1>2, DivisionNat
<1> QED
  BY <1>3, ModulusFacts DEF x

\* There are such powers, and they are words ...
LEMMA WrapsExist ==
    ASSUME NEW a \in Word, NEW e \in Nat
    PROVE  \E pow \in [0 .. e -> Word] : Wraps(pow, a, e)
<1> DEFINE step == [i \in 1 .. e |-> [v \in Word |-> (a * v) % Modulus]]
<1>1. step \in [1 .. e -> [Word -> Word]]
  BY WrapsToWord
<1>2. \A i \in 1 .. e, v \in Word : step[i][v] = (a * v) % Modulus
  OBVIOUS
<1> HIDE DEF step
<1>3. 1 \in Word
  BY ModulusFacts
<1>4. PICK f \in [0 .. e -> Word] : Iterates(f, e, 1, step)
  BY <1>1, <1>3, IteratesExist
<1>5. ASSUME NEW i \in 0 .. e
      PROVE  f[i] = IF i = 0 THEN 1 ELSE (a * f[i - 1]) % Modulus
  <2>1. f[i] = IF i = 0 THEN 1 ELSE step[i][f[i - 1]]
    BY <1>4 DEF Iterates
  <2>2. i # 0 => i \in 1 .. e /\ f[i - 1] \in Word
    OBVIOUS
  <2> QED
    BY <1>2, <2>1, <2>2
<1>6. f = [i \in 0 .. e |-> f[i]]
  OBVIOUS
<1>7. Wraps(f, a, e)
  BY <1>5, <1>6 DEF Wraps
<1> QED
  BY <1>7

\* ... of which any list holds the same.
LEMMA WrapsUnique ==
    ASSUME NEW a, NEW e \in Nat, NEW n \in 0 .. e, NEW f, NEW g, Wraps(f, a, e), Wraps(g, a, n)
    PROVE  f[n] = g[n]
<1> DEFINE T == {i \in 0 .. n : f[i] = g[i]}
<1>1. /\ \A i \in 0 .. e : f[i] = IF i = 0 THEN 1 ELSE (a * f[i - 1]) % Modulus
      /\ \A i \in 0 .. n : g[i] = IF i = 0 THEN 1 ELSE (a * g[i - 1]) % Modulus
  BY DEF Wraps
<1>2. 0 \in T
  BY <1>1
<1>3. ASSUME NEW i \in 1 .. n, i - 1 \in T
      PROVE  i \in T
  <2>1. f[i - 1] = g[i - 1] /\ i \in 0 .. n /\ i \in 0 .. e /\ i # 0
    BY <1>3
  <2> HIDE DEF T
  <2>2. f[i] = (a * f[i - 1]) % Modulus /\ g[i] = (a * g[i - 1]) % Modulus
    BY <1>1, <2>1
  <2> QED
    BY <2>1, <2>2 DEF T
<1> HIDE DEF T
<1>4. \A i \in 0 .. n : i \in T
  BY <1>2, <1>3, UpTo
<1>5. n \in T
  BY <1>4
<1> QED
  BY <1>5 DEF T

\* wrapping_pow is the last of them: each power is the one before, times the base.
LEMMA WrappingPowFacts ==
    ASSUME NEW a \in Word
    PROVE  /\ WrappingPow(a, 0) = 1
           /\ \A e \in Nat : WrappingPow(a, e) \in Word
           /\ \A e \in Nat : WrappingPow(a, e + 1) = (a * WrappingPow(a, e)) % Modulus
<1> DEFINE P(e) == CHOOSE f : Wraps(f, a, e)
<1>1. \A e : WrappingPow(a, e) = P(e)[e]
  BY DEF WrappingPow, Wraps
<1>2. \A e \in Nat : Wraps(P(e), a, e)
  BY WrapsExist
<1> HIDE DEF P
<1>3. ASSUME NEW e \in Nat
      PROVE  WrappingPow(a, e) \in Word
  <2>1. PICK f \in [0 .. e -> Word] : Wraps(f, a, e)
    BY WrapsExist
  <2>2. e \in 0 .. e /\ f[e] \in Word
    OBVIOUS
  <2>3. P(e)[e] = f[e]
    BY <1>2, <2>1, <2>2, WrapsUnique
  <2> QED
    BY <1>1, <2>2, <2>3
<1>4. ASSUME NEW e \in Nat
      PROVE  WrappingPow(a, e + 1) = (a * WrappingPow(a, e)) % Modulus
  <2>1. e + 1 \in Nat /\ e + 1 \in 0 .. e + 1 /\ e \in 0 .. e + 1 /\ (e + 1) - 1 = e /\ e + 1 # 0
    OBVIOUS
  <2> DEFINE f == P(e + 1)
             g == P(e)
  <2>2. Wraps(f, a, e + 1) /\ Wraps(g, a, e)
    BY <1>2, <2>1
  <2>3. WrappingPow(a, e + 1) = f[e + 1] /\ WrappingPow(a, e) = g[e]
    BY <1>1
  <2> HIDE DEF f, g
  <2>4. f[e] = g[e]
    BY <2>1, <2>2, WrapsUnique
  <2>5. f[e + 1] = (a * f[(e + 1) - 1]) % Modulus
    BY <2>1, <2>2 DEF Wraps
  <2> QED
    BY <2>1, <2>3, <2>4, <2>5
<1>5. WrappingPow(a, 0) = 1
  <2>1. 0 \in Nat /\ 0 \in 0 .. 0
    OBVIOUS
  <2> DEFINE f == P(0)
  <2>2. Wraps(f, a, 0) /\ WrappingPow(a, 0) = f[0]
    BY <1>1, <1>2, <2>1
  <2> HIDE DEF f
  <2>3. f[0] = 1
    BY <2>1, <2>2 DEF Wraps
  <2> QED
    BY <2>2, <2>3
<1> QED
  BY <1>3, <1>4, <1>5

\* Wrapped products are associative.
LEMMA WrappedProducts ==
    ASSUME NEW a \in Word, NEW b \in Word, NEW c \in Word
    PROVE  (a * ((b * c) % Modulus)) % Modulus = (((a * b) % Modulus) * c) % Modulus
<1> DEFINE x == b * c
           y == a * b
<1>1. a \in Int /\ b \in Int /\ c \in Int /\ Modulus \in Nat \ {0}
  BY ModulusFacts
<1>2. x \in Int /\ y \in Int /\ a * x = y * c
  BY <1>1
<1> HIDE DEF x, y
<1>3. (a * (x % Modulus)) % Modulus = (a * x) % Modulus
  BY <1>1, <1>2, ReduceFactor
<1>4. ((y % Modulus) * c) % Modulus = (y * c) % Modulus
  BY <1>1, <1>2, ReduceFactor
<1> QED
  BY <1>2, <1>3, <1>4 DEF x, y

\* The power of a sum ...
LEMMA PowerOfSum ==
    ASSUME NEW a \in Word, NEW m \in Nat, NEW n \in Nat
    PROVE  WrappingPow(a, m + n) = (WrappingPow(a, m) * WrappingPow(a, n)) % Modulus
<1> DEFINE P(e) == WrappingPow(a, e)
           T == {i \in 0 .. m : P(i + n) = (P(i) * P(n)) % Modulus}
<1>1. /\ P(0) = 1
      /\ \A e \in Nat : P(e) \in Word
      /\ \A e \in Nat : P(e + 1) = (a * P(e)) % Modulus
  BY WrappingPowFacts
<1> HIDE DEF P
<1>2. 0 \in T
  <2> DEFINE v == P(n)
  <2>1. v \in Word /\ Modulus \in Nat \ {0}
    BY <1>1, ModulusFacts
  <2> HIDE DEF v
  <2>2. v \in Nat /\ v < Modulus
    BY <2>1, ModulusFacts
  <2>3. (1 * v) % Modulus = v
    <3>1. 1 * v = v
      BY <2>2
    <3> QED
      BY <2>1, <2>2, <3>1, Small
  <2>4. 0 + n = n
    OBVIOUS
  <2> QED
    BY <1>1, <2>3, <2>4 DEF v
<1>3. ASSUME NEW i \in 1 .. m, i - 1 \in T
      PROVE  i \in T
  <2> DEFINE j == i - 1
  <2>1. j \in Nat /\ i = j + 1 /\ j + n \in Nat /\ i + n = (j + n) + 1
    OBVIOUS
  <2>2. P(j + n) = (P(j) * P(n)) % Modulus
    BY <1>3
  <2> HIDE DEF j
  <2>3. P(i + n) = (a * P(j + n)) % Modulus /\ P(i) = (a * P(j)) % Modulus
    BY <1>1, <2>1
  <2>4. P(j) \in Word /\ P(n) \in Word
    BY <1>1, <2>1
  <2>5. (a * ((P(j) * P(n)) % Modulus)) % Modulus = (((a * P(j)) % Modulus) * P(n)) % Modulus
    BY <2>4, WrappedProducts
  <2>6. P(i + n) = (P(i) * P(n)) % Modulus
    BY <2>2, <2>3, <2>5
  <2> QED
    BY <2>6
<1> HIDE DEF T
<1>4. \A i \in 0 .. m : i \in T
  BY <1>2, <1>3, UpTo
<1>5. m \in T
  BY <1>4
<1> QED
  BY <1>5 DEF T, P

\* ... and of a product.
LEMMA PowerOfProduct ==
    ASSUME NEW a \in Word, NEW m \in Nat, NEW n \in Nat
    PROVE  WrappingPow(WrappingPow(a, m), n) = WrappingPow(a, m * n)
<1> DEFINE b == WrappingPow(a, m)
           T == {i \in 0 .. n : WrappingPow(b, i) = WrappingPow(a, m * i)}
<1>1. b \in Word
  BY WrappingPowFacts
<1>2. 0 \in T
  <2>1. m * 0 = 0 /\ WrappingPow(b, 0) = 1 /\ WrappingPow(a, 0) = 1
    BY <1>1, WrappingPowFacts
  <2> HIDE DEF b
  <2>2. 0 \in 0 .. n /\ WrappingPow(b, 0) = WrappingPow(a, m * 0)
    BY <2>1
  <2> QED
    BY <2>2
<1>3. ASSUME NEW i \in 1 .. n, i - 1 \in T
      PROVE  i \in T
  <2> DEFINE j == i - 1
  <2>1. j \in Nat /\ i = j + 1 /\ m * i = m + m * j /\ m * j \in Nat
    OBVIOUS
  <2>2. WrappingPow(b, j) = WrappingPow(a, m * j)
    BY <1>3
  <2> HIDE DEF j
  <2>3. WrappingPow(b, i) = (b * WrappingPow(b, j)) % Modulus
    BY <1>1, <2>1, WrappingPowFacts
  <2>4. WrappingPow(a, m + m * j) = (b * WrappingPow(a, m * j)) % Modulus
    <3> DEFINE k == m * j
    <3>1. k \in Nat
      BY <2>1
    <3> HIDE DEF k
    <3>2. WrappingPow(a, m + k) = (b * WrappingPow(a, k)) % Modulus
      BY <3>1, PowerOfSum
    <3> QED
      BY <3>2 DEF k
  <2>5. WrappingPow(b, i) = WrappingPow(a, m * i)
    BY <2>1, <2>2, <2>3, <2>4
  <2> QED
    BY <2>5
<1> HIDE DEF T
<1>4. \A i \in 0 .. n : i \in T
  BY <1>2, <1>3, UpTo
<1>5. n \in T
  BY <1>4
<1> QED
  BY <1>5 DEF T, b

\* pow[n][b] is b^n, for n up to e, by quotient and remainder of the limit.
Splits(pow, e) ==
    pow = [n \in 0 .. e |->
              [b \in 0 .. Largest |->
                  IF n <= PowLimit THEN WrappingPow(b, n)
                  ELSE (pow[n \div PowLimit][WrappingPow(b, PowLimit)]
                           * WrappingPow(b, n % PowLimit)) % Modulus]]

\* What the quotient and the remainder of an exponent are worth.
LEMMA ExponentSplit ==
    ASSUME NEW b \in Word, NEW n \in Nat
    PROVE  /\ n \div PowLimit \in Nat /\ n % PowLimit \in Nat
           /\ n > PowLimit => n \div PowLimit < n
           /\ WrappingPow(b, PowLimit) \in Word
           /\ WrappingPow(b, n) = (WrappingPow(WrappingPow(b, PowLimit), n \div PowLimit)
                                      * WrappingPow(b, n % PowLimit)) % Modulus
<1> DEFINE L == PowLimit
           q == n \div L
           r == n % L
<1>1. L \in Nat \ {0} /\ L >= 2 /\ L \in Nat
  BY WordsAssumption
<1> HIDE DEF L
<1>2. q \in Nat /\ r \in 0 .. L - 1 /\ n = L * q + r
  BY <1>1, DivisionNat
<1> HIDE DEF q, r
<1>3. r \in Nat /\ L * q \in Nat
  BY <1>1, <1>2
<1>4. n > L => q < n
  <2>1. SUFFICES ASSUME n > L, ~(q < n)
                 PROVE  FALSE
    OBVIOUS
  <2>2. L * q = (L - 2) * q + 2 * q /\ (L - 2) * q \in Nat
    BY <1>1, <1>2
  <2>3. q >= n /\ 2 * q <= n
    BY <1>2, <1>3, <2>1, <2>2
  <2> QED
    BY <1>1, <1>2, <2>1, <2>3
<1>5. WrappingPow(b, L) \in Word
  BY <1>1, WrappingPowFacts
<1>6. WrappingPow(b, n) = (WrappingPow(b, L * q) * WrappingPow(b, r)) % Modulus
  <2> DEFINE k == L * q
  <2>1. k \in Nat /\ n = k + r
    BY <1>2, <1>3
  <2> HIDE DEF k
  <2>2. WrappingPow(b, k + r) = (WrappingPow(b, k) * WrappingPow(b, r)) % Modulus
    BY <1>3, <2>1, PowerOfSum
  <2> QED
    BY <2>1, <2>2 DEF k
<1>7. WrappingPow(WrappingPow(b, L), q) = WrappingPow(b, L * q)
  BY <1>1, <1>2, PowerOfProduct
<1> QED
  BY <1>2, <1>3, <1>4, <1>5, <1>6, <1>7 DEF q, r, L

\* The recursion has a solution, the powers themselves ...
LEMMA SplitsExist ==
    ASSUME NEW e \in Nat
    PROVE  \E pow : Splits(pow, e)
<1> DEFINE f == [n \in 0 .. e |-> [b \in 0 .. Largest |-> WrappingPow(b, n)]]
           F(n, b) == IF n <= PowLimit THEN WrappingPow(b, n)
                      ELSE (f[n \div PowLimit][WrappingPow(b, PowLimit)]
                               * WrappingPow(b, n % PowLimit)) % Modulus
<1>1. ASSUME NEW n \in 0 .. e, NEW b \in 0 .. Largest
      PROVE  f[n][b] = F(n, b)
  <2>1. f[n][b] = WrappingPow(b, n) /\ n \in Nat /\ b \in Word
    BY DEF Word
  <2>2. CASE n <= PowLimit
    BY <2>1, <2>2
  <2>3. CASE ~(n <= PowLimit)
    <3> DEFINE q == n \div PowLimit
               c == WrappingPow(b, PowLimit)
    <3>1. n > PowLimit
      BY <2>1, <2>3, WordsAssumption
    <3>2. q \in 0 .. e /\ c \in 0 .. Largest
      BY <2>1, <3>1, ExponentSplit DEF Word
    <3>3. WrappingPow(b, n) = (WrappingPow(c, q) * WrappingPow(b, n % PowLimit)) % Modulus
      BY <2>1, ExponentSplit
    <3> HIDE DEF q, c
    <3>4. f[q][c] = WrappingPow(c, q)
      BY <3>2
    <3>5. F(n, b) = (f[q][c] * WrappingPow(b, n % PowLimit)) % Modulus
      BY <2>3 DEF q, c
    <3> QED
      BY <2>1, <3>3, <3>4, <3>5
  <2> QED
    BY <2>2, <2>3
<1>2. f = [n \in 0 .. e |-> [b \in 0 .. Largest |-> f[n][b]]]
  OBVIOUS
<1>3. [n \in 0 .. e |-> [b \in 0 .. Largest |-> f[n][b]]]
          = [n \in 0 .. e |-> [b \in 0 .. Largest |-> F(n, b)]]
  <2> HIDE DEF f, F
  <2> QED
    BY <1>1
<1> HIDE DEF f
<1>4. Splits(f, e)
  BY <1>2, <1>3 DEF Splits
<1> QED
  BY <1>4

\* ... and no other.
LEMMA SplitsUnique ==
    ASSUME NEW e \in Nat, NEW pow, Splits(pow, e)
    PROVE  \A n \in 0 .. e, b \in Word : pow[n][b] = WrappingPow(b, n)
<1> DEFINE T == {n \in 0 .. e : \E b \in Word : pow[n][b] # WrappingPow(b, n)}
<1>1. SUFFICES ASSUME T # {}
               PROVE  FALSE
  OBVIOUS
<1>2. T \subseteq Nat
  OBVIOUS
<1>3. PICK n \in T : \A y \in T : n <= y
  BY <1>1, <1>2, Least
<1>4. PICK b \in Word : pow[n][b] # WrappingPow(b, n)
  OBVIOUS
<1>5. n \in 0 .. e /\ n \in Nat /\ b \in 0 .. Largest
  BY DEF Word
<1>6. pow[n][b] = IF n <= PowLimit THEN WrappingPow(b, n)
                  ELSE (pow[n \div PowLimit][WrappingPow(b, PowLimit)]
                           * WrappingPow(b, n % PowLimit)) % Modulus
  <2> DEFINE F(m, x) == IF m <= PowLimit THEN WrappingPow(x, m)
                        ELSE (pow[m \div PowLimit][WrappingPow(x, PowLimit)]
                                 * WrappingPow(x, m % PowLimit)) % Modulus
  <2>1. pow = [m \in 0 .. e |-> [x \in 0 .. Largest |-> F(m, x)]]
    BY DEF Splits
  <2> HIDE DEF F, T
  <2>2. pow[n] = [x \in 0 .. Largest |-> F(n, x)]
    BY <1>5, <2>1
  <2>3. pow[n][b] = F(n, b)
    BY <1>5, <2>2
  <2> QED
    BY <2>3 DEF F
<1>7. n > PowLimit
  BY <1>4, <1>5, <1>6, WordsAssumption
<1> DEFINE q == n \div PowLimit
           c == WrappingPow(b, PowLimit)
<1>8. q \in Nat /\ q < n /\ c \in Word
  BY <1>5, <1>7, ExponentSplit
<1> HIDE DEF q, c
<1>9. q \in 0 .. e /\ q \notin T
  <2>1. q \in 0 .. e /\ ~(n <= q)
    BY <1>5, <1>8
  <2> HIDE DEF T
  <2> QED
    BY <1>3, <2>1
<1>10. pow[q][c] = WrappingPow(c, q)
  BY <1>8, <1>9
<1>11. WrappingPow(b, n) = (WrappingPow(c, q) * WrappingPow(b, n % PowLimit)) % Modulus
  BY <1>5, ExponentSplit DEF q, c
<1>12. pow[n][b] = (pow[q][c] * WrappingPow(b, n % PowLimit)) % Modulus
  BY <1>5, <1>6, <1>7, WordsAssumption DEF q, c
<1> QED
  BY <1>4, <1>10, <1>11, <1>12

\* wrapping_big_pow computes what wrapping_pow would, had it no limit.
LEMMA BigPowIsPower ==
    ASSUME NEW a \in Word, NEW e \in Nat
    PROVE  BigPow(a, e) = WrappingPow(a, e) /\ BigPow(a, e) \in Word
<1> DEFINE pow == CHOOSE f : Splits(f, e)
<1>1. BigPow(a, e) = pow[e][a]
  BY DEF BigPow, Splits
<1>2. Splits(pow, e)
  BY SplitsExist
<1> HIDE DEF pow
<1>3. e \in 0 .. e
  OBVIOUS
<1>4. pow[e][a] = WrappingPow(a, e)
  BY <1>2, <1>3, SplitsUnique
<1>5. WrappingPow(a, e) \in Word
  BY WrappingPowFacts
<1> QED
  BY <1>1, <1>4, <1>5

\* The bits of an exponent below a place make its remainder: the next bit adds its power.
LEMMA NextBit ==
    ASSUME NEW e \in Word, NEW i \in 1 .. Bits
    PROVE  e % 2^i = (e % 2^(i - 1)) + (IF i - 1 \in BitsOf(e) THEN 2^(i - 1) ELSE 0)
<1> DEFINE d == 2^(i - 1)
           q == e \div d
           r == e % d
           k == q \div 2
           t == q % 2
<1>1. i - 1 \in 0 .. Bits - 1 /\ i - 1 \in 0 .. Bits /\ e \in Nat
  BY BitsFacts, ModulusFacts
<1>2. d \in Nat \ {0} /\ 2^i = 2 * d
  BY <1>1, PowTwo, PowStep
<1>3. i - 1 \in BitsOf(e) <=> t = 1
  BY <1>1 DEF BitsOf
<1> HIDE DEF d
<1>4. q \in Nat /\ r \in 0 .. d - 1 /\ e = d * q + r
  <2>1. e \in Nat /\ d \in Nat \ {0}
    BY <1>1, <1>2
  <2> QED
    BY <2>1, DivisionNat
<1> HIDE DEF q
<1>5. k \in Nat /\ t \in 0 .. 1 /\ q = 2 * k + t
  BY <1>4
<1> HIDE DEF r, k, t
<1> DEFINE m == 2 * d
           u == d * t + r
<1>6. m \in Nat \ {0} /\ u \in Int /\ 0 <= u /\ u < m
  <2>1. CASE t = 0
    BY <1>2, <1>4, <2>1
  <2>2. CASE t = 1
    BY <1>2, <1>4, <2>2
  <2> QED
    BY <1>5, <2>1, <2>2
<1>7. e = m * k + u
  <2>1. d * (2 * k + t) = (2 * d) * k + d * t /\ (2 * d) * k \in Int /\ d * t \in Int
    BY <1>2, <1>5
  <2> QED
    BY <1>2, <1>4, <1>5, <2>1
<1>8. u = r + (IF t = 1 THEN d ELSE 0)
  <2>1. CASE t = 0
    BY <1>2, <1>4, <2>1
  <2>2. CASE t = 1
    BY <1>2, <1>4, <2>2
  <2> QED
    BY <1>5, <2>1, <2>2
<1> HIDE DEF m, u
<1>9. e % m = u
  <2>1. e \in Int /\ k \in Int
    BY <1>1, <1>5
  <2> QED
    BY <1>6, <1>7, <2>1, Unique
<1> QED
  BY <1>2, <1>3, <1>8, <1>9 DEF m, r, d

\* The repeated squares of a base ...
Squares(square, a) ==
    square = [i \in 0 .. Bits |->
                 IF i = 0 THEN a
                 ELSE LET root == square[i - 1] IN Unsigned(root * root)]

\* ... are its powers by powers of two.
LEMMA SquaresArePowers ==
    ASSUME NEW a \in Word
    PROVE  /\ \E square : Squares(square, a)
           /\ \A square : Squares(square, a) =>
                  \A i \in 0 .. Bits : square[i] = WrappingPow(a, 2^i)
<1>1. WrappingPow(a, 2^0) = a
  <2>1. WrappingPow(a, 0) = 1 /\ WrappingPow(a, 0 + 1) = (a * WrappingPow(a, 0)) % Modulus
    BY WrappingPowFacts
  <2>2. a \in Nat /\ a < Modulus /\ Modulus \in Nat \ {0}
    BY ModulusFacts
  <2>3. (a * 1) % Modulus = a
    <3>1. a * 1 = a
      BY <2>2
    <3> QED
      BY <2>2, <3>1, Small
  <2> QED
    BY <2>1, <2>3, PowersAssumption
<1>2. ASSUME NEW i \in 1 .. Bits
      PROVE  WrappingPow(a, 2^i) = Unsigned(WrappingPow(a, 2^(i - 1)) * WrappingPow(a, 2^(i - 1)))
  <2> DEFINE p == 2^(i - 1)
  <2>1. p \in Nat /\ 2^i = 2 * p
    <3>1. i - 1 \in 0 .. Bits
      BY BitsFacts
    <3> QED
      BY <3>1, PowTwo, PowStep
  <2> HIDE DEF p
  <2>2. 2 * p = p + p
    BY <2>1
  <2>3. WrappingPow(a, p + p) = (WrappingPow(a, p) * WrappingPow(a, p)) % Modulus
    BY <2>1, PowerOfSum
  <2> QED
    BY <2>1, <2>2, <2>3 DEF p, Unsigned
<1>3. \E square : Squares(square, a)
  <2> DEFINE f == [i \in 0 .. Bits |-> WrappingPow(a, 2^i)]
  <2>1. ASSUME NEW i \in 0 .. Bits
        PROVE  f[i] = IF i = 0 THEN a ELSE LET root == f[i - 1] IN Unsigned(root * root)
    <3>1. i # 0 => i \in 1 .. Bits /\ f[i - 1] = WrappingPow(a, 2^(i - 1))
      BY BitsFacts
    <3> QED
      BY <1>1, <1>2, <3>1
  <2>2. f = [i \in 0 .. Bits |-> f[i]]
    OBVIOUS
  <2> HIDE DEF f
  <2>3. Squares(f, a)
    BY <2>1, <2>2 DEF Squares
  <2> QED
    BY <2>3
<1>4. ASSUME NEW square, Squares(square, a)
      PROVE  \A i \in 0 .. Bits : square[i] = WrappingPow(a, 2^i)
  <2> DEFINE T == {i \in 0 .. Bits : square[i] = WrappingPow(a, 2^i)}
  <2>1. \A i \in 0 .. Bits :
            square[i] = IF i = 0 THEN a ELSE Unsigned(square[i - 1] * square[i - 1])
    BY <1>4 DEF Squares
  <2>2. 0 \in T
    BY <1>1, <2>1, BitsFacts
  <2>3. ASSUME NEW i \in 1 .. Bits, i - 1 \in T
        PROVE  i \in T
    <3>1. square[i - 1] = WrappingPow(a, 2^(i - 1)) /\ i \in 0 .. Bits /\ i # 0
      BY <2>3, BitsFacts
    <3>2. square[i] = Unsigned(square[i - 1] * square[i - 1])
      BY <2>1, <3>1
    <3>3. square[i] = WrappingPow(a, 2^i)
      BY <1>2, <3>1, <3>2
    <3> QED
      BY <3>1, <3>3
  <2> HIDE DEF T
  <2>4. \A i \in 0 .. Bits : i \in T
    BY <2>2, <2>3, UpTo, BitsFacts
  <2> QED
    BY <2>4 DEF T
<1> QED
  BY <1>3, <1>4

\* The products of the squares that the bits of an exponent select ...
Selected(product, square, e) ==
    product = [i \in 0 .. Bits |->
                  IF i = 0 THEN 1
                  ELSE IF i - 1 \in BitsOf(e)
                  THEN Unsigned(product[i - 1] * square[i - 1])
                  ELSE product[i - 1]]

\* ... are the powers by what these bits make.
LEMMA ProductsArePowers ==
    ASSUME NEW a \in Word, NEW e \in Word,
           NEW square, \A i \in 0 .. Bits : square[i] = WrappingPow(a, 2^i)
    PROVE  /\ \E product : Selected(product, square, e)
           /\ \A product : Selected(product, square, e) =>
                  \A i \in 0 .. Bits : product[i] = WrappingPow(a, e % 2^i)
<1> DEFINE P(i) == WrappingPow(a, e % 2^i)
<1>1. P(0) = 1
  <2>1. e \in Nat
    BY ModulusFacts
  <2>2. e % 1 = 0
    BY <2>1
  <2> QED
    BY <2>2, PowersAssumption, WrappingPowFacts
<1>2. ASSUME NEW i \in 1 .. Bits
      PROVE  P(i) = IF i - 1 \in BitsOf(e) THEN Unsigned(P(i - 1) * square[i - 1]) ELSE P(i - 1)
  <2> DEFINE d == 2^(i - 1)
             r == e % d
  <2>1. i - 1 \in 0 .. Bits /\ e \in Nat
    BY BitsFacts, ModulusFacts
  <2>2. square[i - 1] = WrappingPow(a, d)
    BY <2>1
  <2>3. d \in Nat \ {0}
    BY <2>1, PowTwo
  <2>4. e % 2^i = r + (IF i - 1 \in BitsOf(e) THEN d ELSE 0) /\ P(i - 1) = WrappingPow(a, r)
    BY NextBit
  <2> HIDE DEF d
  <2>5. r \in 0 .. d - 1
    BY <2>1, <2>3, DivisionNat
  <2> HIDE DEF r
  <2>6. r \in Nat /\ d \in Nat
    BY <2>3, <2>5
  <2>7. CASE i - 1 \in BitsOf(e)
    <3>1. P(i) = WrappingPow(a, r + d)
      BY <2>4, <2>7
    <3>2. WrappingPow(a, r + d) = (WrappingPow(a, r) * WrappingPow(a, d)) % Modulus
      BY <2>6, PowerOfSum
    <3> HIDE DEF P
    <3> QED
      BY <2>2, <2>4, <2>7, <3>1, <3>2 DEF Unsigned
  <2>8. CASE ~(i - 1 \in BitsOf(e))
    <3>1. r + 0 = r
      BY <2>6
    <3>2. P(i) = WrappingPow(a, r)
      BY <2>4, <2>8, <3>1
    <3> HIDE DEF P
    <3> QED
      BY <2>4, <2>8, <3>2
  <2> QED
    BY <2>7, <2>8
<1>3. \E product : Selected(product, square, e)
  <2> DEFINE f == [i \in 0 .. Bits |-> P(i)]
  <2> HIDE DEF P
  <2>1. ASSUME NEW i \in 0 .. Bits
        PROVE  f[i] = IF i = 0 THEN 1
                      ELSE IF i - 1 \in BitsOf(e) THEN Unsigned(f[i - 1] * square[i - 1])
                      ELSE f[i - 1]
    <3>1. f[i] = P(i)
      OBVIOUS
    <3>2. i # 0 => i \in 1 .. Bits /\ f[i - 1] = P(i - 1)
      BY BitsFacts
    <3> QED
      BY <1>1, <1>2, <3>1, <3>2
  <2>2. f = [i \in 0 .. Bits |-> f[i]]
    OBVIOUS
  <2> HIDE DEF f
  <2>3. Selected(f, square, e)
    BY <2>1, <2>2 DEF Selected
  <2> QED
    BY <2>3
<1> HIDE DEF P
<1>4. ASSUME NEW product, Selected(product, square, e)
      PROVE  \A i \in 0 .. Bits : product[i] = P(i)
  <2> DEFINE T == {i \in 0 .. Bits : product[i] = P(i)}
  <2>1. \A i \in 0 .. Bits :
            product[i] = IF i = 0 THEN 1
                         ELSE IF i - 1 \in BitsOf(e) THEN Unsigned(product[i - 1] * square[i - 1])
                         ELSE product[i - 1]
    BY <1>4 DEF Selected
  <2>2. 0 \in T
    BY <1>1, <2>1, BitsFacts
  <2>3. ASSUME NEW i \in 1 .. Bits, i - 1 \in T
        PROVE  i \in T
    <3>1. product[i - 1] = P(i - 1) /\ i \in 0 .. Bits /\ i # 0
      BY <2>3, BitsFacts
    <3>2. product[i] = IF i - 1 \in BitsOf(e) THEN Unsigned(product[i - 1] * square[i - 1])
                       ELSE product[i - 1]
      BY <2>1, <3>1
    <3>3. product[i] = P(i)
      BY <1>2, <3>1, <3>2
    <3> QED
      BY <3>1, <3>3
  <2> HIDE DEF T
  <2>4. \A i \in 0 .. Bits : i \in T
    BY <2>2, <2>3, UpTo, BitsFacts
  <2> QED
    BY <2>4 DEF T
<1> QED
  BY <1>3, <1>4 DEF P

-------------------------------------------------------------------------------
(* What the instructions push.                                                 *)

\* The arms of Compute that the properties are about.
LEMMA Computations ==
    ASSUME NEW args
    PROVE  LET a == args[1]
               b == args[2]
               n == args[3]
           IN  /\ Compute("SDIV", args)   = IF b = 0 THEN 0 ELSE SignedDiv(a, b)
               /\ Compute("SMOD", args)   = IF b = 0 THEN 0 ELSE SignedRem(a, b)
               /\ Compute("ADDMOD", args) = IF n = 0 THEN 0 ELSE AddMod(a, b, n)
               /\ Compute("MULMOD", args) = IF n = 0 THEN 0 ELSE MulMod(a, b, n)
               /\ Compute("EXP", args)    = BigPow(a, b)
               /\ Compute("SIGNEXTEND", args) = SignExtend(a, b)
               /\ Compute("SLT", args)    = Bool(SignedLess(a, b))
               /\ Compute("SGT", args)    = Bool(SignedLess(b, a))
               /\ Compute("EQ", args)     = Bool(a = b)
               /\ Compute("BYTE", args)   = ByteOf(a, b)
               /\ Compute("SHL", args)    = Shl(a, b)
               /\ Compute("SHR", args)    = Shr(a, b)
               /\ Compute("SAR", args)    = Sar(a, b)
<1>1. /\ Compute("SDIV", args) = IF args[2] = 0 THEN 0 ELSE SignedDiv(args[1], args[2])
      /\ Compute("SMOD", args) = IF args[2] = 0 THEN 0 ELSE SignedRem(args[1], args[2])
  BY DEF Compute
<1>2. /\ Compute("ADDMOD", args) = IF args[3] = 0 THEN 0 ELSE AddMod(args[1], args[2], args[3])
      /\ Compute("MULMOD", args) = IF args[3] = 0 THEN 0 ELSE MulMod(args[1], args[2], args[3])
  BY DEF Compute
<1>3. /\ Compute("EXP", args) = BigPow(args[1], args[2])
      /\ Compute("SIGNEXTEND", args) = SignExtend(args[1], args[2])
      /\ Compute("BYTE", args) = ByteOf(args[1], args[2])
  BY DEF Compute
<1>4. /\ Compute("SLT", args) = Bool(SignedLess(args[1], args[2]))
      /\ Compute("SGT", args) = Bool(SignedLess(args[2], args[1]))
      /\ Compute("EQ", args) = Bool(args[1] = args[2])
  BY DEF Compute
<1>5. /\ Compute("SHL", args) = Shl(args[1], args[2])
      /\ Compute("SHR", args) = Shr(args[1], args[2])
      /\ Compute("SAR", args) = Sar(args[1], args[2])
  BY DEF Compute
<1> QED
  BY <1>1, <1>2, <1>3, <1>4, <1>5

\* Shifts by any word.
LEMMA ShiftFacts ==
    ASSUME NEW s \in Word, NEW a \in Word
    PROVE  /\ Shl(s, a) \in Word /\ Shr(s, a) \in Word /\ Sar(s, a) \in Word
           /\ BitsOf(Shl(s, a)) = {i + s : i \in BitsOf(a)} \cap (0 .. Bits - 1)
           /\ BitsOf(Shr(s, a)) = {i - s : i \in BitsOf(a)} \cap Nat
           /\ Signed(Sar(s, a)) = (IF s < Bits THEN Signed(a) \div 2^s
                                   ELSE IF Signed(a) < 0 THEN -1 ELSE 0)
<1>1. s \in Nat /\ a \in 0 .. Modulus - 1 /\ Modulus = 2 * Half /\ Half \in Nat /\ Half >= 128
  BY ModulusFacts
<1>2. CASE s < Bits
  <2>1. s \in 0 .. Bits - 1 /\ s \in 0 .. Bits
    BY <1>1, <1>2, BitsFacts
  <2>2. Shl(s, a) = ShiftLeft(a, s) /\ Shr(s, a) = ShiftRight(a, s)
    BY <1>2 DEF Shl, Shr
  <2>3. ShiftLeft(a, s) \in Word /\ ShiftRight(a, s) \in Word
    BY <2>1, LeftIsWord, RightIsWord
  <2>4. BitsOf(ShiftLeft(a, s)) = {i + s : i \in BitsOf(a)} \cap (0 .. Bits - 1)
    BY <2>1, LeftBits
  <2>5. BitsOf(ShiftRight(a, s)) = {i - s : i \in BitsOf(a)} \cap Nat
    BY <2>1, RightBits
  <2>6. Sar(s, a) \in Word /\ Signed(Sar(s, a)) = Signed(a) \div 2^s
    BY <2>1, SarDivides
  <2> QED
    BY <1>2, <2>2, <2>3, <2>4, <2>5, <2>6
<1>3. CASE ~(s < Bits)
  <2>1. Shl(s, a) = 0 /\ Shr(s, a) = 0 /\ BitsOf(0) = {}
    BY <1>3, NoBits DEF Shl, Shr
  <2>2. \A i \in BitsOf(a) : i \in Nat /\ i < Bits /\ i + s \notin 0 .. Bits - 1 /\ i - s \notin Nat
    BY <1>1, <1>3, BitsFacts DEF BitsOf
  <2>3. {i + s : i \in BitsOf(a)} \cap (0 .. Bits - 1) = {} /\ {i - s : i \in BitsOf(a)} \cap Nat = {}
    BY <2>2
  <2>4. s # 0 /\ s >= Bits
    BY <1>1, <1>3, BitsFacts
  <2>5. Sar(s, a) = IF IsNeg(a) THEN Largest ELSE 0
    BY <2>1, <2>4 DEF Sar
  <2>6. Largest = Modulus - 1
    BY ModulusFacts
  <2>7. /\ Signed(Largest) = -1 /\ Signed(0) = 0 /\ Largest \in Word /\ 0 \in Word
        /\ Signed(a) < 0 <=> IsNeg(a)
    BY <1>1, <2>6, ModulusFacts DEF Signed, IsNeg
  <2> QED
    BY <1>3, <2>1, <2>3, <2>5, <2>7
<1> QED
  BY <1>2, <1>3

\* Every instruction pushes a word.
LEMMA ComputedWord ==
    ASSUME NEW op \in AllOperations, NEW args, args[1] \in Word,
           op \notin {"ISZERO", "NOT"} => args[2] \in Word,
           op \in {"ADDMOD", "MULMOD"} => args[3] \in Word
    PROVE  Compute(op, args) \in Word
<1> DEFINE a == args[1]
           b == args[2]
           n == args[3]
<1>1. Modulus \in Nat \ {0} /\ Modulus >= 256 /\ Word = 0 .. Modulus - 1 /\ Largest = Modulus - 1
  BY ModulusFacts
<1>2. a \in Word /\ a \in Nat /\ 0 \in Word
  BY <1>1
<1>3. op \notin {"ISZERO", "NOT"} => b \in Word /\ b \in Nat
  BY <1>1
<1>4. \A p : Bool(p) \in Word
  BY <1>1 DEF Bool
<1> HIDE DEF a, b, n
<1>5. CASE op \in {"ADD", "MUL", "SUB"}
  <2>1. a + b \in Int /\ a * b \in Int /\ a - b \in Int
    BY <1>2, <1>3, <1>5
  <2>2. \A x \in Int : x % Modulus \in Word
    BY <1>1, Division
  <2>3. /\ op = "ADD" => Compute(op, args) = (a + b) % Modulus
        /\ op = "MUL" => Compute(op, args) = (a * b) % Modulus
        /\ op = "SUB" => Compute(op, args) = (a - b) % Modulus
    BY DEF Compute, a, b
  <2> QED
    BY <1>5, <2>1, <2>2, <2>3
<1>6. CASE op \in {"DIV", "MOD"}
  <2>1. /\ op = "DIV" => Compute(op, args) = IF b = 0 THEN 0 ELSE a \div b
        /\ op = "MOD" => Compute(op, args) = IF b = 0 THEN 0 ELSE a % b
    BY DEF Compute, a, b
  <2>2. b # 0 => a \div b \in Word /\ a % b \in Word
    <3>1. SUFFICES ASSUME b # 0
                   PROVE  a \div b \in Word /\ a % b \in Word
      OBVIOUS
    <3>2. b \in Nat \ {0} /\ b \in Word
      BY <1>3, <1>6, <3>1
    <3> DEFINE q == a \div b
               r == a % b
    <3>3. q \in Nat /\ r \in 0 .. b - 1 /\ b * q <= a
      BY <1>2, <3>2, DivisionNat
    <3> HIDE DEF q, r
    <3>4. b - 1 \in Nat /\ b * q = (b - 1) * q + q
      BY <3>2, <3>3
    <3>5. (b - 1) * q \in Nat
      BY <3>3, <3>4
    <3>6. q <= a
      BY <1>2, <3>3, <3>4, <3>5
    <3>7. q \in Word /\ r \in Word
      BY <1>1, <1>2, <3>2, <3>3, <3>6
    <3> QED
      BY <3>7 DEF q, r
  <2> QED
    BY <1>2, <1>6, <2>1, <2>2
<1>7. CASE op \in {"SDIV", "SMOD"}
  <2>1. /\ op = "SDIV" => Compute(op, args) = IF b = 0 THEN 0 ELSE SignedDiv(a, b)
        /\ op = "SMOD" => Compute(op, args) = IF b = 0 THEN 0 ELSE SignedRem(a, b)
    BY Computations DEF a, b
  <2>2. b # 0 => SignedDiv(a, b) \in Word /\ SignedRem(a, b) \in Word
    BY <1>2, <1>3, <1>7, SignedQuotient
  <2> QED
    BY <1>2, <1>7, <2>1, <2>2
<1>8. CASE op \in {"ADDMOD", "MULMOD"}
  <2>1. /\ op = "ADDMOD" => Compute(op, args) = IF n = 0 THEN 0 ELSE AddMod(a, b, n)
        /\ op = "MULMOD" => Compute(op, args) = IF n = 0 THEN 0 ELSE MulMod(a, b, n)
    BY Computations DEF a, b, n
  <2>2. n \in Word /\ b \in Word
    BY <1>3, <1>8 DEF n
  <2>3. n # 0 => AddMod(a, b, n) \in Word /\ MulMod(a, b, n) \in Word
    BY <1>2, <2>2, ModularExact
  <2> QED
    BY <1>2, <1>8, <2>1, <2>3
<1>9. CASE op \in {"EXP", "SIGNEXTEND", "BYTE", "SHL", "SHR", "SAR"}
  <2>1. /\ op = "EXP"        => Compute(op, args) = BigPow(a, b)
        /\ op = "SIGNEXTEND" => Compute(op, args) = SignExtend(a, b)
        /\ op = "BYTE"       => Compute(op, args) = ByteOf(a, b)
        /\ op = "SHL"        => Compute(op, args) = Shl(a, b)
        /\ op = "SHR"        => Compute(op, args) = Shr(a, b)
        /\ op = "SAR"        => Compute(op, args) = Sar(a, b)
    BY Computations DEF a, b
  <2>2. b \in Word /\ b \in Nat
    BY <1>3, <1>9
  <2>3. BigPow(a, b) \in Word /\ SignExtend(a, b) \in Word /\ ByteOf(a, b) \in Word
    BY <1>2, <2>2, BigPowIsPower, ExtendedWidth, ByteDigit
  <2>4. Shl(a, b) \in Word /\ Shr(a, b) \in Word /\ Sar(a, b) \in Word
    BY <1>2, <2>2, ShiftFacts
  <2> QED
    BY <1>9, <2>1, <2>3, <2>4
<1>10. CASE op \in {"LT", "GT", "SLT", "SGT", "EQ", "ISZERO"}
  <2>1. /\ op = "LT"     => Compute(op, args) = Bool(a < b)
        /\ op = "GT"     => Compute(op, args) = Bool(a > b)
        /\ op = "SLT"    => Compute(op, args) = Bool(SignedLess(a, b))
    BY DEF Compute, a, b
  <2>2. /\ op = "SGT"    => Compute(op, args) = Bool(SignedLess(b, a))
        /\ op = "EQ"     => Compute(op, args) = Bool(a = b)
        /\ op = "ISZERO" => Compute(op, args) = Bool(a = 0)
    BY DEF Compute, a, b
  <2> QED
    BY <1>4, <1>10, <2>1, <2>2
<1>11. CASE op \in {"AND", "OR", "XOR"}
  <2>1. /\ op = "AND" => Compute(op, args) = And(a, b)
        /\ op = "OR"  => Compute(op, args) = Or(a, b)
        /\ op = "XOR" => Compute(op, args) = Xor(a, b)
    BY DEF Compute, a, b
  <2>2. And(a, b) \in Word /\ Or(a, b) \in Word /\ Xor(a, b) \in Word
    BY WithBitsIsWord DEF And, Or, Xor
  <2> QED
    BY <1>11, <2>1, <2>2
<1>12. CASE op = "NOT"
  <2>1. Compute(op, args) = Largest - a
    BY <1>12 DEF Compute, a
  <2> QED
    BY <1>1, <1>2, <2>1
<1> QED
  BY <1>5, <1>6, <1>7, <1>8, <1>9, <1>10, <1>11, <1>12 DEF AllOperations

-------------------------------------------------------------------------------
(* The specification.                                                          *)

\* What an evaluation leaves: nothing yet, or what each instruction computes.
Computing ==
    /\ operands \in Operands
    /\ pushed = <<>> \/ pushed = [op \in Operations |-> Compute(op, operands)]

\* Computing is an invariant.
LEMMA AlwaysComputing == WordsSpec => []Computing
<1>1. WordsInit => Computing
  BY DEF WordsInit, Computing
<1>2. Computing /\ [Evaluate]_<<operands, pushed>> => Computing'
  BY DEF Computing, Evaluate
<1> QED
  BY <1>1, <1>2, PTL DEF WordsSpec

\* The operands are words; what has been pushed is what Compute says.
LEMMA PushedComputed ==
    ASSUME Computing
    PROVE  /\ Top \in Word /\ Second \in Word /\ Third \in Word
           /\ operands \in [1 .. 3 -> 0 .. Largest]
           /\ \A op \in DOMAIN pushed :
                  op \in AllOperations /\ pushed[op] = Compute(op, operands)
<1>1. operands \in [1 .. 3 -> 0 .. Largest]
  BY OperandsAssumption DEF Computing
<1>2. Top \in Word /\ Second \in Word /\ Third \in Word
  BY <1>1 DEF Top, Second, Third, Word
<1>3. CASE pushed = <<>>
  <2>1. DOMAIN pushed = {}
    BY <1>3
  <2> QED
    BY <1>1, <1>2, <2>1
<1>4. CASE pushed = [op \in Operations |-> Compute(op, operands)]
  <2>1. DOMAIN pushed = Operations /\ \A op \in Operations : pushed[op] = Compute(op, operands)
    BY <1>4
  <2> QED
    BY <1>1, <1>2, <2>1, OperationsAssumption
<1> QED
  BY <1>3, <1>4 DEF Computing

\* No instruction leaves the words: neither wrapping_add nor any other wraps anywhere but
\* at 2^256.
THEOREM WordsAlwaysTyped == WordsSpec => []WordsTyped
<1>1. Computing => WordsTyped
  <2>1. SUFFICES ASSUME Computing
                 PROVE  WordsTyped
    OBVIOUS
  <2>2. ASSUME NEW op \in DOMAIN pushed
        PROVE  pushed[op] \in 0 .. Largest
    <3>1. operands[1] \in Word /\ operands[2] \in Word /\ operands[3] \in Word
      BY <2>1, PushedComputed DEF Top, Second, Third
    <3>2. op \in AllOperations /\ pushed[op] = Compute(op, operands)
      BY <2>1, PushedComputed
    <3> QED
      BY <3>1, <3>2, ComputedWord DEF Word
  <2>3. operands \in [1 .. 3 -> 0 .. Largest]
    BY <2>1, PushedComputed
  <2> QED
    BY <2>2, <2>3 DEF WordsTyped
<1> QED
  BY <1>1, AlwaysComputing, PTL

\* SDIV and SMOD divide towards zero, on every pair of words.
THEOREM SignedDivisionAlways == WordsSpec => []SignedDivision
<1>1. Computing => SignedDivision
  <2>1. SUFFICES ASSUME Computing, Done({"SDIV", "SMOD"}), Second # 0
                 PROVE  SignedDivision
    BY DEF SignedDivision
  <2>2. Top \in Word /\ Second \in Word
    BY <2>1, PushedComputed
  <2>3. /\ pushed["SDIV"] = SignedDiv(Top, Second)
        /\ pushed["SMOD"] = SignedRem(Top, Second)
    <3>1. "SDIV" \in DOMAIN pushed /\ "SMOD" \in DOMAIN pushed
      BY <2>1 DEF Done
    <3>2. /\ pushed["SDIV"] = Compute("SDIV", operands)
          /\ pushed["SMOD"] = Compute("SMOD", operands)
      BY <2>1, <3>1, PushedComputed
    <3> QED
      BY <2>1, <3>2, Computations DEF Top, Second
  <2>4. LET q == Signed(SignedDiv(Top, Second))
            r == Signed(SignedRem(Top, Second))
        IN  /\ Magnitude(r) < Magnitude(Signed(Second))
            /\ r # 0 => (r < 0) = (Signed(Top) < 0)
            /\ IF Signed(Top) = -Half /\ Signed(Second) = -1 THEN q = Signed(Top)
               ELSE q * Signed(Second) + r = Signed(Top)
    BY <2>1, <2>2, SignedQuotient
  <2> QED
    BY <2>3, <2>4 DEF SignedDivision
<1> QED
  BY <1>1, AlwaysComputing, PTL

\* SLT and SGT order all words as signed numbers.
THEOREM SignedOrderAlways == WordsSpec => []SignedOrder
<1>1. Computing => SignedOrder
  <2>1. SUFFICES ASSUME Computing, Done({"SLT", "SGT", "EQ"})
                 PROVE  SignedOrder
    BY DEF SignedOrder
  <2>2. Top \in Word /\ Second \in Word
    BY <2>1, PushedComputed
  <2>3. /\ pushed["SLT"] = Bool(SignedLess(Top, Second))
        /\ pushed["SGT"] = Bool(SignedLess(Second, Top))
        /\ pushed["EQ"] = Bool(Top = Second)
    <3>1. "SLT" \in DOMAIN pushed /\ "SGT" \in DOMAIN pushed /\ "EQ" \in DOMAIN pushed
      BY <2>1 DEF Done
    <3>2. /\ pushed["SLT"] = Compute("SLT", operands)
          /\ pushed["SGT"] = Compute("SGT", operands)
          /\ pushed["EQ"] = Compute("EQ", operands)
      BY <2>1, <3>1, PushedComputed
    <3> QED
      BY <3>2, Computations DEF Top, Second
  <2>4. /\ SignedLess(Top, Second) <=> Signed(Top) < Signed(Second)
        /\ SignedLess(Second, Top) <=> Signed(Second) < Signed(Top)
        /\ Top = Second <=> Signed(Top) = Signed(Second)
    BY <2>2, SignedCompared
  <2>5. Signed(Top) \in Int /\ Signed(Second) \in Int
    BY <2>2, ModulusFacts DEF Signed
  <2> QED
    BY <2>3, <2>4, <2>5 DEF SignedOrder, Bool
<1> QED
  BY <1>1, AlwaysComputing, PTL

\* ADDMOD and MULMOD are exact whenever what they reduce fits in a word.
THEOREM ModularArithmeticAlways == WordsSpec => []ModularArithmetic
<1>1. Computing => ModularArithmetic
  <2>1. SUFFICES ASSUME Computing, Done({"ADDMOD", "MULMOD"}), Third # 0
                 PROVE  ModularArithmetic
    BY DEF ModularArithmetic
  <2>2. Top \in Word /\ Second \in Word /\ Third \in Word
    BY <2>1, PushedComputed
  <2>3. /\ pushed["ADDMOD"] = AddMod(Top, Second, Third)
        /\ pushed["MULMOD"] = MulMod(Top, Second, Third)
    <3>1. "ADDMOD" \in DOMAIN pushed /\ "MULMOD" \in DOMAIN pushed
      BY <2>1 DEF Done
    <3>2. /\ pushed["ADDMOD"] = Compute("ADDMOD", operands)
          /\ pushed["MULMOD"] = Compute("MULMOD", operands)
      BY <2>1, <3>1, PushedComputed
    <3> QED
      BY <2>1, <3>2, Computations DEF Top, Second, Third
  <2>4. /\ (Top % Third) + (Second % Third) < Modulus
              => AddMod(Top, Second, Third) = (Top + Second) % Third
        /\ (Top % Third) * (Second % Third) < Modulus
              => MulMod(Top, Second, Third) = (Top * Second) % Third
    BY <2>1, <2>2, ModularExact
  <2> QED
    BY <2>3, <2>4 DEF ModularArithmetic
<1> QED
  BY <1>1, AlwaysComputing, PTL

\* SHL, SHR and SAR shift words of any size, by any word.
THEOREM ShiftsAlways == WordsSpec => []Shifts
<1>1. Computing => Shifts
  <2>1. SUFFICES ASSUME Computing, Done({"SHL", "SHR", "SAR"})
                 PROVE  Shifts
    BY DEF Shifts
  <2>2. Top \in Word /\ Second \in Word
    BY <2>1, PushedComputed
  <2>3. /\ pushed["SHL"] = Shl(Top, Second)
        /\ pushed["SHR"] = Shr(Top, Second)
        /\ pushed["SAR"] = Sar(Top, Second)
    <3>1. "SHL" \in DOMAIN pushed /\ "SHR" \in DOMAIN pushed /\ "SAR" \in DOMAIN pushed
      BY <2>1 DEF Done
    <3>2. /\ pushed["SHL"] = Compute("SHL", operands)
          /\ pushed["SHR"] = Compute("SHR", operands)
          /\ pushed["SAR"] = Compute("SAR", operands)
      BY <2>1, <3>1, PushedComputed
    <3> QED
      BY <3>2, Computations DEF Top, Second
  <2>4. /\ BitsOf(Shl(Top, Second)) = {i + Top : i \in BitsOf(Second)} \cap (0 .. Bits - 1)
        /\ BitsOf(Shr(Top, Second)) = {i - Top : i \in BitsOf(Second)} \cap Nat
        /\ Signed(Sar(Top, Second)) = (IF Top < Bits THEN Signed(Second) \div 2^Top
                                       ELSE IF Signed(Second) < 0 THEN -1 ELSE 0)
    BY <2>2, ShiftFacts
  <2> QED
    BY <2>3, <2>4 DEF Shifts
<1> QED
  BY <1>1, AlwaysComputing, PTL

\* BYTE and SIGNEXTEND, on words of more than one byte.
THEOREM BytesAlways ==
    ASSUME WordBytes > 1
    PROVE  WordsSpec => []Bytes
<1>1. Computing => Bytes
  <2>1. SUFFICES ASSUME Computing, Done({"BYTE"})
                 PROVE  Bytes
    BY DEF Bytes
  <2>2. Top \in Word /\ Second \in Word
    BY <2>1, PushedComputed
  <2>3. pushed["BYTE"] =
            (IF Top < WordBytes THEN (Second \div 256^(WordBytes - 1 - Top)) % 256 ELSE 0)
    <3>1. "BYTE" \in DOMAIN pushed
      BY <2>1 DEF Done
    <3>2. pushed["BYTE"] = Compute("BYTE", operands)
      BY <2>1, <3>1, PushedComputed
    <3>3. pushed["BYTE"] = ByteOf(Top, Second)
      BY <3>2, Computations DEF Top, Second
    <3> QED
      BY <2>2, <3>3, ByteDigit
  <2>4. ASSUME Done({"SIGNEXTEND"})
        PROVE  pushed["SIGNEXTEND"] = SignExtend(Top, Second)
    <3>1. "SIGNEXTEND" \in DOMAIN pushed
      BY <2>4 DEF Done
    <3>2. pushed["SIGNEXTEND"] = Compute("SIGNEXTEND", operands)
      BY <2>1, <3>1, PushedComputed
    <3> QED
      BY <3>2, Computations DEF Top, Second
  <2>5. LET width == 8 * (IF Top < WordBytes - 1 THEN Top + 1 ELSE WordBytes - 1)
        IN  /\ Signed(SignExtend(Top, Second)) \in -(2^(width - 1)) .. 2^(width - 1) - 1
            /\ (SignExtend(Top, Second) - Second) % 2^width = 0
    BY <2>2, ExtendedWidth
  <2> QED
    BY <2>3, <2>4, <2>5 DEF Bytes
<1> QED
  BY <1>1, AlwaysComputing, PTL

\* EXP is exponentiation by squaring, although wrapping_big_pow takes the exponent apart
\* by the limit of wrapping_pow.
THEOREM PowersAlways == WordsSpec => []Powers
<1>1. Computing => Powers
  <2>1. SUFFICES ASSUME Computing, Done({"EXP"})
                 PROVE  Powers
    BY DEF Powers
  <2>2. Top \in Word /\ Second \in Word /\ Second \in Nat /\ Second < Modulus
    BY <2>1, PushedComputed, ModulusFacts
  <2>3. pushed["EXP"] = WrappingPow(Top, Second)
    <3>1. "EXP" \in DOMAIN pushed
      BY <2>1 DEF Done
    <3>2. pushed["EXP"] = Compute("EXP", operands)
      BY <2>1, <3>1, PushedComputed
    <3>3. pushed["EXP"] = BigPow(Top, Second)
      BY <3>2, Computations DEF Top, Second
    <3> QED
      BY <2>2, <3>3, BigPowIsPower
  <2> DEFINE square == CHOOSE f : Squares(f, Top)
             product == CHOOSE f : Selected(f, square, Second)
  <2>4. pushed["EXP"] = product[Bits] => Powers
    BY DEF Powers, Squares, Selected
  <2>5. Squares(square, Top)
    BY <2>2, SquaresArePowers
  <2> HIDE DEF square
  <2>6. \A i \in 0 .. Bits : square[i] = WrappingPow(Top, 2^i)
    BY <2>2, <2>5, SquaresArePowers
  <2>7. Selected(product, square, Second)
    BY <2>2, <2>6, ProductsArePowers
  <2> HIDE DEF product
  <2>8. \A i \in 0 .. Bits : product[i] = WrappingPow(Top, Second % 2^i)
    BY <2>2, <2>6, <2>7, ProductsArePowers
  <2>9. product[Bits] = WrappingPow(Top, Second % Modulus)
    BY <2>8, BitsFacts DEF Modulus
  <2>10. Second % Modulus = Second
    BY <2>2, ModulusFacts, Small
  <2> QED
    BY <2>3, <2>4, <2>9, <2>10
<1> QED
  BY <1>1, AlwaysComputing, PTL

-------------------------------------------------------------------------------
(* The machine's arithmetic.                                                   *)

\* The instructions that compute one word from those they pop are those of Compute, and pop
\* at least what Compute reads.
LEMMA AluPops ==
    ASSUME NEW b \in Byte, Mnemonic[b] \in AluOps
    PROVE  /\ Mnemonic[b] \in AllOperations
           /\ 1 \in 1 .. Pops[b]
           /\ Mnemonic[b] \notin {"ISZERO", "NOT"} => 2 \in 1 .. Pops[b]
           /\ Mnemonic[b] \in {"ADDMOD", "MULMOD"} => 3 \in 1 .. Pops[b]
<1>1. AluOps \subseteq AllOperations
  <2>1. DOMAIN Arithmetic = 1 .. 11 /\ DOMAIN Logic = 1 .. 14
    BY DEF Arithmetic, Logic
  <2>2. \A i \in 1 .. 11 : Arithmetic[i] \in AllOperations
    BY DEF Arithmetic, AllOperations
  <2>3. \A i \in 1 .. 14 : Logic[i] \in AllOperations
    BY DEF Logic, AllOperations
  <2> QED
    BY <2>1, <2>2, <2>3 DEF AluOps
<1> DEFINE op == Mnemonic[b]
<1>2. op \in AllOperations /\ op \in AluOps
  BY <1>1
<1>3. Pops[b] = CASE op \in UnaryOps        -> 1
          [] op \in BinaryOps       -> 2
          [] op \in TernaryOps      -> 3
          [] op = "EXTCODECOPY"     -> 4
          [] op \in {"DUP", "SWAP"} -> Arg[b]
          [] op = "LOG"             -> 2 + Arg[b]
          [] OTHER                  -> 0
  BY DEF Pops
<1> HIDE DEF op
<1>4. CASE op \in {"ISZERO", "NOT"}
  <2>1. op \in UnaryOps /\ op \notin BinaryOps /\ op \notin TernaryOps
    BY <1>4 DEF UnaryOps, BinaryOps, TernaryOps
  <2>2. op \notin {"EXTCODECOPY", "DUP", "SWAP", "LOG", "ADDMOD", "MULMOD"}
    BY <1>4
  <2>3. Pops[b] = 1
    BY <1>3, <2>1, <2>2
  <2> QED
    BY <1>2, <1>4, <2>2, <2>3 DEF op
<1>5. CASE op \in {"ADDMOD", "MULMOD"}
  <2>1. op \notin UnaryOps /\ op \notin BinaryOps /\ op \in TernaryOps
    BY <1>5 DEF UnaryOps, BinaryOps, TernaryOps
  <2>2. op \notin {"EXTCODECOPY", "DUP", "SWAP", "LOG"}
    BY <1>5
  <2>3. Pops[b] = 3
    BY <1>3, <2>1, <2>2
  <2> QED
    BY <1>2, <2>3 DEF op
<1>6. CASE op \notin {"ISZERO", "NOT", "ADDMOD", "MULMOD"}
  <2>1. op \notin UnaryOps /\ op \notin TernaryOps
    BY <1>2, <1>6 DEF AllOperations, UnaryOps, TernaryOps
  <2>2. op \in BinaryOps
    BY <1>2, <2>1 DEF BinaryOps
  <2>3. op \notin {"EXTCODECOPY", "DUP", "SWAP", "LOG"}
    BY <1>2 DEF AllOperations
  <2>4. Pops[b] = 2
    BY <1>3, <2>1, <2>2, <2>3
  <2> QED
    BY <1>2, <1>6, <2>4 DEF op
<1> QED
  BY <1>4, <1>5, <1>6

\* Whatever byte of code selects an instruction of instructions.rs that computes, the words
\* it pops give a word: what the theorems on Machine ask of the parameter Alu holds when Alu
\* is Compute.
THEOREM ComputesWords ==
    \A b \in Byte : Mnemonic[b] \in AluOps =>
        \A args \in [1 .. Pops[b] -> Word] : Compute(Mnemonic[b], args) \in Word
<1>1. SUFFICES ASSUME NEW b \in Byte, Mnemonic[b] \in AluOps, NEW args \in [1 .. Pops[b] -> Word]
               PROVE  Compute(Mnemonic[b], args) \in Word
  OBVIOUS
<1> DEFINE op == Mnemonic[b]
<1>2. /\ op \in AllOperations
      /\ 1 \in 1 .. Pops[b]
      /\ op \notin {"ISZERO", "NOT"} => 2 \in 1 .. Pops[b]
      /\ op \in {"ADDMOD", "MULMOD"} => 3 \in 1 .. Pops[b]
  BY <1>1, AluPops
<1> HIDE DEF op
<1>3. /\ args[1] \in Word
      /\ op \notin {"ISZERO", "NOT"} => args[2] \in Word
      /\ op \in {"ADDMOD", "MULMOD"} => args[3] \in Word
  BY <1>2
<1>4. Compute(op, args) \in Word
  BY <1>2, <1>3, ComputedWord
<1> QED
  BY <1>4 DEF op

===============================================================================
