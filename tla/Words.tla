-------------------------------- MODULE Words ----------------------------------
(***************************************************************************)
(* What the arithmetic and logic instructions compute, with the signed     *)
(* helpers of src/utils.rs, on words of WordBytes bytes (32 in the         *)
(* source).  A word is read as an unsigned number; its signed reading is   *)
(* two's complement.                                                       *)
(***************************************************************************)
EXTENDS Integers, Sequences

CONSTANTS
    WordBytes,
    PowLimit    \* u32::MAX, the largest exponent of wrapping_pow

ASSUME WordsAssumption == WordBytes \in Nat \ {0} /\ PowLimit \in Nat \ {0, 1}

Bits    == 8 * WordBytes
Modulus == 2^Bits
Largest == Modulus - 1
Half    == 2^(Bits - 1)

\* What the proofs need of powers.
ASSUME PowersAssumption ==
    /\ 2^0 = 1 /\ \A i \in 0 .. Bits - 1 : 2^(i + 1) = 2 * 2^i
    /\ 256^0 = 1 /\ \A i \in 0 .. WordBytes - 2 : 256^(i + 1) = 256 * 256^i

\* The bits of a word, counted from the least one, and the word with these bits.
BitsOf(w) == {i \in 0 .. Bits - 1 : (w \div 2^i) % 2 = 1}
WithBits(set) ==
    LET low[n \in 0 .. Bits] ==
            IF n = 0 THEN 0
            ELSE low[n - 1] + (IF n - 1 \in set THEN 2^(n - 1) ELSE 0)
    IN  low[Bits]

And(a, b) == WithBits(BitsOf(a) \cap BitsOf(b))
Or(a, b)  == WithBits(BitsOf(a) \cup BitsOf(b))
Xor(a, b) == WithBits((BitsOf(a) \ BitsOf(b)) \cup (BitsOf(b) \ BitsOf(a)))

Bool(b) == IF b THEN 1 ELSE 0

\* Mutant: the negation of zero does not wrap.
NegUnwrapped(a) == Modulus - a

\* u256::is_neg, wrapping_neg and abs
IsNeg(a) == a >= Half
Neg(a)   == (Modulus - a) % Modulus
Abs(a)   == IF IsNeg(a) THEN Neg(a) ELSE a

ShiftLeft(a, n)  == (a % 2^(Bits - n)) * 2^n
ShiftRight(a, n) == a \div 2^n

-------------------------------------------------------------------------------

SignedDiv(a, b) ==
    LET q == Abs(a) \div Abs(b)
    IN  IF IsNeg(a) # IsNeg(b) THEN Neg(q) ELSE q

\* Mutant: the remainder takes the sign of the quotient.
SignedRemOfQuotient(a, b) ==
    LET r == Abs(a) % Abs(b)
    IN  IF IsNeg(a) # IsNeg(b) THEN Neg(r) ELSE r

SignedRem(a, b) ==
    LET r == Abs(a) % Abs(b)
    IN  IF IsNeg(a) THEN Neg(r) ELSE r

\* Mutant: the factors are not reduced first.
MulModUnreduced(a, b, n) == ((a * b) % Modulus) % n

\* Sums and products wrap before they are reduced.
AddMod(a, b, n) == (((a % n) + (b % n)) % Modulus) % n
MulMod(a, b, n) == (((a % n) * (b % n)) % Modulus) % n

WrappingPow(a, e) ==
    LET pow[i \in 0 .. e] == IF i = 0 THEN 1 ELSE (a * pow[i - 1]) % Modulus
    IN  pow[e]

\* Mutant: the remainder of the exponent is lost.
BigPowOfQuotient(a, e) ==
    IF e <= PowLimit THEN WrappingPow(a, e)
    ELSE WrappingPow(WrappingPow(a, PowLimit), e \div PowLimit)

\* u256::wrapping_big_pow: a^e = (a^PowLimit)^(e / PowLimit) * a^(e % PowLimit)
BigPow(a, e) ==
    LET pow[n \in 0 .. e] ==
            [b \in 0 .. Largest |->
                IF n <= PowLimit THEN WrappingPow(b, n)
                ELSE (pow[n \div PowLimit][WrappingPow(b, PowLimit)]
                         * WrappingPow(b, n % PowLimit)) % Modulus]
    IN  pow[e][a]

\* Mutant: the byte count is off by one.
SignExtendShort(b, x) ==
    LET mask  == 2^(8 * (IF b < WordBytes - 2 THEN b ELSE WordBytes - 2))
        value == x % mask
    IN  IF value >= mask \div 2 THEN Modulus - mask + value ELSE value

\* The byte count is capped one short of the word: the top byte never survives.
SignExtend(b, x) ==
    LET bytes == (IF b < WordBytes - 2 THEN b ELSE WordBytes - 2) + 1
        mask  == 2^(8 * bytes)
        value == x % mask
    IN  IF value >= mask \div 2 THEN Modulus - mask + value ELSE value

\* Mutant: the signs are not looked at.
SignedLessUnsigned(a, b) == a < b

SignedLess(a, b) ==
    IF IsNeg(a) = IsNeg(b) THEN a < b ELSE IsNeg(a)

ByteOf(i, x) ==
    IF i >= WordBytes THEN 0 ELSE ShiftRight(x, 8 * (WordBytes - 1 - i)) % 256

\* A shift that does not fit in a u8 is one of at least all the bits.
Shl(shift, a) == IF shift < Bits THEN ShiftLeft(a, shift) ELSE 0
Shr(shift, a) == IF shift < Bits THEN ShiftRight(a, shift) ELSE 0
\* Mutant: a shift out of the word forgets the sign.
SarForgetful(shift, a) ==
    IF ~IsNeg(a) \/ shift >= Bits THEN Shr(shift, a)
    ELSE IF shift = 0 THEN a
    ELSE Modulus - 2^(Bits - shift) + ShiftRight(a, shift)

\* The high bits and the shifted word have none in common: `|' adds them.
Sar(shift, a) ==
    IF ~IsNeg(a) THEN Shr(shift, a)
    ELSE IF shift = 0 THEN a
    ELSE IF shift >= Bits THEN Largest
    ELSE Modulus - 2^(Bits - shift) + ShiftRight(a, shift)

\* The word that instruction op pushes for the words it has popped.
Compute(op, args) ==
    LET a == args[1]
        b == args[2]
        n == args[3]
    IN  CASE op = "ADD"        -> (a + b) % Modulus
          [] op = "MUL"        -> (a * b) % Modulus
          [] op = "SUB"        -> (a - b) % Modulus
          [] op = "DIV"        -> IF b = 0 THEN 0 ELSE a \div b
          [] op = "SDIV"       -> IF b = 0 THEN 0 ELSE SignedDiv(a, b)
          [] op = "MOD"        -> IF b = 0 THEN 0 ELSE a % b
          [] op = "SMOD"       -> IF b = 0 THEN 0 ELSE SignedRem(a, b)
          [] op = "ADDMOD"     -> IF n = 0 THEN 0 ELSE AddMod(a, b, n)
          [] op = "MULMOD"     -> IF n = 0 THEN 0 ELSE MulMod(a, b, n)
          [] op = "EXP"        -> BigPow(a, b)
          [] op = "SIGNEXTEND" -> SignExtend(a, b)
          [] op = "LT"         -> Bool(a < b)
          [] op = "GT"         -> Bool(a > b)
          [] op = "SLT"        -> Bool(SignedLess(a, b))
          [] op = "SGT"        -> Bool(SignedLess(b, a))
          [] op = "EQ"         -> Bool(a = b)
          [] op = "ISZERO"     -> Bool(a = 0)
          [] op = "AND"        -> And(a, b)
          [] op = "OR"         -> Or(a, b)
          [] op = "XOR"        -> Xor(a, b)
          [] op = "NOT"        -> Largest - a
          [] op = "BYTE"       -> ByteOf(a, b)
          [] op = "SHL"        -> Shl(a, b)
          [] op = "SHR"        -> Shr(a, b)
          [] op = "SAR"        -> Sar(a, b)

===============================================================================
