------------------------------- MODULE MCWords ---------------------------------
(***************************************************************************)
(* The arithmetic of module Words against definitions that do not look at  *)
(* how it is computed: on integers, read off two's complement, or on the   *)
(* set of the bits of a word.  A step computes every instruction of        *)
(* `Operations' on the same operands, the first of them on top.            *)
(***************************************************************************)
EXTENDS Words

CONSTANTS
    Operations,  \* the instructions to compute
    Operands     \* the triples of words to compute them on

\* The instructions of Compute.
AllOperations ==
    {"ADD", "MUL", "SUB", "DIV", "SDIV", "MOD", "SMOD", "ADDMOD", "MULMOD", "EXP",
     "SIGNEXTEND", "LT", "GT", "SLT", "SGT", "EQ", "ISZERO", "AND", "OR", "XOR", "NOT",
     "BYTE", "SHL", "SHR", "SAR"}

ASSUME OperationsAssumption == Operations \subseteq AllOperations
ASSUME OperandsAssumption == Operands \subseteq [1 .. 3 -> 0 .. Largest]

VARIABLES
    operands,    \* the words on top of the stack
    pushed       \* what each instruction pushes: nothing yet, or a function

WordsInit == operands \in Operands /\ pushed = <<>>

Evaluate ==
    /\ pushed = <<>>
    /\ pushed' = [op \in Operations |-> Compute(op, operands)]
    /\ UNCHANGED operands

WordsSpec == WordsInit /\ [][Evaluate]_<<operands, pushed>>

-------------------------------------------------------------------------------
(* References. *)

Top    == operands[1]
Second == operands[2]
Third  == operands[3]

Signed(w) == IF w < Half THEN w ELSE w - Modulus
Unsigned(i) == i % Modulus

Magnitude(i) == IF i < 0 THEN -i ELSE i

\* The instructions ops have been computed.
Done(ops) == ops \subseteq DOMAIN pushed

(* Properties. *)

\* What every instruction pushes is a word again: none leaves 0 .. 2^256 - 1, although
\* u256 is a plain number here.
WordsTyped ==
    /\ operands \in [1 .. 3 -> 0 .. Largest]
    /\ \A op \in DOMAIN pushed : pushed[op] \in 0 .. Largest

\* SDIV and SMOD divide towards zero: quotient and remainder give the dividend
\* back, the remainder is smaller than the divisor and has the dividend's sign.
\* Only the least word divided by -1 overflows, to itself.
SignedDivision ==
    Done({"SDIV", "SMOD"}) /\ Second # 0 =>
        LET a == Signed(Top)
            b == Signed(Second)
            q == Signed(pushed["SDIV"])
            r == Signed(pushed["SMOD"])
        IN  /\ Magnitude(r) < Magnitude(b)
            /\ r # 0 => (r < 0) = (a < 0)
            /\ IF a = -Half /\ b = -1 THEN q = a ELSE q * b + r = a

\* SLT and SGT order words as signed numbers, a total order that LT and GT
\* follow on words of the same sign.
SignedOrder ==
    Done({"SLT", "SGT", "EQ"}) =>
        /\ pushed["SLT"] = Bool(Signed(Top) < Signed(Second))
        /\ pushed["SGT"] = Bool(Signed(Top) > Signed(Second))
        /\ pushed["SLT"] + pushed["SGT"] + pushed["EQ"] = 1

\* SHL and SHR move the bits of a word and drop those that leave it; SAR divides
\* a signed word by a power of two, rounding down, for shifts of every size.
Shifts ==
    Done({"SHL", "SHR", "SAR"}) =>
        /\ BitsOf(pushed["SHL"]) = {i + Top : i \in BitsOf(Second)} \cap (0 .. Bits - 1)
        /\ BitsOf(pushed["SHR"]) = {i - Top : i \in BitsOf(Second)} \cap Nat
        /\ Signed(pushed["SAR"]) =
              (IF Top < Bits THEN Signed(Second) \div 2^Top
               ELSE IF Signed(Second) < 0 THEN -1 ELSE 0)

\* BYTE is a digit of the word in base 256, counted from the most significant, and 0
\* past the last; SIGNEXTEND keeps the signed reading of the bytes it is told to keep,
\* which are never all of them: the source caps them one short of the word.
Bytes ==
    Done({"BYTE"}) =>
        /\ pushed["BYTE"] =
              (IF Top < WordBytes THEN (Second \div 256^(WordBytes - 1 - Top)) % 256 ELSE 0)
        /\ Done({"SIGNEXTEND"}) =>
              LET width == 8 * (IF Top < WordBytes - 1 THEN Top + 1 ELSE WordBytes - 1)
              IN  /\ Signed(pushed["SIGNEXTEND"]) \in -(2^(width - 1)) .. 2^(width - 1) - 1
                  /\ (pushed["SIGNEXTEND"] - Second) % 2^width = 0

\* EXP is the product of the repeated squares of the base that the bits of the
\* exponent select, although the source takes the exponent apart otherwise: by
\* quotient and remainder of u32::MAX, again and again.
Powers ==
    Done({"EXP"}) =>
        LET square[i \in 0 .. Bits] ==
                IF i = 0 THEN Top
                ELSE LET root == square[i - 1] IN Unsigned(root * root)
            product[i \in 0 .. Bits] ==
                IF i = 0 THEN 1
                ELSE IF i - 1 \in BitsOf(Second)
                THEN Unsigned(product[i - 1] * square[i - 1])
                ELSE product[i - 1]
        IN  pushed["EXP"] = product[Bits]

\* ADDMOD and MULMOD are exact as long as the sum, or product, of the reduced
\* operands fits in a word: that is what the source computes.
ModularArithmetic ==
    Done({"ADDMOD", "MULMOD"}) /\ Third # 0 =>
        /\ (Top % Third) + (Second % Third) < Modulus =>
              pushed["ADDMOD"] = (Top + Second) % Third
        /\ (Top % Third) * (Second % Third) < Modulus =>
              pushed["MULMOD"] = (Top * Second) % Third

-------------------------------------------------------------------------------
(* Instances. *)

\* Around the powers of two, and their negatives.
Edges(near) ==
    {w \in UNION {(2^i - near) .. (2^i + near) \cup
                  (Modulus - 2^i - near) .. (Modulus - 2^i + near) : i \in 0 .. Bits} :
        w >= 0 /\ w < Modulus}

\* Every pair of one-byte words, and every triple of some.
ByteOperands ==
    {<<a, b, 7>> : a \in 0 .. Largest, b \in 0 .. Largest}
        \cup {<<a, b, n>> : a \in Edges(0), b \in Edges(0), n \in Edges(0)}

ByteOperations == AllOperations

\* Two-byte words: no product fits TLC's integers, but a word has bytes.
PairOperands ==
    {<<a, b, 0>> : a \in Edges(1) \cup 0 .. 20, b \in Edges(1)}

PairOperations ==
    {"SDIV", "SMOD", "SLT", "SGT", "EQ", "BYTE", "SIGNEXTEND", "SHL", "SHR", "SAR"}

===============================================================================
