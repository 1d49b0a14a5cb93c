------------------------------ MODULE TypeProofs ------------------------------
(***************************************************************************)
(* The types of the machine, in every state, when what the instructions    *)
(* compute are words.                                                      *)
(***************************************************************************)
EXTENDS WorldProofs, WellFoundedInduction

-------------------------------------------------------------------------------
(* The program counter.                                                        *)

\* Where an instruction may leave the program counter: where it was, after itself,
\* or at a byte 0x5B.
Advances(next) ==
    \/ next = pc
    \/ /\ pc < Len(code)
       /\ \E n \in Nat \ {0} : Width(code[pc + 1]) = n /\ next = pc + n
    \/ JumpTarget(next)

\* The program counter moves within the same code.
Moves == Advances(pc') /\ UNCHANGED code

\* Beyond the end of the code there are only STOPs.
LEMMA WithinCode ==
    ASSUME NEW ops, Fetch(ops), "STOP" \notin ops
    PROVE  pc < Len(code) /\ Opcode = Mnemonic[code[pc + 1]]
<1>1. Mnemonic[0] = "STOP"
  BY DEF Mnemonic, Byte
<1>2. CodeByte # 0
  BY <1>1 DEF Fetch, Opcode
<1> QED
  BY <1>2 DEF CodeByte, Opcode

\* An instruction other than PUSH is one byte long.
LEMMA NextByte ==
    ASSUME NEW ops, Fetch(ops), "STOP" \notin ops, "PUSH" \notin ops
    PROVE  Advances(pc + 1)
<1>1. pc < Len(code) /\ Opcode = Mnemonic[code[pc + 1]] /\ Opcode # "PUSH"
  BY WithinCode DEF Fetch
<1>2. Width(code[pc + 1]) = 1
  BY <1>1 DEF Width
<1> QED
  BY <1>1, <1>2, 1 \in Nat \ {0} DEF Advances

\* PUSHn is followed by its n bytes.
LEMMA NextPush ==
    ASSUME pc \in Nat, NEW n \in 0 .. 32, Push(n)
    PROVE  Advances(pc + n + 1)
<1>1. pc < Len(code) /\ Opcode = Mnemonic[code[pc + 1]]
  BY WithinCode DEF Push
<1>2. Opcode = "PUSH" /\ Arg[code[pc + 1]] = n
  BY <1>1 DEF Push, Fetch, CodeByte
<1>3. Width(code[pc + 1]) = n + 1 /\ n + 1 \in Nat \ {0}
  BY <1>1, <1>2 DEF Width
<1>4. pc + n + 1 = pc + (n + 1)
  OBVIOUS
<1> QED
  BY <1>1, <1>3, <1>4 DEF Advances

\* What settles an instruction that goes on to such a place is such a move.
LEMMA SettleMoves ==
    ASSUME NEW acc, NEW cost, NEW next, Settle(acc, cost, next), Advances(next)
    PROVE  Moves
<1>1. pc' \in {pc, next} /\ UNCHANGED code
  BY DEF Settle, contract
<1> QED
  BY <1>1 DEF Moves, Advances

\* One that computes a word goes on to the next byte.
LEMMA ComputeMoves ==
    ASSUME NEW ops, Fetch(ops), "STOP" \notin ops, "PUSH" \notin ops,
           NEW n, NEW w, NEW acc, NEW cost, Compute(n, w, acc, cost, pc + 1)
    PROVE  Moves
BY NextByte, SettleMoves DEF Compute

\* The instructions that push what they compute.
LEMMA PushingMoves ==
    ASSUME pc \in Nat,
           \/ ComputeAlu \/ PushContext \/ Dup \/ CallDataLoad
           \/ \E n \in 0 .. 32 : Push(n)
           \/ QueryAccount \/ SelfBalance \/ SLoad \/ TLoad
    PROVE  Moves
<1>1. CASE ComputeAlu
  <2>1. "STOP" \notin AluOps /\ "PUSH" \notin AluOps
    BY DEF AluOps, Arithmetic, Logic
  <2> QED
    BY <1>1, <2>1, ComputeMoves DEF ComputeAlu
<1>2. CASE PushContext
  <2>1. "STOP" \notin ContextOps /\ "PUSH" \notin ContextOps
    BY DEF ContextOps, TransactionOps, SizeOps, BlockOps, ProgressOps
  <2> QED
    BY <1>2, <2>1, ComputeMoves DEF PushContext
<1>3. ASSUME NEW n \in 0 .. 32, Push(n)
      PROVE  Moves
  BY <1>3, NextPush, SettleMoves DEF Push, Compute
<1>4. CASE Dup
  BY <1>4, ComputeMoves DEF Dup
<1>5. CASE CallDataLoad
  BY <1>5, ComputeMoves DEF CallDataLoad
<1>6. CASE QueryAccount
  BY <1>6, ComputeMoves DEF QueryAccount
<1>7. CASE SelfBalance
  BY <1>7, ComputeMoves DEF SelfBalance
<1>8. CASE SLoad
  BY <1>8, ComputeMoves DEF SLoad
<1>9. CASE TLoad
  BY <1>9, ComputeMoves DEF TLoad
<1> QED
  BY <1>1, <1>2, <1>3, <1>4, <1>5, <1>6, <1>7, <1>8, <1>9

\* The instructions that access memory.
LEMMA MemoryMoves ==
    ASSUME \/ MLoad \/ MStore \/ MStore8 \/ Copy \/ MCopy \/ Keccak256
           \/ \E n \in 0 .. 4 : Log(n)
           \/ Return \/ Revert
    PROVE  Moves
<1>1. ASSUME NEW ops, AccessMemory(ops), "STOP" \notin ops, "PUSH" \notin ops,
             NEW acc, NEW cost, Settle(acc, cost, pc + 1)
      PROVE  Moves
  BY <1>1, NextByte, SettleMoves DEF AccessMemory, FetchAccess
<1>2. CASE MLoad
  BY <1>1, <1>2 DEF MLoad
<1>3. ASSUME NEW op \in {"MSTORE", "MSTORE8"}, NEW n, StoreBytes(op, n)
      PROVE  Moves
  <2>1. "STOP" \notin {op} /\ "PUSH" \notin {op}
    OBVIOUS
  <2> QED
    BY <1>1, <1>3, <2>1 DEF StoreBytes
<1>4. CASE Copy
  <2>1. "STOP" \notin CopyOps /\ "PUSH" \notin CopyOps
    BY DEF CopyOps
  <2> QED
    BY <1>1, <1>4, <2>1 DEF Copy
<1>5. CASE MCopy
  BY <1>1, <1>5 DEF MCopy
<1>6. CASE Keccak256
  BY <1>1, <1>6 DEF Keccak256
<1>7. ASSUME NEW n \in 0 .. 4, Log(n)
      PROVE  Moves
  BY <1>1, <1>7 DEF Log
<1>8. ASSUME NEW op, NEW reverts, Halt(op, reverts)
      PROVE  Moves
  <2>1. Advances(pc)
    BY DEF Advances
  <2> QED
    BY <1>8, <2>1, SettleMoves DEF Halt
<1> QED
  BY <1>2, <1>3, <1>4, <1>5, <1>6, <1>7, <1>8 DEF MStore, MStore8, Return, Revert

\* The others, and those that fail.
LEMMA OtherMoves ==
    ASSUME \/ Swap \/ Pop \/ SStore \/ TStore \/ Jump \/ JumpDest \/ Stop \/ Invalid
           \/ StackUnderflow \/ StackOverflow \/ Unimplemented \/ CallDataOverflow
           \/ InvalidAddress \/ AccessFails \/ InvalidJump \/ Finish
    PROVE  Moves
<1>0. Advances(pc)
  BY DEF Advances
<1>1. ASSUME NEW ops, Fetch(ops), "STOP" \notin ops, "PUSH" \notin ops,
             NEW acc, NEW cost, Settle(acc, cost, pc + 1)
      PROVE  Moves
  BY <1>1, NextByte, SettleMoves
<1>2. CASE Swap
  BY <1>1, <1>2 DEF Swap
<1>3. CASE Pop
  BY <1>1, <1>3 DEF Pop
<1>4. CASE SStore
  BY <1>1, <1>4 DEF SStore
<1>5. CASE TStore
  BY <1>1, <1>5 DEF TStore
<1>6. CASE Jump
  <2>1. Advances(pc + 1)
    BY <1>6, NextByte DEF Jump
  <2>2. Jumps => Advances(stack[1])
    BY <1>6 DEF Jump, Advances
  <2>3. PICK cost : Settle(accounts, cost, IF Jumps THEN stack[1] ELSE pc + 1)
    BY <1>6 DEF Jump
  <2>4. CASE Jumps
    BY <2>2, <2>3, <2>4, SettleMoves
  <2>5. CASE ~Jumps
    BY <2>1, <2>3, <2>5, SettleMoves
  <2> QED
    BY <2>4, <2>5
<1>7. CASE JumpDest
  BY <1>1, <1>7 DEF JumpDest
<1>8. CASE Stop \/ Invalid
  BY <1>0, <1>8, SettleMoves DEF Stop, Invalid
<1>9. ASSUME NEW status, NEW acc, Abort(status, acc)
      PROVE  Moves
  BY <1>0, <1>9 DEF Abort, contract, Moves
<1>10. CASE \/ StackUnderflow \/ StackOverflow \/ Unimplemented \/ CallDataOverflow
            \/ InvalidAddress \/ AccessFails \/ InvalidJump
  BY <1>9, <1>10 DEF StackUnderflow, StackOverflow, Unimplemented, CallDataOverflow,
                     InvalidAddress, AccessFails, InvalidJump
<1>11. CASE Finish
  BY <1>0, <1>11 DEF Finish, contract, Moves
<1> QED
  BY <1>2, <1>3, <1>4, <1>5, <1>6, <1>7, <1>8, <1>10, <1>11

\* Every instruction moves the program counter so, and the epilogue leaves it.
LEMMA ExecuteMoves ==
    ASSUME pc \in Nat, Execute
    PROVE  Moves
BY PushingMoves, MemoryMoves, OtherMoves DEF Execute

-------------------------------------------------------------------------------
(* Arithmetic.                                                                 *)

\* A nonempty set of natural numbers has a least element.
LEMMA Least ==
    ASSUME NEW T, T \subseteq Nat, T # {}
    PROVE  \E x \in T : \A y \in T : x <= y
<1> DEFINE R == OpToRel(<, Nat)
<1>1. IsWellFoundedOn(R, Nat)
  BY NatLessThanWellFounded
<1>2. \A x, y \in Nat : x < y => <<x, y>> \in R
  BY DEF OpToRel
<1> HIDE DEF R
<1>3. PICK x \in T : \A y \in T : ~(<<y, x>> \in R)
  BY <1>1, WFMin
<1>4. x \in Nat
  BY <1>3
<1>5. ASSUME NEW y \in T
      PROVE  x <= y
  <2>1. y \in Nat
    BY <1>5
  <2>2. ~(y < x)
    BY <1>2, <1>3, <1>4, <2>1
  <2> QED
    BY <1>4, <2>1, <2>2
<1> QED
  BY <1>3, <1>5

\* What % computes.
LEMMA Remainder ==
    ASSUME NEW a \in Nat, NEW d \in Nat \ {0}
    PROVE  a % d \in 0 .. d - 1 /\ a = d * (a \div d) + (a % d)
OBVIOUS

\* A multiple leaves no remainder ...
LEMMA Multiple ==
    ASSUME NEW k \in Nat, NEW d \in Nat \ {0}
    PROVE  (k * d) % d = 0
OBVIOUS

\* ... and nothing else does.
LEMMA MultiplesOnly ==
    ASSUME NEW a \in Nat, NEW d \in Nat \ {0}, a % d = 0
    PROVE  \E k \in Nat : a = k * d
<1>1. a \div d \in Nat /\ a = d * (a \div d)
  BY Remainder, Division
<1> QED
  BY <1>1

\* What % leaves of a multiple of d is one when the modulus is one.
LEMMA MultipleRemainder ==
    ASSUME NEW a \in Nat, NEW m \in Nat \ {0}, NEW d \in Nat \ {0}, a % d = 0, m % d = 0
    PROVE  (a % m) % d = 0
<1>1. PICK k \in Nat : a = k * d
  BY MultiplesOnly
<1>2. PICK n \in Nat : m = n * d
  BY MultiplesOnly
<1> DEFINE q == a \div m
           r == a % m
<1>3. q \in Nat /\ r \in Nat /\ a = m * q + r
  BY Remainder, Division
<1>4. r = (k - n * q) * d
  <2> HIDE DEF q, r
  <2> QED
    BY <1>1, <1>2, <1>3
<1>5. k - n * q \in Nat
  <2> HIDE DEF q, r
  <2>1. k - n * q \in Int
    BY <1>3
  <2> DEFINE z == k - n * q
  <2>2. z \in Int /\ z * d \in Nat
    BY <1>3, <1>4, <2>1
  <2> HIDE DEF z
  <2>3. z \in Nat
    BY <2>2
  <2> QED
    BY <2>3 DEF z
<1> QED
  BY <1>4, <1>5, Multiple

\* The sum of two multiples is one.
LEMMA MultipleSum ==
    ASSUME NEW a \in Nat, NEW b \in Nat, NEW d \in Nat \ {0}, a % d = 0, b % d = 0
    PROVE  (a + b) % d = 0
<1>1. PICK k \in Nat : a = k * d
  BY MultiplesOnly
<1>2. PICK n \in Nat : b = n * d
  BY MultiplesOnly
<1>3. a + b = (k + n) * d
  BY <1>1, <1>2
<1>4. ((k + n) * d) % d = 0
  BY Multiple
<1> QED
  BY <1>3, <1>4

\* An extension that is in bounds keeps the memory a whole number of words.
LEMMA WholeWords ==
    ASSUME NEW len \in Nat, len % WordBytes = 0, NEW offset, NEW size, InBounds(offset, size)
    PROVE  LenAfter(len, offset, size) % WordBytes = 0
<1>1. offset \in Nat /\ size \in Nat /\ WordBytes \in Nat \ {0} /\ UsizeMod \in Nat \ {0}
  BY WordBytesAssumption, UsizeAssumption DEF InBounds, Usize
<1> DEFINE end == End(offset, size)
           gap == (end - len - 1) \div WordBytes + 1
<1>2. end \in Nat
  BY <1>1 DEF End
<1>3. CASE len >= end
  BY <1>3 DEF LenAfter, ExtensionSize
<1>4. CASE ~(len >= end)
  <2> HIDE DEF end
  <2>1. end - len - 1 \in Nat
    BY <1>2, <1>4
  <2>2. gap \in Nat
    BY <1>1, <2>1, Division
  <2> HIDE DEF gap
  <2>3. gap * WordBytes \in Nat /\ (gap * WordBytes) % WordBytes = 0
    BY <1>1, <2>2, Multiple
  <2> DEFINE ext == (gap * WordBytes) % UsizeMod
  <2> DEFINE raw == gap * WordBytes
  <2>4. ext \in Nat /\ ext % WordBytes = 0
    <3>1. ext = raw % UsizeMod /\ raw \in Nat /\ raw % WordBytes = 0
      BY <2>3
    <3> HIDE DEF ext, raw
    <3>2. (raw % UsizeMod) % WordBytes = 0
      BY <1>1, <3>1, MultipleRemainder, UsizeAssumption
    <3> QED
      BY <1>1, <3>1, <3>2, Remainder
  <2>5. LenAfter(len, offset, size) = len + ext
    BY <1>4 DEF LenAfter, ExtensionSize, end, gap
  <2> HIDE DEF ext
  <2> QED
    BY <1>1, <2>4, <2>5, MultipleSum
<1> QED
  BY <1>3, <1>4

-------------------------------------------------------------------------------
(* Words and bytes.                                                            *)

\* The big-endian value of n bytes, as WordOf adds them up.
AddsUp(bytes, n, sums) ==
    sums = [i \in 0 .. n |->
               IF i = 0 THEN 0 ELSE (sums[i - 1] % 256^(WordBytes - 1)) * 256 + bytes[i]]

\* The recursion that defines WordOf has a solution, for any number of bytes ...
LEMMA SumsExist ==
    ASSUME NEW bytes, NEW n \in Nat
    PROVE  \E sums : AddsUp(bytes, n, sums)
<1> DEFINE T == {k \in Nat : ~ \E sums : AddsUp(bytes, k, sums)}
<1>1. SUFFICES ASSUME T # {}
               PROVE  FALSE
  OBVIOUS
<1>2. PICK x \in T : \A y \in T : x <= y
  BY <1>1, Least
<1>3. x \in Nat /\ ~ \E sums : AddsUp(bytes, x, sums)
  OBVIOUS
<1>4. x # 0
  <2>1. AddsUp(bytes, 0, [i \in 0 .. 0 |-> 0])
    BY DEF AddsUp
  <2> QED
    BY <1>3, <2>1
<1>5. x - 1 \in Nat /\ x - 1 \notin T
  BY <1>2, <1>3, <1>4
<1>6. PICK f : AddsUp(bytes, x - 1, f)
  BY <1>5
<1> DEFINE last == (f[x - 1] % 256^(WordBytes - 1)) * 256 + bytes[x]
           g == [i \in 0 .. x |-> IF i = x THEN last ELSE f[i]]
<1>7. AddsUp(bytes, x, g)
  <2>1. f[0] = 0 /\ \A i \in 1 .. x - 1 :
            f[i] = (f[i - 1] % 256^(WordBytes - 1)) * 256 + bytes[i]
    BY <1>5, <1>6 DEF AddsUp
  <2>2. \A i \in 0 .. x :
            g[i] = IF i = 0 THEN 0 ELSE (g[i - 1] % 256^(WordBytes - 1)) * 256 + bytes[i]
    <3>1. ASSUME NEW i \in 0 .. x, i # 0
          PROVE  g[i] = (g[i - 1] % 256^(WordBytes - 1)) * 256 + bytes[i]
      <4>1. g[i - 1] = f[i - 1]
        BY <1>3, <3>1
      <4>2. CASE i = x
        BY <4>1, <4>2
      <4>3. CASE i # x
        <5>1. i \in 1 .. x - 1 /\ g[i] = f[i]
          BY <1>3, <3>1, <4>3
        <5> QED
          BY <2>1, <4>1, <5>1
      <4> QED
        BY <4>2, <4>3
    <3>2. g[0] = 0
      BY <1>3, <1>4, <2>1
    <3> QED
      BY <3>1, <3>2
  <2>3. g = [i \in 0 .. x |-> g[i]]
    OBVIOUS
  <2> HIDE DEF g
  <2> QED
    BY <2>2, <2>3 DEF AddsUp
<1> QED
  BY <1>3, <1>7

\* ... whose last element is the word.
LEMMA WordOfSums ==
    ASSUME NEW bytes, Len(bytes) \in Nat
    PROVE  \E sums : AddsUp(bytes, Len(bytes), sums) /\ WordOf(bytes) = sums[Len(bytes)]
<1> DEFINE s == CHOOSE sums : AddsUp(bytes, Len(bytes), sums)
<1>1. AddsUp(bytes, Len(bytes), s)
  BY SumsExist
<1>2. WordOf(bytes) = s[Len(bytes)]
  BY DEF WordOf, AddsUp
<1> QED
  BY <1>1, <1>2

\* A word is a byte followed by what WordBytes - 1 bytes hold.
LEMMA PowersFacts ==
    /\ 256^(WordBytes - 1) \in Nat \ {0}
    /\ WordMod \in Nat \ {0} /\ WordMod = 256 * 256^(WordBytes - 1)
<1>1. WordBytes - 1 \in 0 .. WordBytes /\ WordBytes \in 0 .. WordBytes
  BY WordBytesAssumption
<1> QED
  BY <1>1, PowersAssumption, SizesAssumption

\* Any bytes make a word.
LEMMA WordOfIsWord ==
    ASSUME NEW bytes, NEW n \in Nat, Len(bytes) = n, \A i \in 1 .. n : bytes[i] \in Byte
    PROVE  WordOf(bytes) \in Word
<1> DEFINE H == 256^(WordBytes - 1)
<1>1. PICK f : AddsUp(bytes, n, f) /\ WordOf(bytes) = f[n]
  BY WordOfSums
<1>2. f[0] = 0 /\ \A i \in 1 .. n : f[i] = (f[i - 1] % H) * 256 + bytes[i]
  BY <1>1 DEF AddsUp
<1>3. H \in Nat \ {0} /\ WordMod \in Nat \ {0} /\ WordMod = 256 * H
  BY PowersFacts
<1> HIDE DEF H
<1> DEFINE T == {i \in 0 .. n : f[i] \notin Word}
<1>4. T = {}
  <2>1. SUFFICES ASSUME T # {}
                 PROVE  FALSE
    OBVIOUS
  <2>2. T \subseteq Nat
    OBVIOUS
  <2>3. PICK x \in T : \A y \in T : x <= y
    BY <2>1, <2>2, Least
  <2>4. x \in 0 .. n /\ f[x] \notin Word
    OBVIOUS
  <2>5. x # 0
    BY <1>2, <1>3, <2>4 DEF Word
  <2>6. x - 1 \in 0 .. n /\ x - 1 \notin T
    BY <2>3, <2>4, <2>5
  <2>7. f[x - 1] \in Nat
    BY <2>6 DEF Word
  <2>8. f[x] = (f[x - 1] % H) * 256 + bytes[x] /\ bytes[x] \in 0 .. 255
    BY <1>2, <2>4, <2>5 DEF Byte
  <2> DEFINE r == f[x - 1] % H
             b == bytes[x]
  <2>9. r \in 0 .. H - 1
    BY <1>3, <2>7, Remainder
  <2>10. f[x] = r * 256 + b /\ b \in 0 .. 255
    BY <2>8
  <2> HIDE DEF r, b
  <2>11. r * 256 + b \in 0 .. WordMod - 1
    BY <1>3, <2>9, <2>10
  <2> QED
    BY <2>4, <2>10, <2>11 DEF Word
<1> QED
  BY <1>1, <1>4

\* The bytes of a word.
LEMMA BytesOfWord ==
    ASSUME NEW w \in Word
    PROVE  BytesOf(w) \in [1 .. WordBytes -> Byte]
<1>1. ASSUME NEW i \in 1 .. WordBytes
      PROVE  (w \div 256^(WordBytes - i)) % 256 \in Byte
  <2>1. WordBytes - i \in 0 .. WordBytes
    BY WordBytesAssumption
  <2>2. 256^(WordBytes - i) \in Nat \ {0}
    BY <2>1, PowersAssumption
  <2>3. w \div 256^(WordBytes - i) \in Nat
    BY <2>2, Division DEF Word
  <2> DEFINE q == w \div 256^(WordBytes - i)
  <2>4. q \in Nat
    BY <2>3
  <2> HIDE DEF q
  <2>5. q % 256 \in Byte
    BY <2>4 DEF Byte
  <2> QED
    BY <2>5 DEF q
<1> QED
  BY <1>1 DEF BytesOf

-------------------------------------------------------------------------------
(* The types of the world state.                                               *)

\* An account whose code fits a vector, as every account's does.
Sized == {account \in Accounts : Len(account.code) \in Usize}

\* A journalled map keeps its type when a key is loaded or stored.
LEMMA MapTyped ==
    ASSUME NEW keys, NEW values, NEW m, IsMap(m, keys, EntryOf(values)),
           NEW default \in values, NEW k
    PROVE  /\ Loaded(m, k, default) \in EntryOf(values)
           /\ k \in keys =>
                 /\ IsMap(AfterLoad(m, k, default), keys, EntryOf(values))
                 /\ \A v \in values : IsMap(AfterStore(m, k, v, default), keys, EntryOf(values))
<1>1. Loaded(m, k, default) \in EntryOf(values)
  BY DEF Loaded, Entry, EntryOf, IsMap
<1>2. Loaded(m, k, default).value \in values /\ Loaded(m, k, default).original_value \in values
  BY <1>1 DEF EntryOf
<1>3. \A v, o \in values : Entry(o, v, TRUE) \in EntryOf(values)
  BY DEF Entry, EntryOf
<1>4. \A e \in EntryOf(values) : k \in keys => IsMap(Put(m, k, e), keys, EntryOf(values))
  BY DEF Put, IsMap
<1> QED
  BY <1>1, <1>2, <1>3, <1>4 DEF AfterLoad, AfterStore

\* The accounts of the world state.
AccountsTyped(acc) == IsMap(acc, Address, EntryOf(Sized))

\* Zero is a word and an address; addresses, offsets and lengths are words.
LEMMA WordBounds ==
    /\ 0 \in Word /\ 0 \in Address /\ Address \subseteq Word /\ Usize \subseteq Word
    /\ 0 \in Usize
    /\ \A n \in Nat : n <= AllocLimit => n \in Usize
BY PowersFacts, SizesAssumption, AllocAssumption, UsizeAssumption DEF Word, Address, Usize

\* The default account is one of those that fit.
LEMMA NoAccountSized == NoAccount \in Sized
BY WordBounds DEF NoAccount, Sized, Accounts, Usize

\* What an account holds ...
LEMMA AccountTyped ==
    ASSUME NEW acc, AccountsTyped(acc), NEW a
    PROVE  /\ AccountIn(acc, a) \in Sized
           /\ AccountIn(acc, a).balance \in Word /\ AccountIn(acc, a).balance \in Nat
           /\ AccountIn(acc, a).code \in Seq(Byte)
           /\ Len(AccountIn(acc, a).code) \in Usize
<1>1. Loaded(acc, a, NoAccount) \in EntryOf(Sized)
  BY MapTyped, NoAccountSized DEF AccountsTyped
<1>2. AccountIn(acc, a) \in Sized
  BY <1>1 DEF EntryOf, AccountIn
<1> QED
  BY <1>2 DEF Sized, Accounts, Word

\* ... once it is loaded ...
LEMMA TouchedTyped ==
    ASSUME NEW acc, AccountsTyped(acc), NEW a \in Address
    PROVE  AccountsTyped(Touched(acc, a))
BY MapTyped, NoAccountSized DEF AccountsTyped, Touched

\* ... and once it has paid what it can afford.
LEMMA DebitedTyped ==
    ASSUME NEW acc, AccountsTyped(acc), NEW a \in Address, NEW cost \in Nat,
           ~(AccountIn(acc, a).balance < cost)
    PROVE  AccountsTyped(Debited(acc, a, cost))
<1> DEFINE b == AccountIn(acc, a).balance - cost
           c == AccountIn(acc, a).code
<1>1. b \in Word
  <2> DEFINE x == AccountIn(acc, a).balance
  <2>1. x \in Word /\ ~(x < cost)
    BY AccountTyped
  <2> HIDE DEF x
  <2>2. x - cost \in Word
    BY <2>1, PowersFacts DEF Word
  <2> QED
    BY <2>2 DEF x
<1>2. c \in Seq(Byte) /\ Len(c) \in Usize
  BY AccountTyped
<1>3. [balance |-> b, code |-> c] \in Sized
  BY <1>1, <1>2 DEF Sized, Accounts
<1>4. AccountsTyped(Touched(acc, a))
  BY TouchedTyped
<1> QED
  BY <1>3, <1>4, MapTyped, NoAccountSized DEF AccountsTyped, Debited

\* decrease_balance keeps the type of the accounts, whether it succeeds or not,
LEMMA DecreaseTyped ==
    ASSUME NEW acc, AccountsTyped(acc), NEW a \in Address, NEW cost \in Nat, NEW left
    PROVE  AccountsTyped(DecreaseBalance(acc, a, cost, left).accounts)
BY DebitedTyped, TouchedTyped DEF DecreaseBalance, Receipt

\* and so do pay_gas_cost
LEMMA PayGasTyped ==
    ASSUME NEW acc, AccountsTyped(acc), NEW t \in Transactions, NEW g, NEW cost \in Nat
    PROVE  AccountsTyped(PayGas(acc, t, g, cost).accounts)
<1>1. t.from \in Address /\ Fee(t, cost) \in Nat
  BY TransactionsAssumption, FeeNat
<1>2. AccountsTyped(DecreaseBalance(acc, t.from, Fee(t, cost), g - cost).accounts)
  BY <1>1, DecreaseTyped
<1> QED
  BY <1>2 DEF PayGas, Receipt

\* and the up-front check.
LEMMA AdmissionTyped ==
    ASSUME NEW acc, AccountsTyped(acc), NEW t \in Transactions
    PROVE  AccountsTyped(Admission(acc, t).accounts)
<1> DEFINE paid == PayGas(acc, t, t.gas, IntrinsicGas(t))
<1>1. AccountsTyped(paid.accounts)
  BY PayGasTyped, IntrinsicGasNat
<1> HIDE DEF paid
<1>2. Admission(acc, t).accounts \in {acc, paid.accounts}
  BY DEF Admission, Receipt, paid
<1> QED
  BY <1>1, <1>2

\* The world state, ...
WorldTyped ==
    /\ AccountsTyped(accounts)
    /\ DOMAIN storage \subseteq Address
    /\ \A a \in DOMAIN storage : IsMap(storage[a], Word, EntryOf(Word))

\* ... the contract that runs and the place where it is, ...
ContextTyped ==
    /\ address \in Address
    /\ code \in Seq(Byte) /\ Len(code) \in Usize
    /\ pc \in 0 .. Len(code) + 32

\* ... its stack, ...
StackTyped == stack \in Seq(Word) /\ Len(stack) <= StackSize

\* ... its buffers, ...
BuffersTyped ==
    /\ memory \in Seq(Byte) /\ Len(memory) <= AllocLimit
    /\ Len(memory) % WordBytes = 0
    /\ output \in Seq(Byte) /\ Len(output) <= AllocLimit

\* ... its logs, ...
LogsTyped ==
    logs \in Seq([data : Seq(Byte), topics : {words \in Seq(Word) : Len(words) <= 4}])

\* ... and its transient slots.
TransientTyped == IsMap(transient, Word, Word)

\* The inductive invariant: TypeOK, with the sizes that keep an account's code and
\* the buffers within a usize.
Typed ==
    /\ Control /\ WorldTyped /\ ContextTyped /\ StackTyped /\ BuffersTyped
    /\ LogsTyped /\ TransientTyped

\* It implies the type invariant ...
LEMMA TypedTypeOK ==
    ASSUME Typed
    PROVE  TypeOK
<1> USE DEF Typed, WorldTyped, ContextTyped, StackTyped, BuffersTyped, TransientTyped
<1>1. IsMap(accounts, Address, EntryOf(Accounts))
  BY DEF AccountsTyped, IsMap, EntryOf, Sized
<1>2. \A i \in DOMAIN logs : logs[i].data \in Seq(Byte) /\ Len(logs[i].topics) <= 4
  <2> DEFINE E == [data : Seq(Byte), topics : {words \in Seq(Word) : Len(words) <= 4}]
  <2>1. logs \in Seq(E)
    BY DEF LogsTyped
  <2> HIDE DEF E
  <2>2. \A i \in DOMAIN logs : logs[i] \in E
    BY <2>1
  <2> QED
    BY <2>2 DEF E
<1>3. ControlTypeOK
  BY DEF Control
<1> QED
  BY <1>1, <1>2, <1>3 DEF TypeOK

\* ... and holds of the world Evm::new builds.
LEMMA InitTyped ==
    ASSUME Init
    PROVE  Typed
<1>1. Control
  BY InitControl
<1>2. WorldTyped
  <2>1. AccountsTyped(accounts)
    BY GenesisAssumption DEF Init, NewStorage, AccountsTyped, IsMap, EntryOf, Entry, Sized
  <2> QED
    BY <2>1, GenesisAssumption DEF Init, NewStorage, WorldTyped, IsMap, EntryOf, Entry
<1>3. ContextTyped
  BY WordBounds DEF Init, ContextTyped
<1>4. StackTyped /\ LogsTyped /\ TransientTyped
  BY SizesAssumption DEF Init, StackTyped, LogsTyped, TransientTyped, IsMap, EmptyMap
<1>5. BuffersTyped
  BY AllocAssumption, WordBytesAssumption DEF Init, BuffersTyped
<1> QED
  BY <1>1, <1>2, <1>3, <1>4, <1>5 DEF Typed

-------------------------------------------------------------------------------
(* The tables of opcode.rs.                                                    *)

\* The instructions with a number.
Numbered == {"PUSH", "DUP", "SWAP", "LOG"}

\* The tables of names hold none of theirs,
LEMMA TableRanges ==
    /\ \A i \in 1 .. 11 : Arithmetic[i] \notin Numbered
    /\ \A i \in 1 .. 14 : Logic[i] \notin Numbered
    /\ \A i \in 1 .. 27 : Environment[i] \notin Numbered
    /\ \A i \in 1 .. 15 : Flow[i] \notin Numbered
    /\ \A i \in 1 .. 6 : Frames[i] \notin Numbered
BY DEF Numbered, Arithmetic, Logic, Environment, Flow, Frames

\* so only these bytes are shown with a number,
LEMMA NumberedBytes ==
    ASSUME NEW b \in Byte
    PROVE  /\ Mnemonic[b] = "PUSH" <=> b \in 95 .. 127
           /\ Mnemonic[b] = "DUP" <=> b \in 128 .. 143
           /\ Mnemonic[b] = "SWAP" <=> b \in 144 .. 159
           /\ Mnemonic[b] = "LOG" <=> b \in 160 .. 164
BY TableRanges DEF Mnemonic, Byte, Numbered

\* and these are the numbers.
LEMMA Numbers ==
    ASSUME NEW b \in Byte
    PROVE  /\ Arg[b] \in 0 .. 32
           /\ Mnemonic[b] = "PUSH" => Arg[b] = b - 95 /\ Arg[b] \in 0 .. 32
           /\ Mnemonic[b] = "DUP" => Arg[b] = b - 127 /\ Arg[b] \in 1 .. 16
           /\ Mnemonic[b] = "SWAP" => Arg[b] = b - 142 /\ Arg[b] \in 2 .. 17
           /\ Mnemonic[b] = "LOG" => Arg[b] = b - 160 /\ Arg[b] \in 0 .. 4
BY NumberedBytes DEF Arg, Byte

\* The names of the instructions that only compute.
LEMMA AluNames ==
    AluOps = {"ADD", "MUL", "SUB", "DIV", "SDIV", "MOD", "SMOD", "ADDMOD",
              "MULMOD", "EXP", "SIGNEXTEND", "LT", "GT", "SLT", "SGT", "EQ", "ISZERO",
              "AND", "OR", "XOR", "NOT", "BYTE", "SHL", "SHR", "SAR"}
<1> DEFINE S == {"ADD", "MUL", "SUB", "DIV", "SDIV", "MOD", "SMOD", "ADDMOD",
              "MULMOD", "EXP", "SIGNEXTEND"}
           T == {"LT", "GT", "SLT", "SGT", "EQ", "ISZERO",
              "AND", "OR", "XOR", "NOT", "BYTE", "SHL", "SHR", "SAR"}
<1>1. {Arithmetic[i] : i \in DOMAIN Arithmetic} = S
  <2>1. DOMAIN Arithmetic = 1 .. 11
    BY DEF Arithmetic
  <2>2. \A i \in 1 .. 11 : Arithmetic[i] \in S
    BY DEF Arithmetic
  <2>3. \A x \in S : \E i \in 1 .. 11 : Arithmetic[i] = x
    BY DEF Arithmetic
  <2> QED
    BY <2>1, <2>2, <2>3
<1>2. {Logic[i] : i \in DOMAIN Logic} = T
  <2>1. DOMAIN Logic = 1 .. 14
    BY DEF Logic
  <2>2. \A i \in 1 .. 14 : Logic[i] \in T
    BY DEF Logic
  <2>3. \A x \in T : \E i \in 1 .. 14 : Logic[i] = x
    BY DEF Logic
  <2> QED
    BY <2>1, <2>2, <2>3
<1> QED
  BY <1>1, <1>2 DEF AluOps

\* How many words each instruction pops: 17 at most, for swap::<17>.
LEMMA PopsTable ==
    ASSUME NEW b \in Byte, NEW op, op = Mnemonic[b]
    PROVE  /\ Pops[b] \in 0 .. 17
           /\ op \in UnaryOps => Pops[b] = 1
           /\ op \in BinaryOps => Pops[b] = 2
           /\ op \in TernaryOps => Pops[b] = 3
           /\ op = "EXTCODECOPY" => Pops[b] = 4
           /\ op \in {"DUP", "SWAP"} => Pops[b] = Arg[b]
           /\ op = "LOG" => Pops[b] = 2 + Arg[b]
           /\ op \in ContextOps \cup {"SELFBALANCE", "PUSH", "JUMPDEST", "STOP", "INVALID"}
                 => Pops[b] = 0
<1>1. Pops[b] = CASE op \in UnaryOps        -> 1
          [] op \in BinaryOps       -> 2
          [] op \in TernaryOps      -> 3
          [] op = "EXTCODECOPY"     -> 4
          [] op \in {"DUP", "SWAP"} -> Arg[b]
          [] op = "LOG"             -> 2 + Arg[b]
          [] OTHER                  -> 0
  BY DEF Pops
<1>2. BinaryOps \cap UnaryOps = {} /\ BinaryOps \cap TernaryOps = {} /\ UnaryOps \cap TernaryOps = {}
  BY DEF BinaryOps, UnaryOps, TernaryOps
<1>3. \A x \in {"EXTCODECOPY", "DUP", "SWAP", "LOG", "SELFBALANCE", "PUSH", "JUMPDEST", "STOP", "INVALID"} :
         x \notin UnaryOps \cup BinaryOps \cup TernaryOps
  BY AluNames DEF BinaryOps, UnaryOps, TernaryOps
<1>4. \A x \in ContextOps :
         x \notin UnaryOps \cup BinaryOps \cup TernaryOps \cup {"EXTCODECOPY", "DUP", "SWAP", "LOG"}
  BY AluNames DEF BinaryOps, UnaryOps, TernaryOps, ContextOps, TransactionOps, SizeOps, BlockOps, ProgressOps
<1>5. op \in {"DUP", "SWAP"} => Arg[b] \in 1 .. 17
  BY Numbers
<1>6. op = "LOG" => Arg[b] \in 0 .. 4
  BY Numbers
<1> QED
  BY <1>1, <1>2, <1>3, <1>4, <1>5, <1>6

-------------------------------------------------------------------------------
(* What an instruction leaves of the stack.                                    *)

\* The byte at the program counter is one, past the end of the code too.
LEMMA OpcodeByte ==
    ASSUME ContextTyped
    PROVE  CodeByte \in Byte /\ (pc < Len(code) => code[pc + 1] = CodeByte)
<1>1. pc \in Nat /\ code \in Seq(Byte) /\ Len(code) \in Nat
  BY DEF ContextTyped, Usize
<1>2. CASE pc < Len(code)
  <2>1. pc + 1 \in 1 .. Len(code)
    BY <1>1, <1>2
  <2> QED
    BY <1>1, <1>2, <2>1 DEF CodeByte
<1>3. CASE ~(pc < Len(code))
  BY <1>3 DEF CodeByte, Byte
<1> QED
  BY <1>2, <1>3

\* The operands of an instruction are on the stack.
LEMMA Operands ==
    ASSUME ContextTyped, StackTyped, NEW ops, Fetch(ops)
    PROVE  /\ CodeByte \in Byte /\ Opcode = Mnemonic[CodeByte] /\ Opcode \in ops
           /\ Pops[CodeByte] \in 0 .. 17 /\ Pops[CodeByte] <= Len(stack)
           /\ Len(stack) \in Nat
           /\ \A i \in 1 .. Len(stack) : stack[i] \in Word
<1>1. CodeByte \in Byte
  BY OpcodeByte
<1>2. Pops[CodeByte] \in 0 .. 17
  BY <1>1, PopsTable
<1>3. stack \in Seq(Word) /\ Len(stack) \in Nat
  BY DEF StackTyped
<1>4. \A i \in 1 .. Len(stack) : stack[i] \in Word
  BY <1>3
<1> QED
  BY <1>1, <1>2, <1>3, <1>4 DEF Fetch, Opcode

\* A function on 1 .. n is a sequence.
LEMMA SeqOfLength ==
    ASSUME NEW S, NEW n \in Nat, NEW f, f = [i \in 1 .. n |-> f[i]], \A i \in 1 .. n : f[i] \in S
    PROVE  f \in Seq(S) /\ Len(f) = n
<1>1. f \in [1 .. n -> S]
  OBVIOUS
<1> QED
  BY <1>1

\* A stack without its top words, ...
LEMMA DropTyped ==
    ASSUME StackTyped, NEW n \in Nat, n <= Len(stack)
    PROVE  /\ Drop(n) \in Seq(Word) /\ Len(Drop(n)) = Len(stack) - n
           /\ \A i \in 1 .. Len(stack) - n : Drop(n)[i] = stack[i + n]
<1> DEFINE len == Len(stack) - n
<1>1. stack \in Seq(Word) /\ Len(stack) \in Nat /\ len \in Nat
  BY DEF StackTyped
<1>2. Drop(n) = [i \in 1 .. len |-> stack[i + n]]
  BY DEF Drop
<1>3. \A i \in 1 .. len : stack[i + n] \in Word
  BY <1>1
<1> HIDE DEF len
<1>4. Drop(n) \in Seq(Word) /\ Len(Drop(n)) = len
  BY <1>1, <1>2, <1>3, SeqOfLength
<1> QED
  BY <1>2, <1>4 DEF len

\* ... or with a word in their place, is a stack, if it does not grow too long.
LEMMA ReplaceTyped ==
    ASSUME StackTyped, NEW n \in Nat, n <= Len(stack), NEW w \in Word
    PROVE  /\ Replace(n, w) \in Seq(Word) /\ Len(Replace(n, w)) = Len(stack) - n + 1
           /\ Replace(n, w)[1] = w
           /\ \A i \in 2 .. Len(stack) - n + 1 : Replace(n, w)[i] = stack[i + n - 1]
<1> DEFINE len == Len(stack) - n + 1
           r == Replace(n, w)
<1>1. stack \in Seq(Word) /\ Len(stack) \in Nat /\ len \in Nat /\ 1 \in 1 .. len
  BY DEF StackTyped
<1>2. r = [i \in 1 .. len |-> IF i = 1 THEN w ELSE stack[i + n - 1]]
  BY DEF Replace
<1>3. \A i \in 2 .. len : stack[i + n - 1] \in Word
  BY <1>1
<1> HIDE DEF len, r
<1>4. \A i \in 1 .. len : i # 1 => i \in 2 .. len
  BY <1>1
<1>5. /\ r[1] = w
      /\ \A i \in 2 .. len : r[i] = stack[i + n - 1]
  BY <1>1, <1>2
<1>6. r \in Seq(Word) /\ Len(r) = len
  BY <1>1, <1>2, <1>3, <1>4, <1>5, SeqOfLength
<1> QED
  BY <1>5, <1>6 DEF len, r

\* What an instruction leaves in the context, the program counter apart.
EffectsTyped == StackTyped /\ BuffersTyped /\ LogsTyped /\ TransientTyped

\* An instruction that replaces words by a word keeps the types of the effects.
LEMMA ComputeTyped ==
    ASSUME EffectsTyped, NEW n \in Nat, n <= Len(stack), n = 0 => Len(stack) < StackSize,
           NEW w \in Word, NEW acc, NEW cost, NEW next, Compute(n, w, acc, cost, next)
    PROVE  EffectsTyped'
<1>1. stack' = Replace(n, w) /\ UNCHANGED <<memory, output, logs, transient>>
  BY DEF Compute
<1>2. Len(stack) \in Nat /\ Len(stack) <= StackSize /\ StackSize \in Nat
  BY SizesAssumption DEF EffectsTyped, StackTyped
<1>3. stack' \in Seq(Word) /\ Len(stack') = Len(stack) - n + 1
  BY <1>1, ReplaceTyped DEF EffectsTyped
<1>4. StackTyped'
  BY <1>2, <1>3 DEF StackTyped
<1> QED
  BY <1>1, <1>4 DEF EffectsTyped, BuffersTyped, LogsTyped, TransientTyped

\* What the theorems on types take of the computations, which are parameters: they
\* answer with words.
Computed ==
    /\ \A b \in Byte : Mnemonic[b] \in AluOps =>
          \A args \in [1 .. Pops[b] -> Word] : Alu(Mnemonic[b], args) \in Word
    /\ \A bytes \in Seq(Byte) : Keccak(bytes) \in Word

\* An instruction that pops nothing has room for what it pushes.
LEMMA RoomToGrow ==
    ASSUME NEW ops, Fetch(ops), StackTyped
    PROVE  Opcode \in ContextOps \cup {"SELFBALANCE", "PUSH", "DUP"} => Len(stack) < StackSize
BY DEF Fetch, Growing

\* Arithmetic and logic.
LEMMA AluTyped ==
    ASSUME Computed, ContextTyped, EffectsTyped, ComputeAlu
    PROVE  EffectsTyped'
<1> DEFINE n == Pops[CodeByte]
           args == [i \in 1 .. n |-> stack[i]]
<1>1. /\ CodeByte \in Byte /\ Opcode = Mnemonic[CodeByte] /\ Opcode \in AluOps
      /\ n \in 0 .. 17 /\ n <= Len(stack)
      /\ Len(stack) \in Nat
      /\ \A i \in 1 .. Len(stack) : stack[i] \in Word
  BY Operands DEF ComputeAlu, EffectsTyped
<1>2. n # 0
  BY <1>1, PopsTable, AluNames DEF UnaryOps, BinaryOps, TernaryOps
<1>3. args \in [1 .. n -> Word]
  <2> HIDE DEF n
  <2> QED
    BY <1>1
<1>4. Alu(Opcode, args) \in Word
  BY <1>1, <1>3 DEF Computed
<1>5. Compute(n, Alu(Opcode, args), accounts, AluCost(Opcode, args), pc + 1)
  BY DEF ComputeAlu
<1> QED
  BY <1>1, <1>2, <1>4, <1>5, ComputeTyped

\* The words of the context.
LEMMA ContextWords ==
    ASSUME Control, ContextTyped, BuffersTyped, Fetch(ContextOps)
    PROVE  ContextValue(Opcode) \in Word
<1>1. phase = "running" /\ Opcode \in ContextOps
  BY DEF Fetch, Decoding
<1>2. /\ tx \in Transactions /\ gas \in 0 .. tx.gas
      /\ tx.from \in Address /\ tx.value \in Word /\ tx.gas_price \in Usize
      /\ tx.gas \in Usize /\ Len(tx.data) \in Usize
  BY <1>1, RunningTransaction, TransactionsAssumption
<1>3. address \in Address /\ pc \in Nat /\ Len(code) \in Usize
  BY DEF ContextTyped
<1>4. \A n \in Nat : \A m \in Usize : n <= m => n \in Usize
  BY UsizeAssumption DEF Usize
<1>5. CASE Opcode \in TransactionOps
  <2>1. ContextValue(Opcode) = TransactionValue(Opcode)
    BY <1>5 DEF ContextValue, TransactionOps, SizeOps, BlockOps, ProgressOps
  <2> QED
    BY <1>2, <1>3, <1>5, <2>1, WordBounds DEF TransactionOps, TransactionValue
<1>6. CASE Opcode \in SizeOps
  <2>1. ContextValue(Opcode) = BufferSize(Opcode)
    BY <1>6 DEF ContextValue, TransactionOps, SizeOps, BlockOps, ProgressOps
  <2> QED
    BY <1>2, <1>3, <1>6, <2>1, WordBounds DEF SizeOps, BufferSize
<1>7. CASE Opcode \in BlockOps
  <2>1. ContextValue(Opcode) = BlockValue(Opcode)
    BY <1>7 DEF ContextValue, TransactionOps, SizeOps, BlockOps, ProgressOps
  <2> QED
    BY <1>7, <2>1, WordBounds, BlockAssumption DEF BlockOps, BlockValue, Blocks
<1>8. CASE Opcode \in ProgressOps
  <2>1. ContextValue(Opcode) = Progress(Opcode)
    BY <1>8 DEF ContextValue, TransactionOps, SizeOps, BlockOps, ProgressOps
  <2>2. "STOP" \notin ContextOps
    BY DEF ContextOps, TransactionOps, SizeOps, BlockOps, ProgressOps
  <2>3. pc < Len(code)
    BY <2>2, WithinCode
  <2>4. pc \in Usize
    BY <1>3, <1>4, <2>3 DEF Usize
  <2>5. Len(memory) \in Usize
    BY WordBounds DEF BuffersTyped
  <2>6. gas \in Nat /\ gas <= tx.gas /\ tx.gas \in Nat
    BY <1>2 DEF Usize
  <2>7. (IF gas < 2 THEN 0 ELSE gas - 2) \in Usize
    <3> DEFINE g == IF gas < 2 THEN 0 ELSE gas - 2
    <3>1. g \in Nat /\ g <= tx.gas
      BY <2>6
    <3> HIDE DEF g
    <3>2. g \in Usize
      BY <1>2, <1>4, <3>1
    <3> QED
      BY <3>2 DEF g
  <2> QED
    BY <1>8, <2>1, <2>4, <2>5, <2>7, WordBounds DEF ProgressOps, Progress
<1> QED
  BY <1>1, <1>5, <1>6, <1>7, <1>8 DEF ContextOps

\* A function to bytes makes a word.
LEMMA ByteSequence ==
    ASSUME NEW n \in Nat, NEW f, f = [i \in 1 .. n |-> f[i]], \A i \in 1 .. n : f[i] \in Byte
    PROVE  WordOf(f) \in Word
BY SeqOfLength, WordOfIsWord

\* PUSH, past the end of the code too.
LEMMA PushTyped ==
    ASSUME ContextTyped, EffectsTyped, NEW n \in 0 .. 32, Push(n)
    PROVE  EffectsTyped'
<1> DEFINE data == [i \in 1 .. n |-> IF pc + i < Len(code) THEN code[pc + i + 1] ELSE 0]
<1>1. code \in Seq(Byte) /\ Len(code) \in Nat /\ pc \in Nat /\ n \in Nat
  BY DEF ContextTyped, Usize
<1>2. ASSUME NEW i \in 1 .. n
      PROVE  data[i] \in Byte
  <2>1. CASE pc + i < Len(code)
    <3>1. pc + i + 1 \in 1 .. Len(code)
      BY <1>1, <2>1
    <3> QED
      BY <1>1, <2>1, <3>1
  <2>2. CASE ~(pc + i < Len(code))
    BY <2>2 DEF Byte
  <2> QED
    BY <2>1, <2>2
<1>3. data = [i \in 1 .. n |-> data[i]]
  OBVIOUS
<1>4. PICK cost : Compute(0, WordOf(data), accounts, cost, pc + n + 1)
  BY DEF Push
<1> HIDE DEF data
<1>5. WordOf(data) \in Word
  BY <1>1, <1>2, <1>3, ByteSequence
<1>6. Opcode = "PUSH" /\ Len(stack) < StackSize /\ Len(stack) \in Nat
  BY RoomToGrow, Operands DEF Push, Fetch, EffectsTyped
<1> QED
  BY <1>4, <1>5, <1>6, ComputeTyped

\* CALLDATALOAD.
LEMMA InputTyped ==
    ASSUME ContextTyped, EffectsTyped, NEW data, data \in Seq(Byte), tx.data = data, CallDataLoad
    PROVE  EffectsTyped'
<1>1. 1 <= Len(stack)
  <2>1. CodeByte \in Byte /\ Mnemonic[CodeByte] = "CALLDATALOAD" /\ Pops[CodeByte] <= Len(stack)
    BY Operands DEF CallDataLoad, EffectsTyped
  <2> QED
    BY <2>1, PopsTable DEF UnaryOps
<1>2. \A i \in Nat : InputByte(i) \in Byte
  <2>1. ASSUME NEW i \in Nat
        PROVE  InputByte(i) \in Byte
    <3>1. CASE i < Len(data)
      <4>1. i + 1 \in 1 .. Len(data)
        BY <3>1
      <4> QED
        BY <3>1, <4>1 DEF InputByte
    <3>2. CASE ~(i < Len(data))
      BY <3>2 DEF InputByte, Byte
    <3> QED
      BY <3>1, <3>2
  <2> QED
    BY <2>1
<1>3. \A offset : InputWord(offset) \in Word
  <2>1. ASSUME NEW offset \in Usize
        PROVE  InputWord(offset) \in Word
    <3> DEFINE f == [i \in 1 .. WordBytes |-> InputByte((offset + i - 1) % UsizeMod)]
    <3>1. \A i \in 1 .. WordBytes : (offset + i - 1) % UsizeMod \in Nat
      BY UsizeAssumption, WordBytesAssumption DEF Usize
    <3>2. \A i \in 1 .. WordBytes : f[i] \in Byte
      BY <1>2, <3>1
    <3>3. InputWord(offset) = WordOf(f) /\ f = [i \in 1 .. WordBytes |-> f[i]]
      BY <2>1 DEF InputWord
    <3> HIDE DEF f
    <3> QED
      BY <3>2, <3>3, ByteSequence, WordBytesAssumption
  <2> QED
    BY <2>1, WordBounds DEF InputWord
<1>4. Compute(1, InputWord(stack[1]), accounts, 3, pc + 1)
  BY DEF CallDataLoad
<1> QED
  BY <1>1, <1>3, <1>4, ComputeTyped

\* DUP.
LEMMA DupTyped ==
    ASSUME ContextTyped, EffectsTyped, Dup
    PROVE  EffectsTyped'
<1>1. /\ CodeByte \in Byte /\ Mnemonic[CodeByte] = "DUP" /\ Opcode = "DUP"
      /\ Pops[CodeByte] <= Len(stack) /\ Len(stack) \in Nat
      /\ \A i \in 1 .. Len(stack) : stack[i] \in Word
  BY Operands DEF Dup, EffectsTyped
<1>2. Arg[CodeByte] \in 1 .. 16 /\ Pops[CodeByte] = Arg[CodeByte]
  BY <1>1, Numbers, PopsTable
<1>3. stack[Arg[CodeByte]] \in Word
  BY <1>1, <1>2
<1>4. Len(stack) < StackSize
  BY <1>1, RoomToGrow DEF Dup, EffectsTyped
<1> QED
  BY <1>1, <1>3, <1>4, ComputeTyped DEF Dup

\* SWAP.
LEMMA SwapTyped ==
    ASSUME ContextTyped, EffectsTyped, Swap
    PROVE  EffectsTyped'
<1>1. /\ CodeByte \in Byte /\ Mnemonic[CodeByte] = "SWAP"
      /\ Pops[CodeByte] <= Len(stack) /\ Len(stack) \in Nat
      /\ \A i \in 1 .. Len(stack) : stack[i] \in Word
  BY Operands DEF Swap, EffectsTyped
<1>2. Arg[CodeByte] \in 2 .. 17 /\ Pops[CodeByte] = Arg[CodeByte]
  BY <1>1, Numbers, PopsTable
<1> DEFINE n == Arg[CodeByte]
<1>3. stack' = [stack EXCEPT ![1] = stack[n], ![n] = stack[1]]
      /\ UNCHANGED <<memory, output, logs, transient>>
  BY DEF Swap
<1> HIDE DEF n
<1>4. n \in 1 .. Len(stack) /\ 1 \in 1 .. Len(stack)
  BY <1>1, <1>2 DEF n
<1>5. stack \in Seq(Word)
  BY DEF EffectsTyped, StackTyped
<1>6. stack[1] \in Word /\ stack[n] \in Word
  BY <1>1, <1>4
<1>7. stack' \in Seq(Word) /\ Len(stack') = Len(stack)
  BY <1>3, <1>4, <1>5, <1>6
<1>8. StackTyped'
  BY <1>7 DEF EffectsTyped, StackTyped
<1> QED
  BY <1>3, <1>8 DEF EffectsTyped, BuffersTyped, LogsTyped, TransientTyped

\* The instructions that take one word ...
LEMMA OneOperand ==
    ASSUME ContextTyped, EffectsTyped, NEW ops, Fetch(ops), Opcode \in UnaryOps
    PROVE  /\ Pops[CodeByte] = 1 /\ 1 <= Len(stack) /\ Len(stack) \in Nat /\ stack[1] \in Word
<1>1. /\ CodeByte \in Byte /\ Opcode = Mnemonic[CodeByte]
      /\ Pops[CodeByte] <= Len(stack) /\ Len(stack) \in Nat
      /\ \A i \in 1 .. Len(stack) : stack[i] \in Word
  BY Operands DEF EffectsTyped
<1>2. Pops[CodeByte] = 1
  BY <1>1, PopsTable
<1> QED
  BY <1>1, <1>2

\* ... two, ...
LEMMA TwoOperands ==
    ASSUME ContextTyped, EffectsTyped, NEW ops, Fetch(ops), Opcode \in BinaryOps
    PROVE  /\ Pops[CodeByte] = 2 /\ 2 <= Len(stack) /\ Len(stack) \in Nat
           /\ stack[1] \in Word /\ stack[2] \in Word
<1>1. /\ CodeByte \in Byte /\ Opcode = Mnemonic[CodeByte]
      /\ Pops[CodeByte] <= Len(stack) /\ Len(stack) \in Nat
      /\ \A i \in 1 .. Len(stack) : stack[i] \in Word
  BY Operands DEF EffectsTyped
<1>2. Pops[CodeByte] = 2
  BY <1>1, PopsTable
<1> QED
  BY <1>1, <1>2

\* BALANCE, EXTCODESIZE and EXTCODEHASH.
LEMMA QueryTyped ==
    ASSUME Computed, WorldTyped, ContextTyped, EffectsTyped, QueryAccount
    PROVE  EffectsTyped'
<1>1. Opcode \in {"BALANCE", "EXTCODESIZE", "EXTCODEHASH"}
  BY DEF QueryAccount, Fetch
<1>2. 1 <= Len(stack)
  BY <1>1, OneOperand DEF QueryAccount, UnaryOps
<1> DEFINE account == AccountIn(accounts, stack[1])
<1>3. account.balance \in Word /\ account.code \in Seq(Byte) /\ Len(account.code) \in Word
  BY AccountTyped, WordBounds DEF WorldTyped
<1>4. PICK cost, acc : Compute(1, AccountField(Opcode, account), acc, cost, pc + 1)
  BY DEF QueryAccount
<1> HIDE DEF account
<1>5. Keccak(account.code) \in Word
  BY <1>3 DEF Computed
<1>6. AccountField(Opcode, account) \in Word
  BY <1>1, <1>3, <1>5 DEF AccountField
<1> QED
  BY <1>2, <1>4, <1>6, ComputeTyped

\* SELFBALANCE.
LEMMA SelfBalanceTyped ==
    ASSUME WorldTyped, ContextTyped, EffectsTyped, SelfBalance
    PROVE  EffectsTyped'
<1>1. Opcode = "SELFBALANCE" /\ Len(stack) < StackSize /\ Len(stack) \in Nat
  BY RoomToGrow, Operands DEF SelfBalance, Fetch, EffectsTyped
<1>2. AccountIn(accounts, address).balance \in Word
  BY AccountTyped DEF WorldTyped
<1>3. PICK cost, acc, w : Compute(0, w, acc, cost, pc + 1) /\ w = AccountIn(accounts, address).balance
  BY DEF SelfBalance
<1> QED
  BY <1>1, <1>2, <1>3, ComputeTyped

\* The slots of the contract.
LEMMA OwnSlots ==
    ASSUME WorldTyped
    PROVE  IsMap(SlotsOf(address), Word, EntryOf(Word))
BY DEF SlotsOf, WorldTyped, IsMap, EmptyMap

\* Slots that are words, put at an address, keep the type of the storage.
LEMMA PutSlots ==
    ASSUME WorldTyped, ContextTyped, NEW slots, IsMap(slots, Word, EntryOf(Word)),
           storage' = Put(storage, address, slots)
    PROVE  /\ DOMAIN storage' \subseteq Address
           /\ \A a \in DOMAIN storage' : IsMap(storage'[a], Word, EntryOf(Word))
BY DEF WorldTyped, ContextTyped, Put

\* SLOAD.
LEMMA SLoadTyped ==
    ASSUME WorldTyped, ContextTyped, EffectsTyped, SLoad
    PROVE  /\ EffectsTyped'
           /\ DOMAIN storage' \subseteq Address
           /\ \A a \in DOMAIN storage' : IsMap(storage'[a], Word, EntryOf(Word))
<1> DEFINE slot == Loaded(SlotsOf(address), stack[1], 0)
<1>1. 1 <= Len(stack) /\ stack[1] \in Word
  BY OneOperand DEF SLoad, Fetch, UnaryOps
<1>2. IsMap(SlotsOf(address), Word, EntryOf(Word)) /\ 0 \in Word
  BY OwnSlots, WordBounds
<1>3. /\ slot \in EntryOf(Word)
      /\ IsMap(AfterLoad(SlotsOf(address), stack[1], 0), Word, EntryOf(Word))
  BY <1>1, <1>2, MapTyped
<1>4. PICK cost : Compute(1, slot.value, accounts, cost, pc + 1)
  BY DEF SLoad
<1>5. storage' = Put(storage, address, AfterLoad(SlotsOf(address), stack[1], 0))
  BY DEF SLoad
<1> HIDE DEF slot
<1>6. slot.value \in Word
  BY <1>3 DEF EntryOf
<1>7. EffectsTyped'
  BY <1>1, <1>4, <1>6, ComputeTyped
<1> QED
  BY <1>3, <1>5, <1>7, PutSlots

\* An instruction that only pops leaves a stack.
LEMMA DroppedTyped ==
    ASSUME StackTyped, NEW n \in Nat, n <= Len(stack), stack' = Drop(n)
    PROVE  StackTyped'
<1>1. Len(stack) \in Nat /\ StackSize \in Nat /\ Len(stack) <= StackSize
  BY SizesAssumption DEF StackTyped
<1> QED
  BY <1>1, DropTyped DEF StackTyped

\* SSTORE.
LEMMA SStoreTyped ==
    ASSUME WorldTyped, ContextTyped, EffectsTyped, SStore
    PROVE  /\ EffectsTyped'
           /\ DOMAIN storage' \subseteq Address
           /\ \A a \in DOMAIN storage' : IsMap(storage'[a], Word, EntryOf(Word))
<1>1. 2 <= Len(stack) /\ stack[1] \in Word /\ stack[2] \in Word
  BY TwoOperands DEF SStore, Fetch, BinaryOps
<1>2. IsMap(SlotsOf(address), Word, EntryOf(Word)) /\ 0 \in Word
  BY OwnSlots, WordBounds
<1>3. IsMap(AfterStore(SlotsOf(address), stack[1], stack[2], 0), Word, EntryOf(Word))
  BY <1>1, <1>2, MapTyped
<1>4. storage' = Put(storage, address, AfterStore(SlotsOf(address), stack[1], stack[2], 0))
  BY DEF SStore
<1>5. stack' = Drop(2) /\ UNCHANGED <<memory, output, logs, transient>>
  BY DEF SStore
<1>6. StackTyped'
  BY <1>1, <1>5, DroppedTyped DEF EffectsTyped
<1>7. EffectsTyped'
  BY <1>5, <1>6 DEF EffectsTyped, BuffersTyped, LogsTyped, TransientTyped
<1> QED
  BY <1>3, <1>4, <1>7, PutSlots

\* TLOAD and TSTORE.
LEMMA TransientStepsTyped ==
    ASSUME ContextTyped, EffectsTyped, TLoad \/ TStore
    PROVE  EffectsTyped'
<1>1. IsMap(transient, Word, Word)
  BY DEF EffectsTyped, TransientTyped
<1>2. CASE TLoad
  <2>1. 1 <= Len(stack) /\ stack[1] \in Word
    BY <1>2, OneOperand DEF TLoad, Fetch, UnaryOps
  <2>2. TransientLoad(transient, stack[1]) \in Word
    BY <1>1, WordBounds DEF TransientLoad, IsMap
  <2> QED
    BY <1>2, <2>1, <2>2, ComputeTyped DEF TLoad
<1>3. CASE TStore
  <2>1. 2 <= Len(stack) /\ stack[1] \in Word /\ stack[2] \in Word
    BY <1>3, TwoOperands DEF TStore, Fetch, BinaryOps
  <2>2. stack' = Drop(2) /\ UNCHANGED <<memory, output, logs>>
        /\ transient' = Put(transient, stack[1], stack[2])
    BY <1>3 DEF TStore, TransientStore
  <2>3. StackTyped'
    BY <2>1, <2>2, DroppedTyped DEF EffectsTyped
  <2>4. TransientTyped'
    BY <1>1, <2>1, <2>2 DEF TransientTyped, IsMap, Put
  <2> QED
    BY <2>2, <2>3, <2>4 DEF EffectsTyped, BuffersTyped, LogsTyped
<1> QED
  BY <1>2, <1>3

\* POP, the jumps, and the instructions that leave the stack alone.
LEMMA FlowTyped ==
    ASSUME ContextTyped, EffectsTyped, Pop \/ Jump \/ JumpDest \/ Stop \/ Invalid
    PROVE  EffectsTyped'
<1>1. \E n \in Nat : n <= Len(stack) /\ (stack' = Drop(n) \/ UNCHANGED stack)
  <2>1. CASE Pop
    BY <2>1, OneOperand DEF Pop, Fetch, UnaryOps
  <2>2. CASE Jump
    <3>1. Pops[CodeByte] \in Nat /\ Pops[CodeByte] <= Len(stack)
      BY <2>2, Operands DEF Jump, EffectsTyped
    <3> QED
      BY <2>2, <3>1 DEF Jump
  <2>3. CASE JumpDest \/ Stop \/ Invalid
    BY <2>3 DEF JumpDest, Stop, Invalid, effects, EffectsTyped, StackTyped
  <2> QED
    BY <2>1, <2>2, <2>3
<1>2. UNCHANGED <<memory, output, logs, transient>>
  BY DEF Pop, Jump, JumpDest, Stop, Invalid, effects
<1>3. StackTyped'
  BY <1>1, DroppedTyped DEF EffectsTyped, StackTyped
<1> QED
  BY <1>2, <1>3 DEF EffectsTyped, BuffersTyped, LogsTyped, TransientTyped

-------------------------------------------------------------------------------
(* Memory.                                                                     *)

\* A memory: a whole number of words that can be allocated.
WholeMemory(mem) ==
    mem \in Seq(Byte) /\ Len(mem) <= AllocLimit /\ Len(mem) % WordBytes = 0

\* An access to a range of a memory of len bytes is in bounds and can be allocated.
Fits(len, offset, size) ==
    InBounds(offset, size) /\ LenAfter(len, offset, size) <= AllocLimit /\ size <= AllocLimit

\* An access that succeeds does.
LEMMA StatusFits ==
    ASSUME NEW len \in Nat, NEW offset, NEW size,
           LoadStatus(len, offset, size) = "ok" \/ StoreStatus(len, offset, size) = "ok"
    PROVE  Fits(len, offset, size)
<1>1. InBounds(offset, size) /\ ~AccessPanics(len, offset, size)
  BY DEF LoadStatus, StoreStatus, WritePanics
<1>2. ~(LenAfter(len, offset, size) > AllocLimit) /\ ~(size > AllocLimit)
  BY <1>1 DEF AccessPanics
<1>3. LenAfter(len, offset, size) \in Nat /\ size \in Nat /\ AllocLimit \in Nat
  BY <1>1, ExpansionCostNat, AllocAssumption DEF InBounds, Usize
<1> QED
  BY <1>1, <1>2, <1>3 DEF Fits

\* What is left of a memory, extended or written, is a memory; what is read of it is bytes.
LEMMA MemoryGrows ==
    ASSUME NEW mem, WholeMemory(mem), NEW offset, NEW size, Fits(Len(mem), offset, size)
    PROVE  /\ WholeMemory(Extended(mem, offset, size))
           /\ \A bytes \in Seq(Byte) : WholeMemory(Written(mem, offset, size, bytes))
           /\ Read(mem, offset, size) \in Seq(Byte) /\ Len(Read(mem, offset, size)) = size
           /\ size \in Nat /\ size <= AllocLimit
           /\ Len(Extended(mem, offset, size)) = LenAfter(Len(mem), offset, size)
<1>1. /\ InBounds(offset, size) /\ LenAfter(Len(mem), offset, size) <= AllocLimit
      /\ size <= AllocLimit
      /\ mem \in Seq(Byte) /\ Len(mem) \in Nat /\ Len(mem) % WordBytes = 0
      /\ offset \in Nat /\ size \in Nat
  BY DEF Fits, WholeMemory, InBounds, Usize
<1> DEFINE n == LenAfter(Len(mem), offset, size)
<1>2. n \in Nat /\ n <= AllocLimit /\ n % WordBytes = 0
  BY <1>1, ExpansionCostNat, WholeWords
<1>3. 0 \in Byte /\ \A i \in 1 .. Len(mem) : mem[i] \in Byte
  <2>1. \A i \in 1 .. Len(mem) : mem[i] \in Byte
    BY <1>1
  <2> QED
    BY <2>1 DEF Byte
<1>4. Extended(mem, offset, size) \in Seq(Byte) /\ Len(Extended(mem, offset, size)) = n
  <2> DEFINE f == [i \in 1 .. n |-> IF i <= Len(mem) THEN mem[i] ELSE 0]
  <2>1. Extended(mem, offset, size) = f
    BY DEF Extended
  <2> HIDE DEF n
  <2>2. \A i \in 1 .. n : f[i] \in Byte
    BY <1>1, <1>2, <1>3
  <2>3. f = [i \in 1 .. n |-> f[i]]
    OBVIOUS
  <2> HIDE DEF f
  <2> QED
    BY <1>2, <2>1, <2>2, <2>3, SeqOfLength
<1>5. ASSUME NEW bytes \in Seq(Byte)
      PROVE  Written(mem, offset, size, bytes) \in Seq(Byte)
             /\ Len(Written(mem, offset, size, bytes)) = n
  <2> DEFINE f == [i \in 1 .. n |->
                     IF i \in offset + 1 .. offset + size
                     THEN IF i - offset <= Len(bytes) THEN bytes[i - offset] ELSE 0
                     ELSE IF i <= Len(mem) THEN mem[i] ELSE 0]
  <2>1. Written(mem, offset, size, bytes) = f
    BY DEF Written
  <2> HIDE DEF n
  <2>2. \A i \in 1 .. n : f[i] \in Byte
    <3>1. \A j \in 1 .. Len(bytes) : bytes[j] \in Byte
      OBVIOUS
    <3>2. ASSUME NEW i \in 1 .. n
          PROVE  f[i] \in Byte
      <4>1. CASE i \in offset + 1 .. offset + size
        <5>1. i - offset \in Nat /\ i - offset >= 1
          BY <1>1, <4>1
        <5>2. f[i] = IF i - offset <= Len(bytes) THEN bytes[i - offset] ELSE 0
          BY <4>1
        <5> QED
          BY <1>3, <3>1, <5>1, <5>2
      <4>2. CASE ~(i \in offset + 1 .. offset + size)
        <5>1. f[i] = IF i <= Len(mem) THEN mem[i] ELSE 0
          BY <4>2
        <5> QED
          BY <1>1, <1>3, <5>1
      <4> QED
        BY <4>1, <4>2
    <3> QED
      BY <3>2
  <2>3. f = [i \in 1 .. n |-> f[i]]
    OBVIOUS
  <2> HIDE DEF f
  <2> QED
    BY <1>2, <2>1, <2>2, <2>3, SeqOfLength
<1>6. Read(mem, offset, size) \in Seq(Byte) /\ Len(Read(mem, offset, size)) = size
  <2> DEFINE f == [i \in 1 .. size |-> IF offset + i <= Len(mem) THEN mem[offset + i] ELSE 0]
  <2>1. Read(mem, offset, size) = f
    BY DEF Read
  <2>2. \A i \in 1 .. size : f[i] \in Byte
    BY <1>1, <1>3
  <2>3. f = [i \in 1 .. size |-> f[i]]
    OBVIOUS
  <2> HIDE DEF f
  <2> QED
    BY <1>1, <2>1, <2>2, <2>3, SeqOfLength
<1> HIDE DEF n
<1>7. WholeMemory(Extended(mem, offset, size))
  BY <1>2, <1>4 DEF WholeMemory
<1>8. \A bytes \in Seq(Byte) : WholeMemory(Written(mem, offset, size, bytes))
  BY <1>2, <1>5 DEF WholeMemory
<1> QED
  BY <1>1, <1>4, <1>6, <1>7, <1>8 DEF n

\* The ranges of an access that succeeds.
LEMMA AccessFits ==
    ASSUME AccessStatus = "ok", NEW len \in Nat, len = Len(memory)
    PROVE  /\ Opcode \in {"MLOAD", "MSTORE"} => Fits(len, stack[1], WordBytes)
           /\ Opcode = "MSTORE8" => Fits(len, stack[1], 1)
           /\ Opcode \in {"KECCAK256", "LOG", "RETURN", "REVERT"} =>
                 Fits(len, stack[1], stack[2])
           /\ Opcode = "MCOPY" =>
                 /\ Fits(len, stack[2], stack[3])
                 /\ Fits(LenAfter(len, stack[2], stack[3]), stack[1], stack[3])
           /\ Opcode \in CopyOps => Fits(len, Operand(1), Operand(3))
<1>1. CASE Opcode = "MCOPY"
  <2>1. /\ LoadStatus(len, stack[2], stack[3]) = "ok"
        /\ StoreStatus(LenAfter(len, stack[2], stack[3]), stack[1], stack[3]) = "ok"
    BY <1>1 DEF AccessStatus, MoveStatus, CopyOps
  <2>2. Fits(len, stack[2], stack[3])
    BY <2>1, StatusFits
  <2>3. LenAfter(len, stack[2], stack[3]) \in Nat
    BY <2>2, ExpansionCostNat DEF Fits
  <2> QED
    BY <1>1, <2>1, <2>2, <2>3, StatusFits DEF CopyOps
<1>2. CASE Opcode # "MCOPY"
  BY <1>2, StatusFits DEF CopyOps, AccessStatus, CopyStatus
<1> QED
  BY <1>1, <1>2

\* MLOAD.
LEMMA MLoadTyped ==
    ASSUME ContextTyped, EffectsTyped, MLoad
    PROVE  EffectsTyped'
<1>1. Opcode = "MLOAD" /\ AccessStatus = "ok" /\ Fetch({"MLOAD"})
  BY DEF MLoad, AccessMemory, FetchAccess, Fetch
<1>2. 1 <= Len(stack) /\ Len(stack) \in Nat
  BY <1>1, OneOperand DEF UnaryOps
<1>3. WholeMemory(memory) /\ Fits(Len(memory), stack[1], WordBytes)
  BY <1>1, AccessFits DEF EffectsTyped, BuffersTyped, WholeMemory
<1> DEFINE bytes == Read(memory, stack[1], WordBytes)
<1>4. /\ WholeMemory(Extended(memory, stack[1], WordBytes))
      /\ bytes \in Seq(Byte) /\ Len(bytes) = WordBytes
  BY <1>3, MemoryGrows
<1>5. /\ stack' = Replace(1, WordOf(bytes))
      /\ memory' = Extended(memory, stack[1], WordBytes)
      /\ UNCHANGED <<output, logs, transient>>
  BY DEF MLoad
<1> HIDE DEF bytes
<1>6. WordOf(bytes) \in Word
  BY <1>4, WordOfIsWord, WordBytesAssumption
<1>7. StackTyped'
  BY <1>2, <1>5, <1>6, ReplaceTyped DEF EffectsTyped, StackTyped
<1>8. BuffersTyped'
  BY <1>4, <1>5 DEF EffectsTyped, BuffersTyped, WholeMemory
<1> QED
  BY <1>5, <1>7, <1>8 DEF EffectsTyped, LogsTyped, TransientTyped

\* MSTORE and MSTORE8.
LEMMA MStoreTyped ==
    ASSUME ContextTyped, EffectsTyped, MStore \/ MStore8
    PROVE  EffectsTyped'
<1>1. PICK op \in {"MSTORE", "MSTORE8"}, n \in {1, WordBytes} :
          /\ StoreBytes(op, n)
          /\ n = IF op = "MSTORE" THEN WordBytes ELSE 1
  BY DEF MStore, MStore8
<1>2. Opcode = op /\ AccessStatus = "ok" /\ Fetch({op})
  BY <1>1 DEF StoreBytes, AccessMemory, FetchAccess, Fetch
<1>3. 2 <= Len(stack) /\ Len(stack) \in Nat /\ stack[2] \in Word
  BY <1>2, TwoOperands DEF BinaryOps
<1>4. WholeMemory(memory) /\ Fits(Len(memory), stack[1], n)
  BY <1>1, <1>2, AccessFits DEF EffectsTyped, BuffersTyped, WholeMemory
<1> DEFINE all == BytesOf(stack[2])
           bytes == SubSeq(all, WordBytes - n + 1, WordBytes)
<1>5. all \in Seq(Byte) /\ Len(all) = WordBytes
  <2>1. all \in [1 .. WordBytes -> Byte]
    BY <1>3, BytesOfWord
  <2> HIDE DEF all
  <2> QED
    BY <2>1, WordBytesAssumption
<1>6. bytes \in Seq(Byte)
  <2> HIDE DEF all
  <2>1. n \in 1 .. WordBytes
    BY <1>1, WordBytesAssumption
  <2>2. \A i \in WordBytes - n + 1 .. WordBytes : i \in 1 .. WordBytes
    BY <2>1, WordBytesAssumption
  <2> QED
    BY <1>5, <2>1, WordBytesAssumption
<1>7. /\ stack' = Drop(2)
      /\ memory' = Written(memory, stack[1], n, bytes)
      /\ UNCHANGED <<output, logs, transient>>
  BY <1>1 DEF StoreBytes
<1> HIDE DEF bytes
<1>8. WholeMemory(memory')
  BY <1>4, <1>6, <1>7, MemoryGrows
<1>9. StackTyped'
  BY <1>3, <1>7, DroppedTyped DEF EffectsTyped
<1> QED
  BY <1>7, <1>8, <1>9 DEF EffectsTyped, BuffersTyped, WholeMemory, LogsTyped, TransientTyped

\* The instructions that copy from the input, the code or an account.
LEMMA CopyTyped ==
    ASSUME WorldTyped, ContextTyped, EffectsTyped, tx.data \in Seq(Byte), Copy
    PROVE  EffectsTyped'
<1>1. Opcode \in CopyOps /\ AccessStatus = "ok" /\ Fetch(CopyOps)
  BY DEF Copy, AccessMemory, FetchAccess, Fetch
<1>2. Pops[CodeByte] \in Nat /\ Pops[CodeByte] <= Len(stack)
  BY <1>1, Operands DEF EffectsTyped
<1>3. WholeMemory(memory) /\ Fits(Len(memory), Operand(1), Operand(3))
  BY <1>1, AccessFits DEF EffectsTyped, BuffersTyped, WholeMemory
<1> DEFINE source == Source(Opcode)
           offset == Operand(2)
           size   == Operand(3)
           slice  == SubSeq(source, offset + 1, SliceEnd(Len(source), offset, size))
<1>4. source \in Seq(Byte)
  <2>1. AccountIn(accounts, stack[1]).code \in Seq(Byte)
    BY AccountTyped DEF WorldTyped
  <2> QED
    BY <1>1, <2>1 DEF CopyOps, Source, ContextTyped
<1>5. slice \in Seq(Byte)
  <2>1. ~SlicePanics(Len(source), offset, size)
    BY <1>1 DEF AccessStatus, CopyStatus, CopyOps
  <2>2. offset \in Nat /\ size \in Nat
    BY <2>1 DEF SlicePanics, Usize
  <2> DEFINE last == SliceEnd(Len(source), offset, size)
  <2>3. End(offset, size) \in Nat
    BY <2>2, UsizeAssumption DEF End
  <2>4. last \in Nat /\ last <= Len(source)
    <3> HIDE DEF source, offset, size
    <3> QED
      BY <1>4, <2>3 DEF SliceEnd
  <2> HIDE DEF source, offset, size, last
  <2>5. \A i \in offset + 1 .. last : i \in 1 .. Len(source)
    BY <1>4, <2>2, <2>4
  <2>6. SubSeq(source, offset + 1, last) \in Seq(Byte)
    BY <1>4, <2>2, <2>4, <2>5
  <2> QED
    BY <2>6 DEF last, source, offset, size
<1>6. /\ stack' = Drop(Pops[CodeByte])
      /\ memory' = Written(memory, Operand(1), size, slice)
      /\ UNCHANGED <<output, logs, transient>>
  BY DEF Copy
<1> HIDE DEF slice
<1>7. WholeMemory(memory')
  BY <1>3, <1>5, <1>6, MemoryGrows
<1>8. StackTyped'
  BY <1>2, <1>6, DroppedTyped DEF EffectsTyped
<1> QED
  BY <1>6, <1>7, <1>8 DEF EffectsTyped, BuffersTyped, WholeMemory, LogsTyped, TransientTyped

\* MCOPY.
LEMMA MCopyTyped ==
    ASSUME ContextTyped, EffectsTyped, MCopy
    PROVE  EffectsTyped'
<1>1. Opcode = "MCOPY" /\ AccessStatus = "ok" /\ Fetch({"MCOPY"})
  BY DEF MCopy, AccessMemory, FetchAccess, Fetch
<1>2. 3 <= Len(stack)
  <2>1. CodeByte \in Byte /\ Opcode = Mnemonic[CodeByte] /\ Pops[CodeByte] <= Len(stack)
    BY <1>1, Operands DEF EffectsTyped
  <2> QED
    BY <1>1, <2>1, PopsTable DEF TernaryOps
<1> DEFINE grown == Extended(memory, stack[2], stack[3])
           bytes == Read(memory, stack[2], stack[3])
<1>3. /\ WholeMemory(memory) /\ Fits(Len(memory), stack[2], stack[3])
      /\ Fits(LenAfter(Len(memory), stack[2], stack[3]), stack[1], stack[3])
  BY <1>1, AccessFits DEF EffectsTyped, BuffersTyped, WholeMemory
<1>4. /\ WholeMemory(grown) /\ Len(grown) = LenAfter(Len(memory), stack[2], stack[3])
      /\ bytes \in Seq(Byte)
  BY <1>3, MemoryGrows
<1>5. /\ stack' = Drop(3)
      /\ memory' = Written(grown, stack[1], stack[3], bytes)
      /\ UNCHANGED <<output, logs, transient>>
  BY DEF MCopy
<1> HIDE DEF grown, bytes
<1>6. WholeMemory(memory')
  BY <1>3, <1>4, <1>5, MemoryGrows
<1>7. StackTyped'
  BY <1>2, <1>5, DroppedTyped DEF EffectsTyped
<1> QED
  BY <1>5, <1>6, <1>7 DEF EffectsTyped, BuffersTyped, WholeMemory, LogsTyped, TransientTyped

-------------------------------------------------------------------------------
(* The type invariant.                                                         *)

\* KECCAK256, LOG, RETURN and REVERT take a range of the memory.
LEMMA RangeTyped ==
    ASSUME ContextTyped, EffectsTyped, NEW op \in {"KECCAK256", "LOG", "RETURN", "REVERT"},
           AccessMemory({op})
    PROVE  /\ 2 <= Len(stack) /\ Len(stack) \in Nat
           /\ WholeMemory(Extended(memory, stack[1], stack[2]))
           /\ Read(memory, stack[1], stack[2]) \in Seq(Byte)
           /\ Len(Read(memory, stack[1], stack[2])) <= AllocLimit
<1>1. Opcode = op /\ AccessStatus = "ok" /\ Fetch({op})
  BY DEF AccessMemory, FetchAccess, Fetch
<1>2. /\ CodeByte \in Byte /\ Opcode = Mnemonic[CodeByte] /\ Pops[CodeByte] <= Len(stack)
      /\ Len(stack) \in Nat /\ Pops[CodeByte] \in Nat
  BY <1>1, Operands DEF EffectsTyped
<1>3. Pops[CodeByte] >= 2
  <2>1. CASE op = "LOG"
    <3>1. Arg[CodeByte] \in 0 .. 4
      BY <1>1, <1>2, <2>1, Numbers
    <3>2. Pops[CodeByte] = 2 + Arg[CodeByte]
      BY <1>1, <1>2, <2>1, PopsTable
    <3> QED
      BY <3>1, <3>2
  <2>2. CASE op # "LOG"
    BY <1>1, <1>2, <2>2, PopsTable DEF BinaryOps
  <2> QED
    BY <2>1, <2>2
<1>4. WholeMemory(memory) /\ Fits(Len(memory), stack[1], stack[2])
  <2>1. WholeMemory(memory) /\ Len(memory) \in Nat
    BY DEF EffectsTyped, BuffersTyped, WholeMemory
  <2> QED
    BY <1>1, <2>1, AccessFits
<1> QED
  BY <1>2, <1>3, <1>4, MemoryGrows

\* KECCAK256.
LEMMA KeccakTyped ==
    ASSUME Computed, ContextTyped, EffectsTyped, Keccak256
    PROVE  EffectsTyped'
<1> DEFINE bytes == Read(memory, stack[1], stack[2])
<1>1. /\ AccessMemory({"KECCAK256"})
      /\ stack' = Replace(2, Keccak(bytes))
      /\ memory' = Extended(memory, stack[1], stack[2])
      /\ UNCHANGED <<output, logs, transient>>
  BY DEF Keccak256
<1>2. /\ 2 <= Len(stack) /\ Len(stack) \in Nat
      /\ WholeMemory(memory') /\ bytes \in Seq(Byte)
  BY <1>1, RangeTyped
<1> HIDE DEF bytes
<1>3. Keccak(bytes) \in Word
  BY <1>2 DEF Computed
<1>4. StackTyped'
  BY <1>1, <1>2, <1>3, ReplaceTyped, SizesAssumption DEF EffectsTyped, StackTyped
<1> QED
  BY <1>1, <1>2, <1>4 DEF EffectsTyped, BuffersTyped, WholeMemory, LogsTyped, TransientTyped

\* LOG records at most four topics.
LEMMA LogTyped ==
    ASSUME ContextTyped, EffectsTyped, NEW n \in 0 .. 4, Log(n)
    PROVE  EffectsTyped'
<1> DEFINE bytes == Read(memory, stack[1], stack[2])
           topics == SubSeq(stack, 3, 2 + n)
           E == [data : Seq(Byte), topics : {words \in Seq(Word) : Len(words) <= 4}]
<1>1. /\ AccessMemory({"LOG"}) /\ Arg[CodeByte] = n
      /\ stack' = Drop(2 + n)
      /\ memory' = Extended(memory, stack[1], stack[2])
      /\ logs' = Append(logs, LogEntry(bytes, topics))
      /\ UNCHANGED <<output, transient>>
  BY DEF Log
<1>2. WholeMemory(memory') /\ bytes \in Seq(Byte)
  BY <1>1, RangeTyped
<1>3. 2 + n <= Len(stack) /\ stack \in Seq(Word) /\ Len(stack) \in Nat /\ n \in Nat
  <2>1. /\ Opcode = "LOG" /\ CodeByte \in Byte /\ Opcode = Mnemonic[CodeByte]
        /\ Pops[CodeByte] <= Len(stack)
    BY <1>1, Operands DEF AccessMemory, FetchAccess, Fetch, EffectsTyped
  <2> QED
    BY <1>1, <2>1, PopsTable DEF EffectsTyped, StackTyped
<1>4. topics \in Seq(Word) /\ Len(topics) = n
  <2>1. \A i \in 3 .. 2 + n : i \in 1 .. Len(stack)
    BY <1>3
  <2> QED
    BY <1>3, <2>1
<1> HIDE DEF bytes, topics
<1>5. LogEntry(bytes, topics) \in E
  BY <1>2, <1>3, <1>4 DEF LogEntry
<1>6. logs \in Seq(E)
  BY DEF EffectsTyped, LogsTyped
<1> HIDE DEF E
<1>7. logs' \in Seq(E)
  BY <1>1, <1>5, <1>6
<1>8. LogsTyped'
  BY <1>7 DEF LogsTyped, E
<1>9. StackTyped'
  BY <1>1, <1>3, DroppedTyped DEF EffectsTyped
<1> QED
  BY <1>1, <1>2, <1>8, <1>9 DEF EffectsTyped, BuffersTyped, WholeMemory, TransientTyped

\* RETURN and REVERT.
LEMMA HaltTyped ==
    ASSUME ContextTyped, EffectsTyped, NEW op \in {"RETURN", "REVERT"}, NEW reverts,
           Halt(op, reverts)
    PROVE  EffectsTyped'
<1>1. /\ AccessMemory({op})
      /\ stack' = Drop(2)
      /\ memory' = Extended(memory, stack[1], stack[2])
      /\ output' = Read(memory, stack[1], stack[2])
      /\ UNCHANGED <<logs, transient>>
  BY DEF Halt
<1>2. /\ 2 <= Len(stack)
      /\ WholeMemory(memory') /\ output' \in Seq(Byte) /\ Len(output') <= AllocLimit
  BY <1>1, RangeTyped
<1>3. StackTyped'
  BY <1>1, <1>2, DroppedTyped DEF EffectsTyped
<1> QED
  BY <1>1, <1>2, <1>3 DEF EffectsTyped, BuffersTyped, WholeMemory, LogsTyped, TransientTyped

\* The slots of every contract are words.
SlotsTyped ==
    /\ DOMAIN storage \subseteq Address
    /\ \A a \in DOMAIN storage : IsMap(storage[a], Word, EntryOf(Word))

\* Every instruction leaves words on the stack and in the slots, and bytes in memory.
LEMMA ExecuteEffectsTyped ==
    ASSUME Computed, Typed, Execute
    PROVE  EffectsTyped' /\ SlotsTyped'
<1>1. phase = "running" /\ tx.data \in Seq(Byte)
  BY ExecuteRuns, RunningTransaction, TransactionsAssumption DEF Typed
<1>2. /\ Control /\ WorldTyped /\ ContextTyped /\ BuffersTyped /\ EffectsTyped /\ SlotsTyped
  BY DEF Typed, EffectsTyped, WorldTyped, SlotsTyped
<1>3. UNCHANGED storage => SlotsTyped'
  BY <1>2 DEF SlotsTyped
<1>4. UNCHANGED effects => EffectsTyped'
  BY <1>2 DEF effects, EffectsTyped, StackTyped, BuffersTyped, LogsTyped, TransientTyped
<1>5. CASE \/ ComputeAlu \/ PushContext \/ Dup \/ CallDataLoad
           \/ \E n \in 0 .. 32 : Push(n)
           \/ QueryAccount \/ SelfBalance
  <2>1. CASE ComputeAlu
    BY <1>2, <1>3, <2>1, AluTyped DEF ComputeAlu
  <2>2. CASE PushContext
    <3>1. Fetch(ContextOps) /\ Len(stack) \in Nat /\ Len(stack) < StackSize
      BY <1>2, <2>2, RoomToGrow, Operands DEF PushContext, Fetch, EffectsTyped
    <3>2. ContextValue(Opcode) \in Word
      BY <1>2, <3>1, ContextWords
    <3> QED
      BY <1>2, <1>3, <2>2, <3>1, <3>2, ComputeTyped DEF PushContext
  <2>3. CASE Dup
    BY <1>2, <1>3, <2>3, DupTyped DEF Dup
  <2>4. CASE CallDataLoad
    BY <1>1, <1>2, <1>3, <2>4, InputTyped DEF CallDataLoad
  <2>5. ASSUME NEW n \in 0 .. 32, Push(n)
        PROVE  EffectsTyped' /\ SlotsTyped'
    BY <1>2, <1>3, <2>5, PushTyped DEF Push
  <2>6. CASE QueryAccount
    BY <1>2, <1>3, <2>6, QueryTyped DEF QueryAccount
  <2>7. CASE SelfBalance
    BY <1>2, <1>3, <2>7, SelfBalanceTyped DEF SelfBalance
  <2> QED
    BY <1>5, <2>1, <2>2, <2>3, <2>4, <2>5, <2>6, <2>7
<1>6. CASE \/ MLoad \/ MStore \/ MStore8 \/ Copy \/ MCopy \/ Keccak256
           \/ \E n \in 0 .. 4 : Log(n)
           \/ Return \/ Revert
  <2>1. CASE MLoad
    BY <1>2, <1>3, <2>1, MLoadTyped DEF MLoad
  <2>2. CASE MStore \/ MStore8
    BY <1>2, <1>3, <2>2, MStoreTyped DEF MStore, MStore8, StoreBytes
  <2>3. CASE Copy
    BY <1>1, <1>2, <1>3, <2>3, CopyTyped DEF Copy
  <2>4. CASE MCopy
    BY <1>2, <1>3, <2>4, MCopyTyped DEF MCopy
  <2>5. CASE Keccak256
    BY <1>2, <1>3, <2>5, KeccakTyped DEF Keccak256
  <2>6. ASSUME NEW n \in 0 .. 4, Log(n)
        PROVE  EffectsTyped' /\ SlotsTyped'
    BY <1>2, <1>3, <2>6, LogTyped DEF Log
  <2>7. CASE Return \/ Revert
    BY <1>2, <1>3, <2>7, HaltTyped DEF Return, Revert, Halt
  <2> QED
    BY <1>6, <2>1, <2>2, <2>3, <2>4, <2>5, <2>6, <2>7
<1>7. CASE SLoad \/ SStore
  BY <1>2, <1>7, SLoadTyped, SStoreTyped DEF SlotsTyped
<1>8. CASE TLoad \/ TStore
  BY <1>2, <1>3, <1>8, TransientStepsTyped DEF TLoad, TStore
<1>9. CASE Pop \/ Jump \/ JumpDest \/ Stop \/ Invalid
  BY <1>2, <1>3, <1>9, FlowTyped DEF Pop, Jump, JumpDest, Stop, Invalid
<1>10. CASE Swap
  BY <1>2, <1>3, <1>10, SwapTyped DEF Swap
<1>11. CASE \/ StackUnderflow \/ StackOverflow \/ Unimplemented \/ CallDataOverflow
            \/ InvalidAddress \/ AccessFails \/ InvalidJump \/ Finish
  <2>1. UNCHANGED storage /\ UNCHANGED effects
    BY <1>11 DEF StackUnderflow, StackOverflow, Unimplemented, CallDataOverflow,
                 InvalidAddress, AccessFails, InvalidJump, Finish, Abort
  <2> QED
    BY <1>3, <1>4, <2>1
<1> QED
  BY <1>5, <1>6, <1>7, <1>8, <1>9, <1>10, <1>11 DEF Execute

\* The accounts, after an instruction or the epilogue.
LEMMA ExecuteAccountsTyped ==
    ASSUME Typed, Execute
    PROVE  AccountsTyped(accounts')
<1>1. /\ tx \in Transactions /\ AccountsTyped(accounts) /\ address \in Address
      /\ BuffersOK /\ FlagsOK /\ gas \in Nat
  BY ExecuteRuns, RunningTransaction, ControlFunded
     DEF Typed, WorldTyped, ContextTyped, Control
<1>2. \A acc : Loads(acc) => AccountsTyped(acc)
  BY <1>1, TouchedTyped DEF Loads
<1>3. CASE Charged
  BY <1>1, <1>2, <1>3, PayGasTyped DEF Charged, Settle
<1>4. CASE Failed
  BY <1>2, <1>4 DEF Failed, Abort
<1>5. CASE Finish
  <2> DEFINE deposit == PayGas(accounts, tx, gas, 200 * Len(output))
  <2>1. 200 * Len(output) \in Nat
    BY DEF Typed, BuffersTyped
  <2>2. AccountsTyped(deposit.accounts)
    BY <1>1, <2>1, PayGasTyped
  <2> HIDE DEF deposit
  <2>3. AccountsTyped(Created(deposit.accounts))
    <3>1. tx.value \in Word /\ output \in Seq(Byte) /\ Len(output) \in Usize
      BY <1>1, TransactionsAssumption, WordBounds DEF Typed, BuffersTyped
    <3>2. [balance |-> tx.value, code |-> output] \in Sized
      BY <3>1 DEF Sized, Accounts
    <3> QED
      BY <1>1, <2>2, <3>2, MapTyped, NoAccountSized DEF Created, AccountsTyped
  <2>4. tx.from \in Address /\ tx.value \in Nat
    BY <1>1, TransactionsAssumption DEF Word
  <2>5. AccountsTyped(DecreaseBalance(Created(deposit.accounts), tx.from, tx.value,
                                      deposit.gas).accounts)
    BY <2>3, <2>4, DecreaseTyped
  <2>6. Epilogue.accounts \in {accounts, deposit.accounts,
            DecreaseBalance(Created(deposit.accounts), tx.from, tx.value, deposit.gas).accounts}
    BY DEF Epilogue, Receipt, deposit
  <2>7. accounts' = Epilogue.accounts
    BY <1>5 DEF Finish
  <2> QED
    BY <1>1, <2>2, <2>5, <2>6, <2>7
<1> QED
  BY <1>1, <1>3, <1>4, <1>5, ExecuteShapes

\* The program counter, at most one PUSH32 past the end of the code.
LEMMA ExecuteContextTyped ==
    ASSUME ContextTyped, Execute
    PROVE  ContextTyped'
<1>1. /\ address \in Address /\ code \in Seq(Byte) /\ Len(code) \in Usize /\ Len(code) \in Nat
      /\ pc \in 0 .. Len(code) + 32 /\ pc \in Nat
  BY DEF ContextTyped, Usize
<1>2. Advances(pc') /\ UNCHANGED code
  BY <1>1, ExecuteMoves DEF Moves
<1>3. UNCHANGED address
  BY ExecuteConfined DEF Confined, contract, Finish
<1>4. pc' \in 0 .. Len(code) + 32
  <2>1. CASE pc' = pc
    BY <1>1, <2>1
  <2>2. ASSUME pc < Len(code), NEW n \in Nat \ {0}, Width(code[pc + 1]) = n, pc' = pc + n
        PROVE  pc' \in 0 .. Len(code) + 32
    <3>1. code[pc + 1] \in Byte
      BY <2>2, OpcodeByte
    <3>2. n <= 33
      <4>1. Arg[code[pc + 1]] \in 0 .. 32
        BY <3>1, Numbers
      <4>2. n \in {1, Arg[code[pc + 1]] + 1}
        BY <2>2 DEF Width
      <4> QED
        BY <4>1, <4>2
    <3> QED
      BY <1>1, <2>2, <3>2
  <2>3. CASE JumpTarget(pc')
    BY <1>1, <2>3, UsizeAssumption DEF JumpTarget, Usize
  <2> QED
    BY <1>2, <2>1, <2>2, <2>3 DEF Advances
<1> QED
  BY <1>1, <1>2, <1>3, <1>4 DEF ContextTyped

\* The prologue of a transaction.
LEMMA RunTyped ==
    ASSUME Typed, NEW t \in Transactions, Run(t), Control'
    PROVE  Typed'
<1> DEFINE target == ContractAddress(t)
           called == IF IsCreation(t) THEN accounts ELSE Touched(accounts, target)
<1>1. /\ t.from \in Address /\ target \in Address /\ t.data \in Seq(Byte)
      /\ Len(t.data) \in Usize
  BY TransactionsAssumption
<1>2. AccountsTyped(accounts)
  BY DEF Typed, WorldTyped
<1>3. AccountsTyped(called)
  BY <1>1, <1>2, TouchedTyped
<1>4. accounts' = Admission(Touched(called, t.from), t).accounts
  BY DEF Run
<1> HIDE DEF called
<1>5. AccountsTyped(accounts')
  BY <1>1, <1>3, <1>4, TouchedTyped, AdmissionTyped
<1>6. WorldTyped'
  BY <1>5 DEF Run, Typed, WorldTyped
<1>7. ContextTyped'
  <2>1. address' = target /\ pc' = 0
        /\ code' = IF IsCreation(t) THEN t.data ELSE AccountIn(accounts, target).code
    BY DEF Run
  <2>2. code' \in Seq(Byte) /\ Len(code') \in Usize
    BY <1>1, <1>2, <2>1, AccountTyped
  <2> QED
    BY <1>1, <2>1, <2>2 DEF ContextTyped, Usize
<1>8. stack' = <<>> /\ memory' = <<>> /\ output' = <<>> /\ logs' = <<>> /\ transient' = EmptyMap
  BY DEF Run
<1>9. StackTyped' /\ LogsTyped' /\ TransientTyped'
  BY <1>8, SizesAssumption DEF StackTyped, LogsTyped, TransientTyped, IsMap, EmptyMap
<1>10. BuffersTyped'
  BY <1>8, AllocAssumption, WordBytesAssumption DEF BuffersTyped
<1> QED
  BY <1>6, <1>7, <1>9, <1>10 DEF Typed

\* Every step of the machine.
LEMMA NextTyped ==
    ASSUME Computed, Typed, [Next]_vars
    PROVE  Typed'
<1>1. Control'
  BY NextControl DEF Typed
<1>2. CASE UNCHANGED vars
  BY <1>1, <1>2 DEF vars, contract, effects, Typed, WorldTyped, ContextTyped, StackTyped,
                    BuffersTyped, LogsTyped, TransientTyped
<1>3. ASSUME NEW t \in Transactions, Run(t)
      PROVE  Typed'
  BY <1>1, <1>3, RunTyped
<1>4. CASE Execute
  <2>1. EffectsTyped' /\ SlotsTyped'
    BY <1>4, ExecuteEffectsTyped
  <2>2. AccountsTyped(accounts')
    BY <1>4, ExecuteAccountsTyped
  <2>3. ContextTyped'
    BY <1>4, ExecuteContextTyped DEF Typed
  <2> QED
    BY <1>1, <2>1, <2>2, <2>3 DEF Typed, EffectsTyped, SlotsTyped, WorldTyped
<1> QED
  BY <1>2, <1>3, <1>4 DEF Next

\* In every state of every run each variable has its Rust type, the stack has at most
\* 1024 words, the memory is a whole number of words that could be allocated, and the
\* program counter is at most one PUSH32 past the end of the code.
THEOREM AlwaysTyped ==
    ASSUME Computed
    PROVE  Spec => []TypeOK
<1>1. Init => Typed
  BY InitTyped
<1>2. Typed /\ [Next]_vars => Typed'
  BY NextTyped
<1>3. Typed => TypeOK
  BY TypedTypeOK
<1> QED
  BY <1>1, <1>2, <1>3, PTL DEF Spec

===============================================================================
