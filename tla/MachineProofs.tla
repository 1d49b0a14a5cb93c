---------------------------- MODULE MachineProofs -----------------------------
(***************************************************************************)
(* The control of Machine, for every value of its constants, and its       *)
(* money: in a build that checks for overflow, the sender can always pay,  *)
(* and Machine implements Ledger.                                          *)
(***************************************************************************)
EXTENDS MachineProperties, FiniteSetTheorems, TLAPS

-------------------------------------------------------------------------------
(* Arithmetic. *)

\* Products of naturals grow with their factors.
LEMMA TimesMonotone ==
    ASSUME NEW a \in Nat, NEW b \in Nat, NEW c \in Nat, a <= b
    PROVE  a * c <= b * c
OBVIOUS

\* A product with a difference.
LEMMA TimesMinus ==
    ASSUME NEW g \in Nat, NEW c \in Nat, NEW p \in Nat, c <= g
    PROVE  (g - c) * p = g * p - c * p
OBVIOUS

\* What \div computes.
LEMMA Division ==
    ASSUME NEW a \in Nat, NEW d \in Nat \ {0}
    PROVE  a \div d \in Nat /\ d * (a \div d) <= a /\ a < d * (a \div d) + d
OBVIOUS

\* Quotients grow with what is divided.
LEMMA DivisionMonotone ==
    ASSUME NEW a \in Nat, NEW b \in Nat, NEW d \in Nat \ {0}, a <= b
    PROVE  a \div d <= b \div d
<1> DEFINE p == a \div d
           q == b \div d
<1>1. p \in Nat /\ d * p <= a
  BY Division
<1>2. q \in Nat /\ b < d * q + d
  BY Division
<1> HIDE DEF p, q
<1>3. SUFFICES ASSUME p > q PROVE FALSE
  BY <1>1, <1>2 DEF p, q
<1>4. (q + 1) * d <= p * d
  BY <1>1, <1>2, <1>3, TimesMonotone
<1>5. (q + 1) * d = d * q + d /\ p * d = d * p
  BY <1>1, <1>2
<1> QED
  BY <1>1, <1>2, <1>4, <1>5

-------------------------------------------------------------------------------
(* Memory. *)

\* A length takes a natural number of words.
LEMMA WordsNat ==
    ASSUME NEW n \in Nat
    PROVE  Words(n) \in Nat
<1>1. n + WordBytes - 1 \in Nat
  BY WordBytesAssumption
<1> QED
  BY <1>1, WordBytesAssumption, Division DEF Words

\* A larger memory never costs less.
LEMMA MemoryCostMonotone ==
    ASSUME NEW m \in Nat, NEW n \in Nat, m <= n
    PROVE  MemoryCost(m) \in Nat /\ MemoryCost(n) \in Nat /\ MemoryCost(m) <= MemoryCost(n)
<1> DEFINE p == Words(m)
           q == Words(n)
<1>1. p \in Nat /\ q \in Nat
  BY WordsNat
<1>2. p <= q
  BY WordBytesAssumption, DivisionMonotone,
     m + WordBytes - 1 \in Nat, n + WordBytes - 1 \in Nat,
     m + WordBytes - 1 <= n + WordBytes - 1 DEF Words
<1> HIDE DEF p, q
<1>3. p * p \in Nat /\ q * q \in Nat /\ p * p <= q * q
  <2>1. p * p <= q * p /\ p * q <= q * q
    BY <1>1, <1>2, TimesMonotone
  <2> QED
    BY <1>1, <2>1
<1>4. (p * p) \div 512 <= (q * q) \div 512
  BY <1>3, DivisionMonotone
<1>5. (p * p) \div 512 \in Nat /\ (q * q) \div 512 \in Nat
  BY <1>3, Division
<1> QED
  BY <1>1, <1>2, <1>4, <1>5 DEF MemoryCost, p, q

\* An access never shrinks the memory, and its extension is never refunded.
LEMMA ExpansionCostNat ==
    ASSUME NEW len \in Nat, NEW offset, NEW size, InBounds(offset, size)
    PROVE  /\ LenAfter(len, offset, size) \in Nat
           /\ len <= LenAfter(len, offset, size)
           /\ ExpansionCost(len, offset, size) \in Nat
<1>1. offset \in Nat /\ size \in Nat
  BY DEF InBounds, Usize
<1>2. End(offset, size) \in Nat
  BY <1>1, UsizeAssumption DEF End
<1>3. ExtensionSize(len, offset, size) \in Nat
  <2>1. CASE len >= End(offset, size)
    BY <2>1 DEF ExtensionSize
  <2>2. CASE ~(len >= End(offset, size))
    <3> DEFINE gap == End(offset, size) - len - 1
    <3>1. gap \in Nat
      BY <1>2, <2>2
    <3>2. gap \div WordBytes \in Nat
      BY <3>1, WordBytesAssumption, Division
    <3>3. ((gap \div WordBytes) + 1) * WordBytes \in Nat
      BY <3>2, WordBytesAssumption
    <3>4. (((gap \div WordBytes) + 1) * WordBytes) % UsizeMod \in Nat
      BY <3>3, UsizeAssumption
    <3> QED
      BY <2>2, <3>4 DEF ExtensionSize
  <2> QED
    BY <2>1, <2>2
<1>4. LenAfter(len, offset, size) \in Nat /\ len <= LenAfter(len, offset, size)
  BY <1>3 DEF LenAfter
<1>5. ExpansionCost(len, offset, size) \in Nat
  BY <1>4, MemoryCostMonotone DEF ExpansionCost
<1> QED
  BY <1>4, <1>5

\* The buffers that the operators of MemoryOps build are sequences.
LEMMA BufferLengths ==
    ASSUME NEW mem, Len(mem) \in Nat, NEW offset, NEW size, InBounds(offset, size),
           NEW bytes
    PROVE  /\ Len(Extended(mem, offset, size)) = LenAfter(Len(mem), offset, size)
           /\ Len(Written(mem, offset, size, bytes)) = LenAfter(Len(mem), offset, size)
           /\ Len(Read(mem, offset, size)) = size
<1>1. LenAfter(Len(mem), offset, size) \in Nat /\ size \in Nat
  BY ExpansionCostNat DEF InBounds, Usize
<1> QED
  BY <1>1 DEF Extended, Written, Read

-------------------------------------------------------------------------------
(* Balances. *)

\* Loading a key changes no value.
LEMMA ValueAfterLoad ==
    ASSUME NEW m, NEW k, NEW default, NEW x
    PROVE  Loaded(AfterLoad(m, k, default), x, default).value = Loaded(m, x, default).value
BY DEF Loaded, AfterLoad, Put, Entry

\* Storing under a key changes its value and no other.
LEMMA ValueAfterStore ==
    ASSUME NEW m, NEW k, NEW value, NEW default, NEW x
    PROVE  Loaded(AfterStore(m, k, value, default), x, default).value
               = IF x = k THEN value ELSE Loaded(m, x, default).value
BY DEF Loaded, AfterStore, Put, Entry

\* Loading an account, as every query does, moves no money.
LEMMA BalanceTouched ==
    ASSUME NEW acc, NEW a, NEW b
    PROVE  BalanceOf(Touched(acc, a), b) = BalanceOf(acc, b)
BY ValueAfterLoad DEF BalanceOf, AccountIn, Touched

\* decrease_balance takes its cost from one account and nothing from the others.
LEMMA BalanceDebited ==
    ASSUME NEW acc, NEW a, NEW cost, NEW b
    PROVE  BalanceOf(Debited(acc, a, cost), b)
               = IF b = a THEN BalanceOf(acc, a) - cost ELSE BalanceOf(acc, b)
<1> DEFINE account == [balance |-> AccountIn(acc, a).balance - cost,
                       code |-> AccountIn(acc, a).code]
<1>1. AccountIn(Debited(acc, a, cost), b)
          = IF b = a THEN account ELSE AccountIn(Touched(acc, a), b)
  BY ValueAfterStore DEF AccountIn, Debited
<1> QED
  BY <1>1, BalanceTouched DEF BalanceOf

\* The accounts have natural balances, known or not.
Funded(acc) == \A a : BalanceOf(acc, a) \in Nat

SameBalances(acc) == \A a : BalanceOf(acc, a) = BalanceOf(accounts, a)

\* It is enough that the accounts that are known have natural balances.
LEMMA FundedAccounts ==
    ASSUME NEW acc
    PROVE  Funded(acc) <=> \A a \in DOMAIN acc : acc[a].value.balance \in Nat
BY DEF Funded, BalanceOf, AccountIn, Loaded, Entry, NoAccount

\* A fee is a natural number, wrapped or not.
LEMMA FeeNat ==
    ASSUME NEW t \in Transactions, NEW cost \in Nat
    PROVE  Fee(t, cost) \in Nat /\ cost * t.gas_price \in Nat
<1>1. t.gas_price \in Nat
  BY TransactionsAssumption DEF Usize
<1>2. cost * t.gas_price \in Nat
  BY <1>1
<1> QED
  BY <1>2, UsizeAssumption DEF Fee

\* What pay_gas_cost does in any build: it never creates gas, and debits nobody
\* below zero.
LEMMA PayGasFunded ==
    ASSUME NEW acc, Funded(acc), NEW t \in Transactions, NEW g \in Nat, NEW cost \in Nat,
           NEW r, r = PayGas(acc, t, g, cost)
    PROVE  /\ r.gas \in 0 .. g
           /\ Funded(r.accounts)
           /\ r.status \in {"ok", "OutOfGas", "InsufficientFunds", "panic"}
<1>1. CASE g < cost
  BY <1>1 DEF PayGas, Receipt
<1>2. CASE ~(g < cost) /\ FeePanics(t, cost)
  BY <1>2 DEF PayGas, Receipt
<1>3. CASE ~(g < cost) /\ ~FeePanics(t, cost)
  <2> DEFINE fee == Fee(t, cost)
  <2>1. r = DecreaseBalance(acc, t.from, fee, g - cost)
    BY <1>3 DEF PayGas
  <2>2. CASE BalanceOf(acc, t.from) < fee
    BY <1>3, <2>1, <2>2, BalanceTouched DEF DecreaseBalance, Receipt, BalanceOf, Funded
  <2>3. CASE ~(BalanceOf(acc, t.from) < fee)
    <3>1. r = Receipt("ok", g - cost, Debited(acc, t.from, fee))
      BY <2>1, <2>3 DEF DecreaseBalance, BalanceOf
    <3>2. BalanceOf(acc, t.from) - fee \in Nat
      BY <2>3, FeeNat DEF Funded
    <3>3. Funded(Debited(acc, t.from, fee))
      BY <3>2, BalanceDebited DEF Funded
    <3> QED
      BY <1>3, <3>1, <3>3 DEF Receipt
  <2> QED
    BY <2>2, <2>3
<1> QED
  BY <1>1, <1>2, <1>3

\* The funds of the sender cover g gas and the value, and no fee overflows.
Covers(acc, t, g) ==
    /\ BalanceOf(acc, t.from) >= g * t.gas_price + t.value
    /\ g * t.gas_price < UsizeMod

\* When they do, pay_gas_cost can only fail for lack of gas, and what it leaves
\* still covers the gas that is left.
LEMMA PayGasCovered ==
    ASSUME NEW acc, Funded(acc), NEW t \in Transactions, NEW g \in Nat, NEW cost \in Nat,
           Covers(acc, t, g),
           NEW r, r = PayGas(acc, t, g, cost)
    PROVE  IF g < cost THEN r = Receipt("OutOfGas", 0, acc)
           ELSE /\ r = Receipt("ok", g - cost, Debited(acc, t.from, cost * t.gas_price))
                /\ Covers(r.accounts, t, r.gas)
<1> DEFINE p == t.gas_price
           b == BalanceOf(acc, t.from)
<1>1. CASE g < cost
  BY <1>1 DEF PayGas
<1>2. CASE ~(g < cost)
  <2>1. p \in Nat /\ t.value \in Nat /\ b \in Nat
    BY TransactionsAssumption DEF Usize, Word, Funded
  <2>2. cost * p \in Nat /\ g * p \in Nat /\ cost * p <= g * p
    BY <1>2, <2>1, TimesMonotone
  <2>3. (g - cost) * p = g * p - cost * p
    BY <1>2, <2>1, TimesMinus
  <2>4. b >= g * p + t.value /\ g * p < UsizeMod
    BY DEF Covers
  <2>5. Fee(t, cost) = cost * p /\ ~FeePanics(t, cost)
    BY <2>2, <2>4, UsizeAssumption DEF Fee, FeePanics
  <2>6. ~(b < cost * p)
    BY <2>1, <2>2, <2>4
  <2>7. r = Receipt("ok", g - cost, Debited(acc, t.from, cost * p))
    BY <1>2, <2>5, <2>6 DEF PayGas, DecreaseBalance, BalanceOf
  <2>8. BalanceOf(Debited(acc, t.from, cost * p), t.from) = b - cost * p
    BY BalanceDebited
  <2>9. Covers(Debited(acc, t.from, cost * p), t, g - cost)
    <3> HIDE DEF p, b
    <3>1. b - cost * p >= (g - cost) * p + t.value
      BY <2>1, <2>2, <2>3, <2>4
    <3>2. (g - cost) * p < UsizeMod
      BY <2>2, <2>3, <2>4, UsizeAssumption
    <3> QED
      BY <2>8, <3>1, <3>2 DEF Covers, p
  <2> QED
    BY <1>2, <2>7, <2>9 DEF Receipt
<1> QED
  BY <1>1, <1>2

-------------------------------------------------------------------------------
(* The shapes of a step.  What follows needs of an instruction no more than    *)
(* that it fails without being charged, or is charged some cost, and that it   *)
(* moves no money itself.                                                      *)

\* The errors of instructions, and the panics.
Failures == {"EmptyStack", "StackOverflow", "InvalidJumpDest", "InvalidAddress",
             "MemoryOutOfBounds", "panic"}

\* The accounts that instructions leave, before they are charged, are those they
\* find, or with one loaded: by its address, or the contract's own.
Loads(acc) ==
    acc = accounts \/ \E a \in Address \cup {address} : acc = Touched(accounts, a)

BuffersOK == Len(memory) \in Nat /\ Len(output) \in Nat

FlagsOK == stop \in BOOLEAN /\ revert \in BOOLEAN

Failed ==
    \E acc, status :
        status \in Failures /\ Loads(acc) /\ Abort(status, acc)

Charged ==
    /\ BuffersOK' /\ FlagsOK'
    /\ \E acc, cost, next : cost \in Nat /\ Loads(acc) /\ Settle(acc, cost, next)

\* What an instruction may leave ...
LEMMA LoadsTouched ==
    /\ Loads(accounts)
    /\ \A a \in Address \cup {address} : Loads(Touched(accounts, a))
BY DEF Loads

\* ... has the balances it had.
LEMMA LoadsBalances ==
    ASSUME NEW acc, Loads(acc)
    PROVE  SameBalances(acc)
BY BalanceTouched DEF Loads, SameBalances

\* EXTCODECOPY loads the account of a valid address.
LEMMA LoadsCopied ==
    ASSUME NEW ops, FetchAccess(ops)
    PROVE  Loads(CopiedFrom)
BY LoadsTouched DEF FetchAccess, CopiedFrom

\* What shows that a step is charged ...
LEMMA ChargedHow ==
    ASSUME BuffersOK', FlagsOK', NEW acc, NEW cost \in Nat, NEW next,
           Loads(acc), Settle(acc, cost, next)
    PROVE  Charged
BY DEF Charged

\* ... or fails.
LEMMA FailedHow ==
    ASSUME NEW acc, NEW status \in Failures, Loads(acc), Abort(status, acc)
    PROVE  Failed
BY DEF Failed

\* An instruction that replaces words on the stack is charged.
LEMMA ComputeCharged ==
    ASSUME BuffersOK, FlagsOK, NEW n, NEW w, NEW acc, NEW cost \in Nat, NEW next,
           Loads(acc), Compute(n, w, acc, cost, next)
    PROVE  Charged
BY ChargedHow DEF Compute, BuffersOK, FlagsOK

\* needed_size_in_bytes counts.
LEMMA NeededSizeNat ==
    ASSUME NEW w
    PROVE  NeededSize(w) \in Nat
<1> DEFINE all == 0 .. WordBytes - 1
<1>1. IsFiniteSet(all)
  BY FS_Interval, WordBytesAssumption
<1>2. {i \in all : w >= 256^i} \subseteq all
  OBVIOUS
<1> QED
  BY <1>1, <1>2, FS_Subset, FS_CardinalityType DEF NeededSize

\* An arithmetic or logic instruction has a natural cost.
LEMMA AluCostNat ==
    ASSUME NEW op, NEW args
    PROVE  AluCost(op, args) \in Nat
BY NeededSizeNat DEF AluCost

\* An access to memory succeeds, is out of bounds or panics.
LEMMA AccessStatuses ==
    ASSUME Opcode \in MemoryOpcodes
    PROVE  AccessStatus \in {"ok", "MemoryOutOfBounds", "panic"}
BY DEF MemoryOpcodes, CopyOps, AccessStatus, LoadStatus, StoreStatus, MoveStatus,
       CopyStatus

\* An access that succeeds is in bounds, all of it.
LEMMA AccessInBounds ==
    ASSUME AccessStatus = "ok"
    PROVE  /\ Opcode \in {"MLOAD", "MSTORE"} => InBounds(stack[1], WordBytes)
           /\ Opcode = "MSTORE8" => InBounds(stack[1], 1)
           /\ Opcode \in {"KECCAK256", "LOG", "RETURN", "REVERT"} =>
                 InBounds(stack[1], stack[2])
           /\ Opcode = "MCOPY" =>
                 InBounds(stack[2], stack[3]) /\ InBounds(stack[1], stack[3])
           /\ Opcode \in CopyOps => InBounds(Operand(1), Operand(3))
BY DEF CopyOps, AccessStatus, LoadStatus, StoreStatus, MoveStatus, CopyStatus

\* The extension of an access that is in bounds: what it costs, and the length
\* of what it writes and reads.
LEMMA AccessSizes ==
    ASSUME BuffersOK, NEW offset, NEW size, InBounds(offset, size)
    PROVE  /\ size \in Nat /\ Words(size) \in Nat /\ Expansion(offset, size) \in Nat
           /\ Len(Extended(memory, offset, size)) \in Nat
           /\ \A bytes : Len(Written(memory, offset, size, bytes)) \in Nat
           /\ Len(Read(memory, offset, size)) \in Nat
<1>1. size \in Nat /\ Len(memory) \in Nat
  BY DEF InBounds, Usize, BuffersOK
<1>2. LenAfter(Len(memory), offset, size) \in Nat /\ Expansion(offset, size) \in Nat
  BY <1>1, ExpansionCostNat DEF Expansion
<1>3. Words(size) \in Nat
  BY <1>1, WordsNat
<1> QED
  BY <1>1, <1>2, <1>3, BufferLengths

\* Every instruction that accesses memory, once the access succeeds, is charged.
LEMMA MemoryStepsCharged ==
    ASSUME BuffersOK, FlagsOK,
           \/ MLoad \/ MStore \/ MStore8 \/ Copy \/ MCopy \/ Keccak256
           \/ \E n \in 0 .. 4 : Log(n)
           \/ Return \/ Revert
    PROVE  Charged
<1> USE DEF BuffersOK, FlagsOK
<1>0. Loads(accounts) /\ \A a \in Address \cup {address} : Loads(Touched(accounts, a))
  BY LoadsTouched
<1>a. ASSUME NEW ops, AccessMemory(ops)
      PROVE  Opcode \in ops /\ AccessStatus = "ok"
  BY <1>a DEF AccessMemory, FetchAccess, Fetch
<1>1. CASE MLoad
  <2>1. InBounds(stack[1], WordBytes)
    BY <1>1, <1>a, AccessInBounds DEF MLoad
  <2>2. BuffersOK' /\ FlagsOK'
    BY <1>1, <2>1, AccessSizes DEF MLoad
  <2>3. 3 + Expansion(stack[1], WordBytes) \in Nat
    BY <2>1, AccessSizes
  <2>4. Settle(accounts, 3 + Expansion(stack[1], WordBytes), pc + 1)
    BY <1>1 DEF MLoad
  <2> QED
    BY <1>0, <2>2, <2>3, <2>4, ChargedHow
<1>2. ASSUME NEW op \in {"MSTORE", "MSTORE8"}, NEW n, StoreBytes(op, n),
             op = "MSTORE" => n = WordBytes, op = "MSTORE8" => n = 1
      PROVE  Charged
  <2>1. InBounds(stack[1], n)
    BY <1>2, <1>a, AccessInBounds DEF StoreBytes
  <2>2. BuffersOK' /\ FlagsOK'
    BY <1>2, <2>1, AccessSizes DEF StoreBytes
  <2>3. 3 + Expansion(stack[1], n) \in Nat
    BY <2>1, AccessSizes
  <2>4. Settle(accounts, 3 + Expansion(stack[1], n), pc + 1)
    BY <1>2 DEF StoreBytes
  <2> QED
    BY <1>0, <2>2, <2>3, <2>4, ChargedHow
<1>3. CASE Copy
  <2> DEFINE dest == Operand(1)
             size == Operand(3)
             cost == CopyCost(Opcode, accounts, dest, size)
  <2>1. InBounds(dest, size)
    BY <1>3, <1>a, AccessInBounds DEF Copy
  <2>2. BuffersOK' /\ FlagsOK'
    BY <1>3, <2>1, AccessSizes DEF Copy
  <2>3. cost \in Nat
    <3>1. (IF Opcode = "EXTCODECOPY" THEN AccessCost(accounts, stack[1]) ELSE 3) \in Nat
      BY DEF AccessCost
    <3>2. Words(size) \in Nat /\ Expansion(dest, size) \in Nat
      BY <2>1, AccessSizes
    <3> QED
      BY <3>1, <3>2 DEF CopyCost
  <2>4. Loads(CopiedFrom)
    BY <1>3, LoadsCopied DEF Copy, AccessMemory
  <2>5. Settle(CopiedFrom, cost, pc + 1)
    BY <1>3 DEF Copy
  <2> QED
    BY <2>2, <2>3, <2>4, <2>5, ChargedHow
<1>4. CASE MCopy
  <2> DEFINE grown == Extended(memory, stack[2], stack[3])
             cost  == 3 + 3 * Words(stack[3]) + Expansion(stack[2], stack[3])
                        + ExpansionCost(Len(grown), stack[1], stack[3])
  <2>1. InBounds(stack[2], stack[3]) /\ InBounds(stack[1], stack[3])
    BY <1>4, <1>a, AccessInBounds DEF MCopy
  <2>2. Len(grown) \in Nat /\ Words(stack[3]) \in Nat /\ Expansion(stack[2], stack[3]) \in Nat
    BY <2>1, AccessSizes
  <2>3. Len(memory') \in Nat
    <3>1. memory' = Written(grown, stack[1], stack[3], Read(memory, stack[2], stack[3]))
      BY <1>4 DEF MCopy
    <3>2. LenAfter(Len(grown), stack[1], stack[3]) \in Nat
      BY <2>1, <2>2, ExpansionCostNat
    <3> QED
      BY <2>1, <2>2, <3>1, <3>2, BufferLengths
  <2>4. BuffersOK' /\ FlagsOK'
    BY <1>4, <2>3 DEF MCopy
  <2>5. ExpansionCost(Len(grown), stack[1], stack[3]) \in Nat
    BY <2>1, <2>2, ExpansionCostNat
  <2>6. cost \in Nat
    BY <2>2, <2>5
  <2>7. Settle(accounts, cost, pc + 1)
    BY <1>4 DEF MCopy
  <2> QED
    BY <1>0, <2>4, <2>6, <2>7, ChargedHow
<1>5. CASE Keccak256
  <2> DEFINE cost == 30 + 6 * Words(stack[2]) + Expansion(stack[1], stack[2])
  <2>1. InBounds(stack[1], stack[2])
    BY <1>5, <1>a, AccessInBounds DEF Keccak256
  <2>2. BuffersOK' /\ FlagsOK'
    BY <1>5, <2>1, AccessSizes DEF Keccak256
  <2>3. cost \in Nat
    BY <2>1, AccessSizes
  <2>4. Settle(accounts, cost, pc + 1)
    BY <1>5 DEF Keccak256
  <2> QED
    BY <1>0, <2>2, <2>3, <2>4, ChargedHow
<1>6. ASSUME NEW n \in 0 .. 4, Log(n)
      PROVE  Charged
  <2> DEFINE cost == 375 * (n + 1) + 8 * stack[2] + Expansion(stack[1], stack[2])
  <2>1. InBounds(stack[1], stack[2])
    BY <1>6, <1>a, AccessInBounds DEF Log
  <2>2. BuffersOK' /\ FlagsOK'
    BY <1>6, <2>1, AccessSizes DEF Log
  <2>3. cost \in Nat
    BY <2>1, AccessSizes
  <2>4. Settle(accounts, cost, pc + 1)
    BY <1>6 DEF Log
  <2> QED
    BY <1>0, <2>2, <2>3, <2>4, ChargedHow
<1>7. ASSUME NEW op \in {"RETURN", "REVERT"}, NEW reverts \in BOOLEAN, Halt(op, reverts)
      PROVE  Charged
  <2>1. InBounds(stack[1], stack[2])
    BY <1>7, <1>a, AccessInBounds DEF Halt
  <2>2. BuffersOK' /\ FlagsOK'
    BY <1>7, <2>1, AccessSizes DEF Halt
  <2>3. Expansion(stack[1], stack[2]) \in Nat
    BY <2>1, AccessSizes
  <2>4. Settle(accounts, Expansion(stack[1], stack[2]), pc)
    BY <1>7 DEF Halt
  <2> QED
    BY <1>0, <2>2, <2>3, <2>4, ChargedHow
<1> QED
  BY <1>1, <1>2, <1>3, <1>4, <1>5, <1>6, <1>7 DEF MStore, MStore8, Return, Revert

\* The prices of accounts and slots are natural numbers.
LEMMA PricesNat ==
    /\ \A a : AccessCost(accounts, a) \in Nat
    /\ \A slot, value : SLoadCost(slot) \in Nat /\ SStoreCost(slot, value) \in Nat
BY DEF AccessCost, SLoadCost, SStoreCost

\* Every instruction that pushes one word and leaves memory alone is charged.
LEMMA ComputeStepsCharged ==
    ASSUME BuffersOK, FlagsOK,
           \/ ComputeAlu \/ PushContext \/ Dup \/ CallDataLoad
           \/ \E n \in 0 .. 32 : Push(n)
           \/ QueryAccount \/ SelfBalance \/ SLoad \/ TLoad
    PROVE  Charged
<1>0. Loads(accounts) /\ \A a \in Address \cup {address} : Loads(Touched(accounts, a))
  BY LoadsTouched
<1>1. ASSUME NEW n, NEW w, NEW cost \in Nat, NEW next, Compute(n, w, accounts, cost, next)
      PROVE  Charged
  BY <1>0, <1>1, ComputeCharged
<1>2. CASE ComputeAlu
  BY <1>1, <1>2, AluCostNat DEF ComputeAlu
<1>3. CASE PushContext
  BY <1>1, <1>3, 2 \in Nat DEF PushContext
<1>4. CASE Dup
  BY <1>1, <1>4, 3 \in Nat DEF Dup
<1>5. CASE CallDataLoad
  BY <1>1, <1>5, 3 \in Nat DEF CallDataLoad
<1>6. ASSUME NEW n \in 0 .. 32, Push(n)
      PROVE  Charged
  BY <1>1, <1>6, (IF n = 0 THEN 2 ELSE 3) \in Nat DEF Push
<1>7. CASE QueryAccount
  BY <1>0, <1>7, ComputeCharged, PricesNat DEF QueryAccount
<1>8. CASE SelfBalance
  BY <1>0, <1>8, ComputeCharged, 5 \in Nat DEF SelfBalance
<1>9. CASE SLoad
  BY <1>1, <1>9, PricesNat DEF SLoad
<1>10. CASE TLoad
  BY <1>1, <1>10, 100 \in Nat DEF TLoad
<1> QED
  BY <1>2, <1>3, <1>4, <1>5, <1>6, <1>7, <1>8, <1>9, <1>10

\* So is every other instruction that does not fail.
LEMMA OtherStepsCharged ==
    ASSUME BuffersOK, FlagsOK, gas \in Nat,
           \/ Swap \/ Pop \/ SStore \/ TStore \/ Jump \/ JumpDest \/ Stop \/ Invalid
    PROVE  Charged
<1> USE DEF BuffersOK, FlagsOK
<1>0. Loads(accounts)
  BY LoadsTouched
<1>1. ASSUME NEW cost \in Nat, NEW next, Settle(accounts, cost, next),
             UNCHANGED <<memory, output>>, FlagsOK'
      PROVE  Charged
  BY <1>0, <1>1, ChargedHow
<1>2. CASE Swap
  BY <1>1, <1>2, 3 \in Nat DEF Swap
<1>3. CASE Pop
  BY <1>1, <1>3, 2 \in Nat DEF Pop
<1>4. CASE SStore
  BY <1>1, <1>4, PricesNat DEF SStore
<1>5. CASE TStore
  BY <1>1, <1>5, 100 \in Nat DEF TStore
<1>6. CASE Jump
  BY <1>1, <1>6, (IF Opcode = "JUMP" THEN 8 ELSE 10) \in Nat DEF Jump
<1>7. CASE JumpDest
  BY <1>1, <1>7, 1 \in Nat DEF JumpDest, effects
<1>8. CASE Stop
  BY <1>1, <1>8, 0 \in Nat DEF Stop
<1>9. CASE Invalid
  BY <1>1, <1>9 DEF Invalid
<1> QED
  BY <1>2, <1>3, <1>4, <1>5, <1>6, <1>7, <1>8, <1>9

\* The instructions that fail do so without being charged.
LEMMA FailingSteps ==
    ASSUME \/ StackUnderflow \/ StackOverflow \/ Unimplemented \/ CallDataOverflow
           \/ InvalidAddress \/ AccessFails \/ InvalidJump
    PROVE  Failed
<1>0. Loads(accounts) /\ \A a \in Address \cup {address} : Loads(Touched(accounts, a))
  BY LoadsTouched
<1>1. CASE StackUnderflow
  BY <1>0, <1>1, FailedHow DEF StackUnderflow, Failures
<1>2. CASE StackOverflow
  BY <1>0, <1>2, FailedHow DEF StackOverflow, Failures
<1>3. CASE Unimplemented \/ CallDataOverflow \/ InvalidAddress \/ InvalidJump
  BY <1>0, <1>3, FailedHow
     DEF Unimplemented, CallDataOverflow, InvalidAddress, InvalidJump, Failures
<1>4. CASE AccessFails
  <2>1. Opcode \in MemoryOpcodes /\ AccessStatus # "ok" /\ Abort(AccessStatus, CopiedFrom)
    BY <1>4 DEF AccessFails, FetchAccess, Fetch
  <2>2. AccessStatus \in Failures
    BY <2>1, AccessStatuses DEF Failures
  <2>3. Loads(CopiedFrom)
    BY <1>4, LoadsCopied DEF AccessFails
  <2> QED
    BY <2>1, <2>2, <2>3, FailedHow
<1> QED
  BY <1>1, <1>2, <1>3, <1>4

\* Only a transaction under way executes.
LEMMA ExecuteRuns ==
    ASSUME Execute
    PROVE  phase = "running"
BY DEF Execute, StackUnderflow, StackOverflow, Unimplemented, ComputeAlu, PushContext,
       Dup, Swap, Pop, Push, CallDataLoad, CallDataOverflow, QueryAccount, InvalidAddress,
       SelfBalance, AccessFails, MLoad, MStore, MStore8, StoreBytes, Copy, MCopy,
       Keccak256, Log, Return, Revert, Halt, SLoad, SStore, TLoad, TStore, Jump,
       InvalidJump, JumpDest, Stop, Invalid, Finish, AccessMemory, FetchAccess, Fetch,
       Decoding

\* A step of execute_next_opcode is charged or fails; otherwise it is the epilogue.
LEMMA ExecuteShapes ==
    ASSUME BuffersOK, FlagsOK, gas \in Nat, Execute
    PROVE  phase = "running" /\ (Charged \/ Failed \/ Finish)
BY ExecuteRuns, MemoryStepsCharged, ComputeStepsCharged, OtherStepsCharged, FailingSteps
   DEF Execute

-------------------------------------------------------------------------------
(* The control state.                                                         *)

Control == ControlTypeOK /\ BuffersOK

\* Under the control invariant no account is in debt.
LEMMA ControlFunded ==
    ASSUME Control
    PROVE  Funded(accounts) /\ FlagsOK
BY FundedAccounts DEF Control, ControlTypeOK, FlagsOK

\* While a transaction runs, it is one of Transactions.
LEMMA RunningTransaction ==
    ASSUME Control, phase = "running"
    PROVE  /\ tx \in Transactions /\ tx.gas \in Nat /\ tx.value \in Nat
           /\ gas \in 0 .. tx.gas /\ gas \in Nat
           /\ result.status # "none"
BY TransactionsAssumption DEF Control, ControlTypeOK, Usize, Word

\* Accounts with the same balances are in no debt either.
LEMMA FundedSame ==
    ASSUME Funded(accounts), NEW acc, SameBalances(acc)
    PROVE  Funded(acc)
BY DEF Funded, SameBalances

\* Nor are they after an access.
LEMMA FundedTouched ==
    ASSUME NEW acc, Funded(acc), NEW a
    PROVE  Funded(Touched(acc, a))
BY BalanceTouched DEF Funded

\* decrease_balance leaves nobody in debt, whether it succeeds or not.
LEMMA DecreaseFunded ==
    ASSUME NEW acc, Funded(acc), NEW a, NEW cost \in Nat, NEW left, NEW r,
           r = DecreaseBalance(acc, a, cost, left)
    PROVE  /\ r.gas = left
           /\ Funded(r.accounts)
           /\ r.status \in {"ok", "InsufficientFunds"}
<1>1. CASE BalanceOf(acc, a) < cost
  BY <1>1, FundedTouched DEF DecreaseBalance, Receipt, BalanceOf
<1>2. CASE ~(BalanceOf(acc, a) < cost)
  <2>1. r = Receipt("ok", left, Debited(acc, a, cost))
    BY <1>2 DEF DecreaseBalance, BalanceOf
  <2>2. BalanceOf(acc, a) - cost \in Nat
    BY <1>2 DEF Funded
  <2>3. Funded(Debited(acc, a, cost))
    BY <2>2, BalanceDebited DEF Funded
  <2> QED
    BY <2>1, <2>3 DEF Receipt
<1> QED
  BY <1>1, <1>2

\* The intrinsic gas is a natural number.
LEMMA IntrinsicGasNat ==
    ASSUME NEW t \in Transactions
    PROVE  IntrinsicGas(t) \in Nat
<1> DEFINE zeros == {i \in DOMAIN t.data : t.data[i] = 0}
           others == {i \in DOMAIN t.data : t.data[i] # 0}
<1>1. IsFiniteSet(DOMAIN t.data)
  <2>1. Len(t.data) \in Nat /\ DOMAIN t.data = 1 .. Len(t.data)
    BY TransactionsAssumption
  <2> QED
    BY <2>1, FS_Interval
<1>2. zeros \subseteq DOMAIN t.data /\ others \subseteq DOMAIN t.data
  OBVIOUS
<1>3. Cardinality(zeros) \in Nat /\ Cardinality(others) \in Nat
  BY <1>1, <1>2, FS_Subset, FS_CardinalityType
<1> QED
  BY <1>3 DEF IntrinsicGas

\* Admission leaves no more gas than the transaction brought, and no debt.
LEMMA AdmissionFunded ==
    ASSUME NEW acc, Funded(acc), NEW t \in Transactions, NEW r, r = Admission(acc, t)
    PROVE  /\ r.gas \in 0 .. t.gas
           /\ Funded(r.accounts)
           /\ r.status \in {"ok", "OutOfGas", "InsufficientFunds", "IntrinsicGasTooLow",
                            "panic"}
<1> DEFINE paid == PayGas(acc, t, t.gas, IntrinsicGas(t))
<1>1. t.gas \in Nat
  BY TransactionsAssumption DEF Usize
<1>2. /\ paid.gas \in 0 .. t.gas
      /\ Funded(paid.accounts)
      /\ paid.status \in {"ok", "OutOfGas", "InsufficientFunds", "panic"}
  BY <1>1, IntrinsicGasNat, PayGasFunded
<1> HIDE DEF paid
<1>3. \/ r = Receipt("panic", t.gas, acc)
      \/ r = Receipt("InsufficientFunds", t.gas, acc)
      \/ r = Receipt("IntrinsicGasTooLow", paid.gas, paid.accounts)
      \/ r = paid
  BY DEF Admission, paid
<1> QED
  BY <1>1, <1>2, <1>3 DEF Receipt

\* The control invariant holds of the world Evm::new builds ...
LEMMA InitControl ==
    ASSUME Init
    PROVE  Control
<1>1. \A a \in DOMAIN accounts : accounts[a].value.balance \in Nat
  BY GenesisAssumption DEF Init, NewStorage, Entry, Accounts, Word
<1>2. Len(memory) \in Nat /\ Len(output) \in Nat
  BY DEF Init
<1>3. result.status = "none" /\ tx = NoTransaction /\ tx.gas = 0
  BY DEF Init, NoTransaction, Failure, Outcome
<1>4. phase = "idle" /\ gas \in 0 .. tx.gas
  BY <1>3 DEF Init
<1>5. stop \in BOOLEAN /\ revert \in BOOLEAN
  BY DEF Init
<1>6. ControlTypeOK
  BY <1>1, <1>3, <1>4, <1>5 DEF ControlTypeOK
<1> QED
  BY <1>2, <1>6 DEF Control, BuffersOK

\* ... is kept when a transaction is admitted or refused ...
LEMMA RunControl ==
    ASSUME Control, NEW t \in Transactions, Run(t)
    PROVE  Control'
<1> DEFINE target == ContractAddress(t)
           called == IF IsCreation(t) THEN accounts ELSE Touched(accounts, target)
           r      == Admission(Touched(called, t.from), t)
<1>1. Funded(Touched(called, t.from))
  BY ControlFunded, FundedTouched
<1>2. /\ r.gas \in 0 .. t.gas
      /\ Funded(r.accounts)
      /\ r.status \in {"ok", "OutOfGas", "InsufficientFunds", "IntrinsicGasTooLow",
                       "panic"}
  BY <1>1, AdmissionFunded
<1>3. /\ accounts' = r.accounts /\ gas' = r.gas /\ tx' = t
      /\ IF r.status = "ok" THEN phase' = "running" /\ result' = Pending
                            ELSE Ends(r.status)
      /\ memory' = <<>> /\ output' = <<>> /\ revert' = FALSE /\ stop' = FALSE
  BY DEF Run
<1> HIDE DEF r
<1>4. \A a \in DOMAIN accounts' : accounts'[a].value.balance \in Nat
  BY <1>2, <1>3, FundedAccounts
<1>5. phase' \in {"idle", "running", "crashed"} /\ result'.status # "none"
  BY <1>2, <1>3 DEF Ends, Pending, Failure, Outcome
<1>6. BuffersOK'
  BY <1>3, Len(<<>>) = 0 DEF BuffersOK
<1> QED
  BY <1>2, <1>3, <1>4, <1>5, <1>6 DEF Control, ControlTypeOK

\* ... when an instruction is charged, or cannot be ...
LEMMA ChargedControl ==
    ASSUME Control, phase = "running", Charged
    PROVE  Control'
<1>1. PICK acc, cost, next : cost \in Nat /\ SameBalances(acc) /\ Settle(acc, cost, next)
  BY LoadsBalances DEF Charged
<1> DEFINE r == PayGas(acc, tx, gas, cost)
<1>2. /\ r.gas \in 0 .. gas
      /\ Funded(r.accounts)
      /\ r.status \in {"ok", "OutOfGas", "InsufficientFunds", "panic"}
  BY <1>1, ControlFunded, FundedSame, RunningTransaction, PayGasFunded
<1>3. /\ accounts' = r.accounts /\ gas' = r.gas /\ tx' = tx
      /\ IF r.status = "ok" THEN UNCHANGED <<phase, result>> ELSE Ends(r.status)
  BY <1>1 DEF Settle, contract
<1> HIDE DEF r
<1>4. \A a \in DOMAIN accounts' : accounts'[a].value.balance \in Nat
  BY <1>2, <1>3, FundedAccounts
<1>5. phase' \in {"idle", "running", "crashed"} /\ result'.status # "none"
  BY <1>2, <1>3, RunningTransaction DEF Ends, Failure, Outcome
<1>6. gas' \in 0 .. tx'.gas
  BY <1>2, <1>3, RunningTransaction
<1>7. FlagsOK' /\ BuffersOK'
  BY DEF Charged
<1> QED
  BY <1>3, <1>4, <1>5, <1>6, <1>7, RunningTransaction DEF FlagsOK, Control, ControlTypeOK

\* ... when one fails ...
LEMMA FailedControl ==
    ASSUME Control, phase = "running", Failed
    PROVE  Control' /\ phase' # "running"
<1>1. PICK acc, status : status \in Failures /\ SameBalances(acc) /\ Abort(status, acc)
  BY LoadsBalances DEF Failed
<1>2. \A a \in DOMAIN accounts' : accounts'[a].value.balance \in Nat
  BY <1>1, ControlFunded, FundedSame, FundedAccounts DEF Abort
<1>3. phase' \in {"idle", "crashed"} /\ result'.status # "none"
  BY <1>1 DEF Abort, Ends, Failure, Outcome, Failures
<1>4. UNCHANGED <<tx, gas, stop, revert, memory, output>>
  BY <1>1 DEF Abort, contract, effects
<1> QED
  BY <1>2, <1>3, <1>4, RunningTransaction DEF Control, ControlTypeOK, BuffersOK

\* ... when the epilogue of execute_transaction ends the run ...
LEMMA FinishControl ==
    ASSUME Control, phase = "running", Finish
    PROVE  Control' /\ phase' # "running"
<1> DEFINE deposit == PayGas(accounts, tx, gas, 200 * Len(output))
           r       == Epilogue
<1>1. /\ r.gas \in 0 .. gas
      /\ Funded(r.accounts)
      /\ r.status \in {"ok", "OutOfGas", "InsufficientFunds", "panic"}
  <2>1. CASE ~IsCreation(tx)
    BY <2>1, ControlFunded, RunningTransaction DEF Epilogue, Receipt
  <2>2. CASE IsCreation(tx)
    <3>1. 200 * Len(output) \in Nat
      BY DEF Control, BuffersOK
    <3>2. /\ deposit.gas \in 0 .. gas
          /\ Funded(deposit.accounts)
          /\ deposit.status \in {"ok", "OutOfGas", "InsufficientFunds", "panic"}
      BY <3>1, ControlFunded, RunningTransaction, PayGasFunded
    <3>3. r = IF deposit.status # "ok" THEN deposit
              ELSE DecreaseBalance(Created(deposit.accounts), tx.from, tx.value, deposit.gas)
      BY <2>2 DEF Epilogue
    <3> HIDE DEF deposit, r
    <3>4. Funded(Created(deposit.accounts))
      BY <3>2, RunningTransaction, ValueAfterStore DEF Created, Funded, BalanceOf, AccountIn
    <3> QED
      BY <3>2, <3>3, <3>4, RunningTransaction, DecreaseFunded
  <2> QED
    BY <2>1, <2>2
<1>2. /\ accounts' = r.accounts /\ gas' = r.gas
      /\ IF r.status = "ok" THEN phase' = "idle" /\ result' = Outcome("ok", output, gas', revert)
                            ELSE Ends(r.status)
      /\ UNCHANGED <<tx, stop, revert, memory, output>>
  BY DEF Finish, contract, effects
<1> HIDE DEF r
<1>3. \A a \in DOMAIN accounts' : accounts'[a].value.balance \in Nat
  BY <1>1, <1>2, FundedAccounts
<1>4. phase' \in {"idle", "crashed"} /\ result'.status # "none"
  BY <1>1, <1>2 DEF Ends, Failure, Outcome
<1>5. gas' \in 0 .. tx'.gas
  BY <1>1, <1>2, RunningTransaction
<1> QED
  BY <1>2, <1>3, <1>4, <1>5, RunningTransaction DEF Control, ControlTypeOK, BuffersOK

\* ... hence by every step.
LEMMA NextControl ==
    ASSUME Control, [Next]_vars
    PROVE  Control'
<1>1. CASE UNCHANGED vars
  BY <1>1 DEF vars, contract, effects, Control, ControlTypeOK, BuffersOK
<1>2. ASSUME NEW t \in Transactions, Run(t)
      PROVE  Control'
  BY <1>2, RunControl
<1>3. CASE Execute
  <2>1. phase = "running"
    BY <1>3, ExecuteRuns
  <2>2. Charged \/ Failed \/ Finish
    BY <1>3, <2>1, ExecuteShapes, ControlFunded, RunningTransaction DEF Control
  <2> QED
    BY <2>1, <2>2, ChargedControl, FailedControl, FinishControl
<1> QED
  BY <1>1, <1>2, <1>3 DEF Next

\* In either build gas never exceeds what the transaction brought, no balance is
\* ever negative, and a transaction under way is one that run was called with:
\* pay_gas_cost and decrease_balance are the only code that moves gas and money.
THEOREM ControlAlways == Spec => []Control
BY InitControl, NextControl, PTL DEF Spec

-------------------------------------------------------------------------------
(* The funds of the sender, in a build that checks for overflow.              *)

\* What the up-front check establishes and every instruction preserves.
Covered == OverflowChecks /\ phase = "running" => Covers(accounts, tx, gas)

\* A transaction is refused free of charge, or its sender can cover all of it and
\* pays the intrinsic gas.
LEMMA AdmissionCovers ==
    ASSUME OverflowChecks, NEW acc, Funded(acc), NEW t \in Transactions, NEW r,
           r = Admission(acc, t)
    PROVE  \/ /\ r.status \in {"InsufficientFunds", "IntrinsicGasTooLow", "panic"}
              /\ r.accounts = acc
           \/ /\ r = Receipt("ok", t.gas - IntrinsicGas(t),
                             Debited(acc, t.from, IntrinsicGas(t) * t.gas_price))
              /\ IntrinsicGas(t) <= t.gas
              /\ Covers(acc, t, t.gas) /\ Covers(r.accounts, t, r.gas)
<1> DEFINE paid == PayGas(acc, t, t.gas, IntrinsicGas(t))
           maxCost == Fee(t, t.gas) + t.value
<1>1. t.gas \in Nat /\ t.value \in Nat /\ Fee(t, t.gas) \in Nat /\ t.gas * t.gas_price \in Nat
  <2>1. t.gas \in Nat /\ t.gas_price \in Nat /\ t.value \in Nat
    BY TransactionsAssumption DEF Usize, Word
  <2> QED
    BY <2>1, FeeNat
<1>2. CASE FeePanics(t, t.gas) \/ maxCost >= WordMod
  BY <1>2 DEF Admission, Receipt
<1>3. CASE ~(FeePanics(t, t.gas) \/ maxCost >= WordMod)
           /\ BalanceOf(acc, t.from) < maxCost % WordMod
  BY <1>3 DEF Admission, Receipt, BalanceOf
<1>4. CASE ~(FeePanics(t, t.gas) \/ maxCost >= WordMod)
           /\ ~(BalanceOf(acc, t.from) < maxCost % WordMod)
  <2>1. r = IF paid.status = "OutOfGas"
            THEN Receipt("IntrinsicGasTooLow", paid.gas, paid.accounts) ELSE paid
    BY <1>4 DEF Admission, BalanceOf
  <2>2. Fee(t, t.gas) = t.gas * t.gas_price /\ t.gas * t.gas_price < UsizeMod
    <3>1. ~FeePanics(t, t.gas)
      BY <1>4
    <3>2. t.gas * t.gas_price < UsizeMod
      BY <1>1, <3>1, UsizeAssumption DEF FeePanics
    <3> QED
      BY <1>1, <3>2, UsizeAssumption DEF Fee
  <2>3. maxCost % WordMod = maxCost
    <3> DEFINE m == maxCost
    <3>1. m \in Nat /\ m < WordMod
      BY <1>1, <1>4, SizesAssumption
    <3> HIDE DEF m
    <3>2. m % WordMod = m
      BY <3>1, SizesAssumption
    <3> QED
      BY <3>2 DEF m
  <2>4. BalanceOf(acc, t.from) \in Nat
    BY DEF Funded
  <2>5. Covers(acc, t, t.gas)
    BY <1>1, <1>4, <2>2, <2>3, <2>4 DEF Covers
  <2>6. IF t.gas < IntrinsicGas(t) THEN paid = Receipt("OutOfGas", 0, acc)
        ELSE /\ paid = Receipt("ok", t.gas - IntrinsicGas(t),
                               Debited(acc, t.from, IntrinsicGas(t) * t.gas_price))
             /\ Covers(paid.accounts, t, paid.gas)
    BY <1>1, <2>5, IntrinsicGasNat, PayGasCovered
  <2> HIDE DEF paid
  <2>7. CASE t.gas < IntrinsicGas(t)
    BY <2>1, <2>6, <2>7 DEF Receipt
  <2>8. CASE ~(t.gas < IntrinsicGas(t))
    BY <1>1, <2>1, <2>5, <2>6, <2>8, IntrinsicGasNat DEF Receipt
  <2> QED
    BY <2>7, <2>8
<1> QED
  BY <1>2, <1>3, <1>4

\* The funds still cover the gas that is left after every step.
LEMMA NextCovered ==
    ASSUME Control, Covered, [Next]_vars
    PROVE  Covered'
<1> SUFFICES ASSUME OverflowChecks, phase' = "running"
             PROVE  Covers(accounts', tx', gas')
  BY DEF Covered, Covers, BalanceOf, AccountIn, Loaded, Entry
<1>1. CASE UNCHANGED vars
  BY <1>1 DEF vars, contract, Covered
<1>2. ASSUME NEW t \in Transactions, Run(t)
      PROVE  Covers(accounts', tx', gas')
  <2> DEFINE target == ContractAddress(t)
             called == IF IsCreation(t) THEN accounts ELSE Touched(accounts, target)
             acc    == Touched(called, t.from)
             r      == Admission(acc, t)
  <2>1. Funded(acc)
    BY ControlFunded, FundedTouched
  <2>2. accounts' = r.accounts /\ gas' = r.gas /\ tx' = t /\ r.status = "ok"
    BY <1>2 DEF Run, Ends
  <2> HIDE DEF acc
  <2> QED
    BY <2>1, <2>2, AdmissionCovers
<1>3. ASSUME Execute, Charged
      PROVE  Covers(accounts', tx', gas')
  <2>1. PICK acc, cost, next : cost \in Nat /\ SameBalances(acc) /\ Settle(acc, cost, next)
    BY <1>3, LoadsBalances DEF Charged
  <2> DEFINE r == PayGas(acc, tx, gas, cost)
  <2>2. accounts' = r.accounts /\ gas' = r.gas /\ tx' = tx /\ r.status = "ok"
    BY <2>1 DEF Settle, Ends, contract
  <2>3. Covers(acc, tx, gas)
    BY <1>3, <2>1, ExecuteRuns DEF Covered, Covers, SameBalances
  <2>4. Funded(acc)
    BY <2>1, ControlFunded, FundedSame
  <2>5. tx \in Transactions /\ gas \in Nat
    BY <1>3, ExecuteRuns, RunningTransaction
  <2>6. IF gas < cost THEN r = Receipt("OutOfGas", 0, acc) ELSE Covers(r.accounts, tx, r.gas)
    BY <2>1, <2>3, <2>4, <2>5, PayGasCovered
  <2> HIDE DEF r
  <2> QED
    BY <2>2, <2>6 DEF Receipt
<1>4. CASE Execute
  <2>1. phase = "running"
    BY <1>4, ExecuteRuns
  <2>2. Charged \/ Failed \/ Finish
    BY <1>4, <2>1, ExecuteShapes, ControlFunded, RunningTransaction DEF Control
  <2> QED
    BY <1>3, <1>4, <2>1, <2>2, FailedControl, FinishControl
<1> QED
  BY <1>1, <1>2, <1>4 DEF Next

\* The property itself follows.
LEMMA CoveredImplies ==
    ASSUME Control, Covered
    PROVE  FundsCoverGas
<1>1. SUFFICES ASSUME OverflowChecks, phase = "running"
               PROVE  /\ BalanceOf(accounts, tx.from) >= gas * tx.gas_price + tx.value
                      /\ ~FeePanics(tx, gas)
  BY DEF FundsCoverGas
<1>2. Covers(accounts, tx, gas)
  BY <1>1 DEF Covered
<1>3. gas * tx.gas_price \in Nat
  BY <1>1, RunningTransaction, FeeNat
<1> QED
  BY <1>2, <1>3, UsizeAssumption DEF Covers, FeePanics

\* The sender can always pay for the gas that is left and the value: the check of
\* execute_transaction at the beginning is enough for every call of pay_gas_cost
\* after it. FundsCoverGas is not inductive alone: a step is charged gas that must be
\* natural, out of balances that must be natural, which is Control.
THEOREM FundsAlwaysCoverGas == Spec => []FundsCoverGas
<1>1. Init => Control /\ Covered
  BY InitControl DEF Init, Covered
<1>2. Control /\ Covered /\ [Next]_vars => (Control /\ Covered)'
  BY NextControl, NextCovered
<1>3. Control /\ Covered => FundsCoverGas
  BY CoveredImplies
<1> QED
  BY <1>1, <1>2, <1>3, PTL DEF Spec

-------------------------------------------------------------------------------
(* Money.                                                                      *)

\* What the run has moved so far: its sender has paid for the gas it has spent,
\* acc being the accounts and g the gas left, and nothing else has moved.
Moved(acc, g) ==
    \A a : BalanceOf(acc, a) =
               IF a = tx.from
               THEN BalanceOf(opening.accounts, a) - (tx.gas - g) * tx.gas_price
               ELSE BalanceOf(opening.accounts, a)

\* The invariant the refinement needs: where the run is, as Ledger sees it, and
\* what has been moved since it began.
Ongoing ==
    /\ phase = "running" <=> result = Pending
    /\ phase = "crashed" <=> result.status = "panic"
    /\ phase = "running" =>
        /\ address = ContractAddress(tx)
        /\ gas <= tx.gas - IntrinsicGas(tx)
        /\ Covers(opening.accounts, tx, tx.gas)
        /\ Funded(opening.accounts)
        /\ Moved(accounts, gas)

\* The fields of an outcome.
LEMMA PendingStatus ==
    /\ Pending.status = "pending"
    /\ \A status : Failure(status).status = status
    /\ \A status, data, g, reverted :
          /\ Outcome(status, data, g, reverted).status = status
          /\ Outcome(status, data, g, reverted).remaining_gas = g
BY DEF Pending, Failure, Outcome

\* Spending c more gas, at price p, out of what is left.
LEMMA SpentMore ==
    ASSUME NEW T \in Nat, NEW g \in Nat, NEW c \in Nat, NEW p \in Nat, g <= T, c <= g
    PROVE  (T - (g - c)) * p = (T - g) * p + c * p
<1>1. (T - g) + c = T - (g - c)
  OBVIOUS
<1>2. ((T - g) + c) * p = (T - g) * p + c * p
  OBVIOUS
<1> QED
  BY <1>1, <1>2

\* What is spent is at least the intrinsic gas and at most all of it.
LEMMA SpentBounds ==
    ASSUME NEW T \in Nat, NEW g \in Nat, NEW i \in Nat, NEW p \in Nat, g <= T - i
    PROVE  /\ (T - g) * p \in Nat
           /\ i * p <= (T - g) * p /\ (T - g) * p <= T * p
<1>1. T - g \in Nat /\ i <= T - g /\ T - g <= T
  OBVIOUS
<1> QED
  BY <1>1, TimesMonotone

\* Charging an instruction moves its fee and nothing else.
LEMMA MovedMore ==
    ASSUME Control, phase = "running", Funded(opening.accounts),
           NEW acc, Moved(acc, gas), NEW cost \in Nat, cost <= gas
    PROVE  Moved(Debited(acc, tx.from, cost * tx.gas_price), gas - cost)
<1> DEFINE spent == (tx.gas - gas) * tx.gas_price
           fee   == cost * tx.gas_price
<1>1. tx.gas \in Nat /\ gas \in Nat /\ gas <= tx.gas /\ tx.gas_price \in Nat
  BY RunningTransaction, TransactionsAssumption DEF Usize
<1>2. (tx.gas - (gas - cost)) * tx.gas_price = spent + fee
  BY <1>1, SpentMore
<1>3. spent \in Int /\ fee \in Int
  BY <1>1
<1>4. SUFFICES ASSUME NEW a
               PROVE  BalanceOf(Debited(acc, tx.from, fee), a) =
                          IF a = tx.from
                          THEN BalanceOf(opening.accounts, a) - (spent + fee)
                          ELSE BalanceOf(opening.accounts, a)
  BY <1>2 DEF Moved
<1> HIDE DEF spent, fee
<1>5. BalanceOf(acc, tx.from) = BalanceOf(opening.accounts, tx.from) - spent
  BY DEF Moved, spent
<1>6. BalanceOf(opening.accounts, tx.from) \in Int
  BY DEF Funded
<1> QED
  BY <1>3, <1>5, <1>6, BalanceDebited DEF Moved

-------------------------------------------------------------------------------
(* The steps of Ledger. *)

\* A run that began with these funds and ends, unsuccessful, with its last
\* balances is a failure in the ledger's terms.
LEMMA EndsAsFail ==
    ASSUME Control, Ongoing, phase = "running", phase' = "idle",
           result'.status \in Books!Errors, SameBalances(accounts'),
           UNCHANGED <<tx, opening>>
    PROVE  Books!Fail
<1> DEFINE p == tx.gas_price
           spent == (tx.gas - gas) * p
           before(a) == BalanceOf(opening.accounts, a)
<1>1. /\ tx.gas \in Nat /\ gas \in Nat /\ p \in Nat /\ IntrinsicGas(tx) \in Nat
      /\ gas <= tx.gas - IntrinsicGas(tx)
  BY RunningTransaction, TransactionsAssumption, IntrinsicGasNat DEF Usize, Ongoing
<1>2. spent \in Nat /\ IntrinsicGas(tx) * p <= spent /\ spent <= tx.gas * p
  BY <1>1, SpentBounds
<1>3. IntrinsicGas(tx) * p \in Nat /\ tx.gas * p \in Nat
  BY <1>1
<1>4. Settled = opening.accounts /\ Settled' = accounts'
  BY DEF Settled
<1>5. \A a : BalanceOf(accounts', a) =
                IF a = tx.from THEN before(a) - spent ELSE before(a)
  BY DEF SameBalances, Ongoing, Moved
<1>6. \A a : before(a) \in Nat
  BY DEF Ongoing, Funded
<1> HIDE DEF before, spent
<1>7. \A a \in Holders :
          IF a = tx.from
          THEN BalanceOf(Settled', a) \in before(a) - tx.gas * p ..
                                          before(a) - IntrinsicGas(tx) * p
          ELSE BalanceOf(Settled', a) = before(a)
  BY <1>2, <1>3, <1>4, <1>5, <1>6
<1> QED
  BY <1>4, <1>7 DEF Ongoing, Books!Fail, Books!MaxFee, before

\* A panic is a panic in the ledger's terms: the process is gone.
LEMMA EndsAsPanic ==
    ASSUME Ongoing, phase = "running", phase' = "crashed",
           result'.status = "panic", UNCHANGED <<tx, opening>>
    PROVE  Books!Panic
BY DEF Ongoing, Books!Panic, Settled

\* The prologue of execute_transaction begins or refuses a transaction.
LEMMA RunBooks ==
    ASSUME OverflowChecks, Control, Ongoing, NEW t \in Transactions, Run(t)
    PROVE  Ongoing' /\ tx' = t /\ (Books!Begin(t) \/ Books!Refuse(t))
<1> DEFINE target == ContractAddress(t)
           called == IF IsCreation(t) THEN accounts ELSE Touched(accounts, target)
           acc    == Touched(called, t.from)
           r      == Admission(acc, t)
<1>1. \A a : BalanceOf(acc, a) = BalanceOf(accounts, a)
  BY BalanceTouched
<1>2. Funded(acc) /\ Funded(accounts)
  BY <1>1, ControlFunded DEF Funded
<1>3. \/ /\ r.status \in {"InsufficientFunds", "IntrinsicGasTooLow", "panic"}
         /\ r.accounts = acc
      \/ /\ r = Receipt("ok", t.gas - IntrinsicGas(t),
                        Debited(acc, t.from, IntrinsicGas(t) * t.gas_price))
         /\ IntrinsicGas(t) <= t.gas
         /\ Covers(acc, t, t.gas)
  BY <1>2, AdmissionCovers
<1>4. /\ phase = "idle" /\ tx' = t /\ accounts' = r.accounts /\ gas' = r.gas
      /\ address' = ContractAddress(t)
      /\ opening' = [accounts |-> accounts, storage |-> storage]
      /\ IF r.status = "ok" THEN phase' = "running" /\ result' = Pending
                            ELSE Ends(r.status)
  BY DEF Run
<1> HIDE DEF acc, r
<1>5. Books!Idle /\ Settled = accounts
  BY <1>4, PendingStatus DEF Ongoing, Books!Idle, Settled
<1>6. CASE r.status \in {"InsufficientFunds", "IntrinsicGasTooLow", "panic"} /\ r.accounts = acc
  <2>1. /\ phase' \in {"idle", "crashed"}
        /\ phase' = "crashed" <=> r.status = "panic"
        /\ result' = Failure(r.status)
    BY <1>4, <1>6 DEF Ends
  <2>2. result'.status = r.status /\ result' # Pending
    BY <1>6, <2>1, PendingStatus
  <2>3. Ongoing'
    BY <2>1, <2>2 DEF Ongoing
  <2>4. \A a : BalanceOf(Settled', a) = BalanceOf(accounts, a)
    BY <1>1, <1>4, <1>6 DEF Settled
  <2>5. Books!Refuse(t)
    BY <1>5, <1>6, <2>2, <2>4 DEF Books!Refuse, Books!Refusals
  <2> QED
    BY <1>4, <2>3, <2>5
<1>7. CASE /\ r = Receipt("ok", t.gas - IntrinsicGas(t),
                          Debited(acc, t.from, IntrinsicGas(t) * t.gas_price))
           /\ IntrinsicGas(t) <= t.gas
           /\ Covers(acc, t, t.gas)
  <2>1. /\ phase' = "running" /\ result' = Pending
        /\ gas' = t.gas - IntrinsicGas(t)
        /\ accounts' = Debited(acc, t.from, IntrinsicGas(t) * t.gas_price)
    BY <1>4, <1>7 DEF Receipt
  <2>2. Settled' = accounts /\ opening'.accounts = accounts
    BY <1>4, <2>1 DEF Settled
  <2>3. Covers(accounts, t, t.gas)
    BY <1>1, <1>7 DEF Covers
  <2>4. Moved(accounts, gas)'
    <3>1. t.gas - (t.gas - IntrinsicGas(t)) = IntrinsicGas(t)
      BY IntrinsicGasNat, TransactionsAssumption DEF Usize
    <3>2. \A a : BalanceOf(accounts', a) =
                    IF a = t.from
                    THEN BalanceOf(accounts, a) - IntrinsicGas(t) * t.gas_price
                    ELSE BalanceOf(accounts, a)
      BY <1>1, <2>1, BalanceDebited
    <3> QED
      BY <1>4, <2>1, <2>2, <3>1, <3>2 DEF Moved
  <2>5. gas' <= tx'.gas - IntrinsicGas(tx')
    BY <1>4, <2>1, IntrinsicGasNat, TransactionsAssumption DEF Usize
  <2>6. Ongoing'
    BY <1>2, <1>4, <2>1, <2>2, <2>3, <2>4, <2>5, PendingStatus DEF Ongoing
  <2>7. t.from \in Holders
    BY HoldersAssumption
  <2>8. Books!Begin(t)
    BY <1>5, <2>1, <2>2, <2>3, <2>7 DEF Books!Begin, Books!MaxFee, Covers
  <2> QED
    BY <1>4, <2>6, <2>8
<1> QED
  BY <1>3, <1>6, <1>7

\* A charged instruction is a stutter of the ledger, or a failure for lack of gas.
LEMMA ChargedBooks ==
    ASSUME OverflowChecks, Control, Covered, Ongoing, phase = "running", Charged
    PROVE  Ongoing' /\ (Books!Fail \/ UNCHANGED Books!ledger)
<1>1. PICK acc, cost, next : cost \in Nat /\ SameBalances(acc) /\ Settle(acc, cost, next)
  BY LoadsBalances DEF Charged
<1> DEFINE r == PayGas(acc, tx, gas, cost)
<1>2. Funded(acc) /\ Covers(acc, tx, gas)
  BY <1>1, ControlFunded, FundedSame DEF Covered, Covers, SameBalances
<1>3. IF gas < cost THEN r = Receipt("OutOfGas", 0, acc)
      ELSE r = Receipt("ok", gas - cost, Debited(acc, tx.from, cost * tx.gas_price))
  BY <1>1, <1>2, RunningTransaction, PayGasCovered
<1>4. /\ accounts' = r.accounts /\ gas' = r.gas
      /\ UNCHANGED <<tx, address, opening>>
      /\ IF r.status = "ok" THEN UNCHANGED <<phase, result>> ELSE Ends(r.status)
  BY <1>1 DEF Settle, contract
<1> HIDE DEF r
<1>5. CASE gas < cost
  <2>1. accounts' = acc /\ phase' = "idle" /\ result' = Failure("OutOfGas")
    BY <1>3, <1>4, <1>5 DEF Receipt, Ends
  <2>2. result'.status = "OutOfGas" /\ result' # Pending
    BY <2>1, PendingStatus
  <2>3. Books!Fail
    BY <1>1, <1>4, <2>1, <2>2, EndsAsFail DEF Books!Errors
  <2> QED
    BY <2>1, <2>2, <2>3 DEF Ongoing
<1>6. CASE ~(gas < cost)
  <2>1. /\ accounts' = Debited(acc, tx.from, cost * tx.gas_price) /\ gas' = gas - cost
        /\ UNCHANGED <<phase, result>>
    BY <1>3, <1>4, <1>6 DEF Receipt
  <2>2. Moved(acc, gas)
    BY <1>1 DEF Ongoing, Moved, SameBalances
  <2>3. Moved(accounts', gas')
    BY <1>1, <1>6, <2>1, <2>2, RunningTransaction, MovedMore DEF Ongoing
  <2>4. Moved(accounts, gas)'
    BY <1>4, <2>3 DEF Moved
  <2>5. gas' <= tx'.gas - IntrinsicGas(tx')
    BY <1>1, <1>4, <2>1, RunningTransaction, IntrinsicGasNat DEF Ongoing
  <2>6. Ongoing'
    BY <1>4, <2>1, <2>4, <2>5 DEF Ongoing
  <2>7. Settled' = Settled
    BY <1>4, <2>1 DEF Settled
  <2> QED
    BY <1>4, <2>1, <2>6, <2>7 DEF Books!ledger
<1> QED
  BY <1>5, <1>6

\* A failing instruction is a failure, or a panic.
LEMMA FailedBooks ==
    ASSUME Control, Ongoing, phase = "running", Failed
    PROVE  Ongoing' /\ (Books!Fail \/ Books!Panic)
<1>1. PICK acc, status : status \in Failures /\ SameBalances(acc) /\ Abort(status, acc)
  BY LoadsBalances DEF Failed
<1>2. /\ accounts' = acc /\ UNCHANGED <<tx, opening>>
      /\ result' = Failure(status)
      /\ phase' = IF status = "panic" THEN "crashed" ELSE "idle"
  BY <1>1 DEF Abort, Ends, contract
<1>3. result'.status = status /\ result' # Pending
  BY <1>1, <1>2, PendingStatus DEF Failures
<1>4. CASE status = "panic"
  BY <1>2, <1>3, <1>4, EndsAsPanic DEF Ongoing
<1>5. CASE status # "panic"
  <2>1. status \in Books!Errors
    BY <1>1, <1>5 DEF Failures, Books!Errors
  <2>2. Books!Fail
    BY <1>1, <1>2, <1>3, <1>5, <2>1, EndsAsFail
  <2> QED
    BY <1>2, <1>3, <1>5, <2>2 DEF Ongoing
<1> QED
  BY <1>4, <1>5

\* The epilogue is a success, or a failure for lack of gas for the deposit; the
\* debit of the value cannot fail.
LEMMA FinishBooks ==
    ASSUME OverflowChecks, Control, Covered, Ongoing, phase = "running", Finish
    PROVE  Ongoing' /\ (Books!Fail \/ Books!Succeed)
<1> DEFINE p == tx.gas_price
           cost == 200 * Len(output)
           deposit == PayGas(accounts, tx, gas, cost)
           before(a) == BalanceOf(opening.accounts, a)
           value == IF IsCreation(tx) THEN tx.value ELSE 0
           r == Epilogue
           \* The balances the ledger expects when g gas is returned.
           Expected(acc, g) ==
               \A a : BalanceOf(acc, a) =
                   IF a = tx.from THEN before(a) - (tx.gas - g) * p - value
                   ELSE IF IsCreation(tx) /\ a = ContractAddress(tx) THEN value
                   ELSE before(a)
<1>1. /\ accounts' = r.accounts /\ gas' = r.gas
      /\ UNCHANGED <<tx, opening>>
      /\ IF r.status = "ok"
         THEN phase' = "idle" /\ result' = Outcome("ok", output, gas', revert)
         ELSE Ends(r.status)
  BY DEF Finish, contract
<1>2. /\ tx \in Transactions /\ tx.gas \in Nat /\ gas \in Nat /\ gas <= tx.gas
      /\ p \in Nat /\ tx.value \in Nat /\ cost \in Nat /\ IntrinsicGas(tx) \in Nat
      /\ gas <= tx.gas - IntrinsicGas(tx)
  BY RunningTransaction, TransactionsAssumption, IntrinsicGasNat
     DEF Usize, Control, BuffersOK, Ongoing
<1>3. Covers(accounts, tx, gas) /\ Moved(accounts, gas) /\ Funded(opening.accounts)
  BY DEF Covered, Ongoing
<1>4. \A a : before(a) \in Nat
  BY <1>3 DEF Funded
<1>5. \/ r = Receipt("OutOfGas", 0, accounts)
      \/ /\ r.status = "ok" /\ Expected(r.accounts, r.gas)
         /\ r.gas \in 0 .. tx.gas - IntrinsicGas(tx)
  <2>1. CASE ~IsCreation(tx)
    <3>1. r = Receipt("ok", gas, accounts)
      BY <2>1 DEF Epilogue
    <3>2. (tx.gas - gas) * p \in Nat
      BY <1>2
    <3>3. Expected(accounts, gas)
      BY <1>3, <1>4, <2>1, <3>2 DEF Moved
    <3> QED
      BY <1>2, <3>1, <3>3 DEF Receipt
  <2>2. CASE IsCreation(tx) /\ gas < cost
    <3>1. deposit = Receipt("OutOfGas", 0, accounts)
      BY <2>2 DEF PayGas
    <3> QED
      BY <2>2, <3>1 DEF Epilogue, Receipt
  <2>3. CASE IsCreation(tx) /\ ~(gas < cost)
    <3> DEFINE paid == Debited(accounts, tx.from, cost * p)
               left == gas - cost
               made == Created(paid)
    <3>1. deposit = Receipt("ok", left, paid) /\ Covers(paid, tx, left)
      <4>1. /\ deposit = Receipt("ok", left, paid)
            /\ Covers(deposit.accounts, tx, deposit.gas)
        BY <1>2, <1>3, <2>3, ControlFunded, PayGasCovered
      <4> QED
        BY <4>1 DEF Receipt
    <3>2. Moved(paid, left)
      BY <1>2, <1>3, <2>3, MovedMore
    <3>3. r = DecreaseBalance(made, tx.from, tx.value, left)
      BY <2>3, <3>1 DEF Epilogue, Receipt
    <3>4. address = ContractAddress(tx) /\ address # tx.from
      BY <1>2, <2>3, TransactionsAssumption DEF Ongoing
    <3> HIDE DEF paid
    <3>5. \A a : BalanceOf(made, a) = IF a = address THEN tx.value ELSE BalanceOf(paid, a)
      BY ValueAfterStore DEF Created, BalanceOf, AccountIn
    <3>6. left \in Nat /\ left <= tx.gas - IntrinsicGas(tx)
          /\ (tx.gas - left) * p \in Nat /\ left * p \in Nat
      <4>1. left \in Nat /\ left <= tx.gas - IntrinsicGas(tx) /\ tx.gas - left \in Nat
        BY <1>2, <2>3
      <4> HIDE DEF left
      <4> QED
        BY <1>2, <4>1
    <3> HIDE DEF made
    <3>7. BalanceOf(made, tx.from) = before(tx.from) - (tx.gas - left) * p
      BY <3>2, <3>4, <3>5 DEF Moved
    <3>8. ~(BalanceOf(made, tx.from) < tx.value)
      <4>1. BalanceOf(made, tx.from) >= left * p + tx.value
        BY <3>1, <3>4, <3>5 DEF Covers
      <4>2. BalanceOf(made, tx.from) \in Int
        BY <1>4, <3>6, <3>7
      <4> QED
        BY <1>2, <3>6, <4>1, <4>2
    <3>9. r = Receipt("ok", left, Debited(made, tx.from, tx.value))
      BY <3>3, <3>8 DEF DecreaseBalance, BalanceOf
    <3>10. Expected(Debited(made, tx.from, tx.value), left)
      BY <2>3, <3>2, <3>4, <3>5, <3>7, BalanceDebited DEF Moved
    <3> QED
      BY <3>6, <3>9, <3>10 DEF Receipt
  <2> QED
    BY <2>1, <2>2, <2>3
<1> HIDE DEF r
<1>6. CASE r = Receipt("OutOfGas", 0, accounts)
  <2>1. phase' = "idle" /\ result' = Failure("OutOfGas") /\ accounts' = accounts
    BY <1>1, <1>6 DEF Receipt, Ends
  <2>2. result'.status = "OutOfGas" /\ result' # Pending
    BY <2>1, PendingStatus
  <2>3. Books!Fail
    BY <1>1, <2>1, <2>2, EndsAsFail DEF Books!Errors, SameBalances
  <2> QED
    BY <2>1, <2>2, <2>3 DEF Ongoing
<1>7. CASE /\ r.status = "ok" /\ Expected(r.accounts, r.gas)
           /\ r.gas \in 0 .. tx.gas - IntrinsicGas(tx)
  <2>1. phase' = "idle" /\ result'.status = "ok" /\ result'.remaining_gas = r.gas
        /\ result' # Pending
    BY <1>1, <1>7, PendingStatus
  <2>2. Settled = opening.accounts /\ Settled' = r.accounts
    BY <1>1, <2>1 DEF Settled
  <2>3. Books!Succeed
    BY <1>1, <1>7, <2>1, <2>2 DEF Books!Succeed, Ongoing
  <2> QED
    BY <2>1, <2>3 DEF Ongoing
<1> QED
  BY <1>5, <1>6, <1>7

-------------------------------------------------------------------------------

\* The world Evm::new builds is an initial state of the ledger.
LEMMA InitBooks ==
    ASSUME Init
    PROVE  Ongoing /\ Books!LedgerInit
<1>1. phase = "idle" /\ result.status = "none" /\ result # Pending
  BY PendingStatus DEF Init
<1>2. \A a : BalanceOf(Settled, a) \in Nat
  BY <1>1, InitControl, ControlFunded DEF Settled, Funded
<1> QED
  BY <1>1, <1>2 DEF Ongoing, Books!LedgerInit

\* Every step is a step of the ledger or a stutter.
LEMMA NextBooks ==
    ASSUME OverflowChecks, Control, Covered, Ongoing, [Next]_vars
    PROVE  Ongoing' /\ [Books!LedgerNext]_(Books!ledger)
<1>1. CASE UNCHANGED vars
  BY <1>1 DEF vars, contract, Ongoing, Moved, Books!ledger, Settled
<1>2. ASSUME NEW t \in Transactions, Run(t)
      PROVE  Ongoing' /\ [Books!LedgerNext]_(Books!ledger)
  BY <1>2, RunBooks DEF Books!LedgerNext
<1>3. CASE Execute
  <2>1. phase = "running"
    BY <1>3, ExecuteRuns
  <2>2. Charged \/ Failed \/ Finish
    BY <1>3, <2>1, ExecuteShapes, ControlFunded, RunningTransaction DEF Control
  <2> QED
    BY <2>1, <2>2, ChargedBooks, FailedBooks, FinishBooks DEF Books!LedgerNext
<1> QED
  BY <1>1, <1>2, <1>3 DEF Next

\* Whatever its transactions and whatever their programs compute, the machine
\* keeps the ledger's books: run charges the sender for exactly the gas it does
\* not return, and never discovers half-way that the sender cannot pay.
THEOREM MachineKeepsTheBooks ==
    ASSUME OverflowChecks
    PROVE  Spec => KeepsTheBooks
<1>1. Init => Control /\ Covered /\ Ongoing /\ Books!LedgerInit
  BY InitControl, InitBooks DEF Init, Covered
<1>2. Control /\ Covered /\ Ongoing /\ [Next]_vars =>
          (Control /\ Covered /\ Ongoing)' /\ [Books!LedgerNext]_(Books!ledger)
  BY NextControl, NextCovered, NextBooks
<1> QED
  BY <1>1, <1>2, PTL DEF Spec, KeepsTheBooks, Books!LedgerSpec

-------------------------------------------------------------------------------
(* What a sender pays at most, in either build.                               *)

\* Since the balances were those of `before', transaction t has taken from its sender
\* no more than the price of the gas it has no longer, g being left, and has touched no
\* other balance.
Within(before, acc, t, g) ==
    /\ BalanceOf(before, t.from) - BalanceOf(acc, t.from) \in 0 .. (t.gas - g) * t.gas_price
    /\ \A a : a # t.from => BalanceOf(acc, a) = BalanceOf(before, a)

\* A fee, wrapped or not, is no more than the price of the gas.
LEMMA FeeBounded ==
    ASSUME NEW t \in Transactions, NEW cost \in Nat
    PROVE  Fee(t, cost) \in 0 .. cost * t.gas_price
<1> DEFINE x == cost * t.gas_price
<1>1. x \in Nat
  BY FeeNat
<1> HIDE DEF x
<1>2. x % UsizeMod \in 0 .. x
  <2>1. CASE x < UsizeMod
    BY <1>1, <2>1, UsizeAssumption
  <2>2. CASE ~(x < UsizeMod)
    BY <1>1, <2>2, UsizeAssumption
  <2> QED
    BY <2>1, <2>2
<1> QED
  BY <1>2 DEF Fee, x

\* Gas that is lost, or an account that is loaded, takes the sender no further.
LEMMA WithinLess ==
    ASSUME NEW before, NEW acc, NEW t \in Transactions, NEW g \in 0 .. t.gas,
           Within(before, acc, t, g), NEW left \in 0 .. g,
           NEW now, \A a : BalanceOf(now, a) = BalanceOf(acc, a)
    PROVE  Within(before, now, t, left)
<1>1. t.gas \in Nat /\ t.gas_price \in Nat
  BY TransactionsAssumption DEF Usize
<1>2. (t.gas - g) * t.gas_price <= (t.gas - left) * t.gas_price
  BY <1>1, TimesMonotone, t.gas - g \in Nat, t.gas - left \in Nat, t.gas - g <= t.gas - left
<1>3. (t.gas - g) * t.gas_price \in Nat /\ (t.gas - left) * t.gas_price \in Nat
  BY <1>1, t.gas - g \in Nat, t.gas - left \in Nat
<1> QED
  BY <1>2, <1>3 DEF Within

\* Nor does pay_gas_cost, however it ends.
LEMMA PayGasWithin ==
    ASSUME NEW before, Funded(before), NEW acc, Funded(acc), NEW t \in Transactions,
           NEW g \in 0 .. t.gas, NEW cost \in Nat, Within(before, acc, t, g),
           NEW r, r = PayGas(acc, t, g, cost)
    PROVE  Within(before, r.accounts, t, r.gas)
<1>1. t.gas \in Nat /\ t.gas_price \in Nat /\ g \in Nat /\ g <= t.gas
  BY TransactionsAssumption DEF Usize
<1>2. CASE g < cost
  <2>1. r = Receipt("OutOfGas", 0, acc)
    BY <1>2 DEF PayGas
  <2> QED
    BY <1>1, <2>1, WithinLess DEF Receipt
<1>3. CASE ~(g < cost) /\ FeePanics(t, cost)
  <2>1. r = Receipt("panic", g - cost, acc)
    BY <1>3 DEF PayGas
  <2> QED
    BY <1>1, <1>3, <2>1, WithinLess, g - cost \in 0 .. g DEF Receipt
<1>4. CASE ~(g < cost) /\ ~FeePanics(t, cost)
  <2> DEFINE fee == Fee(t, cost)
             spent == (t.gas - g) * t.gas_price
             more == cost * t.gas_price
  <2>1. r = DecreaseBalance(acc, t.from, fee, g - cost)
    BY <1>4 DEF PayGas
  <2>2. CASE BalanceOf(acc, t.from) < fee
    <3>1. r = Receipt("InsufficientFunds", g - cost, Touched(acc, t.from))
      BY <2>1, <2>2 DEF DecreaseBalance, BalanceOf
    <3> QED
      BY <1>1, <1>4, <3>1, WithinLess, BalanceTouched, g - cost \in 0 .. g DEF Receipt
  <2>3. CASE ~(BalanceOf(acc, t.from) < fee)
    <3>1. r = Receipt("ok", g - cost, Debited(acc, t.from, fee))
      BY <2>1, <2>3 DEF DecreaseBalance, BalanceOf
    <3>2. fee \in 0 .. more
      BY FeeBounded
    <3>3. (t.gas - (g - cost)) * t.gas_price = spent + more
      BY <1>1, <1>4, SpentMore
    <3>4. spent \in Nat /\ more \in Nat
      BY <1>1, t.gas - g \in Nat
    <3>5. BalanceOf(before, t.from) - BalanceOf(acc, t.from) \in 0 .. spent
      BY DEF Within
    <3>6. BalanceOf(before, t.from) \in Nat /\ BalanceOf(acc, t.from) \in Nat
      BY DEF Funded
    <3>7. BalanceOf(Debited(acc, t.from, fee), t.from) = BalanceOf(acc, t.from) - fee
      BY BalanceDebited
    <3> HIDE DEF fee, spent, more
    <3>8. BalanceOf(before, t.from) - (BalanceOf(acc, t.from) - fee) \in 0 .. spent + more
      BY <3>2, <3>4, <3>5, <3>6
    <3>9. \A a : a # t.from =>
              BalanceOf(Debited(acc, t.from, fee), a) = BalanceOf(before, a)
      BY BalanceDebited DEF Within
    <3> QED
      BY <3>1, <3>3, <3>7, <3>8, <3>9 DEF Within, Receipt
  <2> QED
    BY <2>2, <2>3
<1> QED
  BY <1>2, <1>3, <1>4

\* The invariant: of a run under way, what pay_gas_cost may rely on; of any state, the
\* property itself.
Charging ==
    /\ phase = "running" =>
        /\ address = ContractAddress(tx)
        /\ Funded(opening.accounts)
        /\ Within(opening.accounts, accounts, tx, gas)
    /\ NeverOvercharged

\* A transaction that does not end in success has put no money anywhere.
LEMMA WithinCharging ==
    ASSUME Control', tx' \in Transactions, Within(opening.accounts, accounts, tx, gas)',
           phase' = "running" =>
               address' = ContractAddress(tx') /\ Funded(opening'.accounts),
           phase' # "idle" \/ result'.status # "ok" \/ ~IsCreation(tx')
    PROVE  Charging'
<1> DEFINE owed == (tx'.gas - gas') * tx'.gas_price
<1>1. Endowment' = 0
  BY DEF Endowment
<1>2. owed \in Nat
  <2>1. tx'.gas \in Nat /\ tx'.gas_price \in Nat
    BY TransactionsAssumption DEF Usize
  <2>2. tx'.gas - gas' \in Nat
    BY <2>1 DEF Control, ControlTypeOK
  <2> QED
    BY <2>1, <2>2
<1>3. /\ Taken' \in 0 .. owed
      /\ \A a : a # tx'.from =>
            BalanceOf(accounts', a) = BalanceOf(opening'.accounts, a)
  BY DEF Within, Taken
<1>4. NeverOvercharged'
  <2> HIDE DEF owed
  <2>1. Taken' \in Endowment' .. Endowment' + owed
    BY <1>1, <1>2, <1>3
  <2> QED
    BY <1>3, <2>1 DEF NeverOvercharged, owed
<1> QED
  BY <1>4 DEF Charging

\* The prologue charges at most the intrinsic gas.
LEMMA RunCharging ==
    ASSUME Control, NEW t \in Transactions, Run(t)
    PROVE  Charging'
<1> DEFINE target == ContractAddress(t)
           called == IF IsCreation(t) THEN accounts ELSE Touched(accounts, target)
           acc    == Touched(called, t.from)
           r      == Admission(acc, t)
           paid   == PayGas(acc, t, t.gas, IntrinsicGas(t))
<1>1. \A a : BalanceOf(acc, a) = BalanceOf(accounts, a)
  BY BalanceTouched
<1>2. Funded(acc) /\ Funded(accounts)
  BY <1>1, ControlFunded DEF Funded
<1>3. t.gas \in Nat /\ t.gas_price \in Nat /\ IntrinsicGas(t) \in Nat
  BY TransactionsAssumption, IntrinsicGasNat DEF Usize
<1>4. /\ tx' = t /\ accounts' = r.accounts /\ gas' = r.gas
      /\ address' = ContractAddress(t) /\ opening'.accounts = accounts
      /\ IF r.status = "ok" THEN phase' = "running" /\ result' = Pending
                            ELSE Ends(r.status)
  BY DEF Run
<1>5. \/ r = Receipt("panic", t.gas, acc)
      \/ r = Receipt("InsufficientFunds", t.gas, acc)
      \/ r = Receipt("IntrinsicGasTooLow", paid.gas, paid.accounts)
      \/ r = paid
  BY DEF Admission
<1> HIDE DEF acc, r
<1>6. Within(accounts, acc, t, t.gas)
  <2>1. (t.gas - t.gas) * t.gas_price = 0
    BY <1>3
  <2>2. BalanceOf(accounts, t.from) - BalanceOf(acc, t.from) = 0
    BY <1>1, <1>2 DEF Funded
  <2> QED
    BY <1>1, <2>1, <2>2 DEF Within
<1>7. Within(accounts, paid.accounts, t, paid.gas)
  BY <1>2, <1>3, <1>6, PayGasWithin
<1> HIDE DEF paid
<1>8. Within(accounts, r.accounts, t, r.gas)
  BY <1>5, <1>6, <1>7 DEF Receipt
<1>9. Within(opening.accounts, accounts, tx, gas)'
  BY <1>4, <1>8
<1>10. phase' # "idle" \/ result'.status # "ok"
  BY <1>4, PendingStatus DEF Ends
<1> QED
  BY <1>2, <1>4, <1>9, <1>10, RunControl, WithinCharging

\* An instruction is charged at most its price ...
LEMMA ChargedCharging ==
    ASSUME Control, Charging, phase = "running", Charged
    PROVE  Charging'
<1>1. PICK acc, cost, next : cost \in Nat /\ SameBalances(acc) /\ Settle(acc, cost, next)
  BY LoadsBalances DEF Charged
<1> DEFINE r == PayGas(acc, tx, gas, cost)
<1>2. Funded(acc) /\ Funded(opening.accounts)
  BY <1>1, ControlFunded, FundedSame DEF Charging
<1>3. tx \in Transactions /\ gas \in 0 .. tx.gas /\ gas \in 0 .. gas
  BY RunningTransaction
<1>4. Within(opening.accounts, acc, tx, gas)
  BY <1>1, <1>3, WithinLess DEF Charging, SameBalances
<1>5. Within(opening.accounts, r.accounts, tx, r.gas)
  BY <1>1, <1>2, <1>3, <1>4, PayGasWithin
<1>6. /\ accounts' = r.accounts /\ gas' = r.gas
      /\ UNCHANGED <<tx, address, opening>>
      /\ IF r.status = "ok" THEN UNCHANGED <<phase, result>> ELSE Ends(r.status)
  BY <1>1 DEF Settle, contract
<1> HIDE DEF r
<1>7. Within(opening.accounts, accounts, tx, gas)'
  BY <1>5, <1>6
<1>8. phase' # "idle" \/ result'.status # "ok"
  BY <1>6, PendingStatus DEF Ends
<1> QED
  BY <1>2, <1>3, <1>6, <1>7, <1>8, ChargedControl, WithinCharging DEF Charging

\* ... and one that fails costs nothing.
LEMMA FailedCharging ==
    ASSUME Control, Charging, phase = "running", Failed
    PROVE  Charging'
<1>1. PICK acc, status : status \in Failures /\ SameBalances(acc) /\ Abort(status, acc)
  BY LoadsBalances DEF Failed
<1>2. tx \in Transactions /\ gas \in 0 .. tx.gas /\ gas \in 0 .. gas
  BY RunningTransaction
<1>3. Within(opening.accounts, acc, tx, gas)
  BY <1>1, <1>2, WithinLess DEF Charging, SameBalances
<1>4. accounts' = acc /\ UNCHANGED <<tx, address, opening, gas>> /\ Ends(status)
  BY <1>1 DEF Abort, contract
<1>5. Within(opening.accounts, accounts, tx, gas)'
  BY <1>3, <1>4
<1>6. result'.status # "ok" /\ phase' # "running"
  BY <1>1, <1>4, PendingStatus DEF Ends, Failures
<1> QED
  BY <1>2, <1>4, <1>5, <1>6, FailedControl, WithinCharging

\* A creation stores its account and then debits the value, or finds that it cannot.
LEMMA FinishCharging ==
    ASSUME Control, Charging, phase = "running", Finish
    PROVE  Charging'
<1> DEFINE cost == 200 * Len(output)
           deposit == PayGas(accounts, tx, gas, cost)
           before(a) == BalanceOf(opening.accounts, a)
           made == Created(deposit.accounts)
           r == Epilogue
<1>1. /\ tx \in Transactions /\ tx.gas \in Nat /\ tx.gas_price \in Nat /\ tx.value \in Nat
      /\ gas \in 0 .. tx.gas /\ gas \in Nat /\ cost \in Nat
  BY RunningTransaction, TransactionsAssumption DEF Usize, Control, BuffersOK
<1>2. Funded(opening.accounts) /\ Funded(accounts)
  BY ControlFunded DEF Charging
<1>3. Within(opening.accounts, accounts, tx, gas) /\ address = ContractAddress(tx)
  BY DEF Charging
<1>4. /\ accounts' = r.accounts /\ gas' = r.gas
      /\ UNCHANGED <<tx, address, opening>>
      /\ phase' # "running"
      /\ r.status = "ok" => phase' = "idle" /\ result'.status = "ok"
      /\ r.status # "ok" => result'.status # "ok"
  BY PendingStatus DEF Finish, contract, Ends
<1>5. Within(opening.accounts, deposit.accounts, tx, deposit.gas)
  BY <1>1, <1>2, <1>3, PayGasWithin
<1>6. deposit.gas \in 0 .. gas /\ Funded(deposit.accounts)
  BY <1>1, <1>2, PayGasFunded
<1>7. CASE ~IsCreation(tx)
  <2>1. r = Receipt("ok", gas, accounts)
    BY <1>7 DEF Epilogue
  <2>2. Within(opening.accounts, accounts, tx, gas)'
    BY <1>3, <1>4, <2>1 DEF Receipt
  <2> QED
    BY <1>1, <1>4, <1>7, <2>2, FinishControl, WithinCharging
<1>8. CASE IsCreation(tx) /\ deposit.status # "ok"
  <2>1. r = deposit
    BY <1>8 DEF Epilogue
  <2> HIDE DEF deposit, r
  <2>2. Within(opening.accounts, accounts, tx, gas)'
    BY <1>4, <1>5, <2>1
  <2> QED
    BY <1>1, <1>4, <1>8, <2>1, <2>2, FinishControl, WithinCharging
<1>9. CASE IsCreation(tx) /\ deposit.status = "ok"
  <2>1. r = DecreaseBalance(made, tx.from, tx.value, deposit.gas)
    BY <1>9 DEF Epilogue
  <2>2. address # tx.from
    BY <1>1, <1>3, <1>9, TransactionsAssumption
  <2> HIDE DEF deposit, r
  <2>3. \A a : BalanceOf(made, a) =
                  IF a = address THEN tx.value ELSE BalanceOf(deposit.accounts, a)
    BY ValueAfterStore DEF Created, BalanceOf, AccountIn
  <2> HIDE DEF made
  <2> DEFINE owed == (tx.gas - deposit.gas) * tx.gas_price
  <2>4. owed \in Nat
    <3>1. tx.gas - deposit.gas \in Nat
      BY <1>1, <1>6
    <3> QED
      BY <1>1, <3>1
  <2>5. /\ before(tx.from) - BalanceOf(made, tx.from) \in 0 .. owed
        /\ before(tx.from) \in Nat /\ BalanceOf(made, tx.from) \in Nat
    BY <1>2, <1>5, <1>6, <2>2, <2>3 DEF Within, Funded
  <2>6. \A a : a # tx.from => \/ BalanceOf(made, a) = before(a)
                              \/ a = address /\ BalanceOf(made, a) = tx.value
    BY <1>5, <2>3 DEF Within
  <2>7. /\ gas' = deposit.gas /\ phase' = "idle"
        /\ \/ r.status # "ok" /\ accounts' = Touched(made, tx.from)
           \/ r.status = "ok" /\ accounts' = Debited(made, tx.from, tx.value)
    <3>1. CASE BalanceOf(made, tx.from) < tx.value
      <4>1. r = Receipt("InsufficientFunds", deposit.gas, Touched(made, tx.from))
        BY <2>1, <3>1 DEF DecreaseBalance, BalanceOf
      <4>2. Ends("InsufficientFunds")
        BY <4>1 DEF Finish, r, Receipt
      <4> QED
        BY <1>4, <4>1, <4>2 DEF Receipt, Ends
    <3>2. CASE ~(BalanceOf(made, tx.from) < tx.value)
      <4>1. r = Receipt("ok", deposit.gas, Debited(made, tx.from, tx.value))
        BY <2>1, <3>2 DEF DecreaseBalance, BalanceOf
      <4> QED
        BY <1>4, <4>1 DEF Receipt
    <3> QED
      BY <3>1, <3>2
  <2>8. \A a : a # tx.from => BalanceOf(accounts', a) = BalanceOf(made, a)
    BY <2>7, BalanceTouched, BalanceDebited
  <2>9. Taken' \in Endowment' .. Endowment' + owed
    <3>1. Taken' = before(tx.from) - BalanceOf(accounts', tx.from)
      BY <1>4 DEF Taken
    <3> HIDE DEF before, owed
    <3>2. CASE r.status # "ok" /\ accounts' = Touched(made, tx.from)
      <4>1. Endowment' = 0
        BY <1>4, <3>2 DEF Endowment
      <4>2. BalanceOf(accounts', tx.from) = BalanceOf(made, tx.from)
        BY <3>2, BalanceTouched
      <4> QED
        BY <2>4, <2>5, <3>1, <4>1, <4>2
    <3>3. CASE r.status = "ok" /\ accounts' = Debited(made, tx.from, tx.value)
      <4>1. Endowment' = tx.value
        BY <1>4, <1>9, <3>3 DEF Endowment
      <4>2. BalanceOf(accounts', tx.from) = BalanceOf(made, tx.from) - tx.value
        BY <3>3, BalanceDebited
      <4> QED
        BY <1>1, <2>4, <2>5, <3>1, <4>1, <4>2
    <3> QED
      BY <2>7, <3>2, <3>3
  <2>10. NeverOvercharged'
    <3>1. \A a \in DOMAIN accounts' \ {tx'.from} :
             \/ BalanceOf(accounts', a) = BalanceOf(opening'.accounts, a)
             \/ /\ phase' = "idle" /\ IsCreation(tx') /\ a = address'
                /\ BalanceOf(accounts', a) = tx'.value
      BY <1>4, <1>9, <2>6, <2>7, <2>8
    <3>2. owed = (tx'.gas - gas') * tx'.gas_price
      BY <1>4, <2>7
    <3> HIDE DEF owed
    <3> QED
      BY <2>9, <3>1, <3>2 DEF NeverOvercharged
  <2> QED
    BY <1>4, <2>10 DEF Charging
<1> QED
  BY <1>7, <1>8, <1>9

\* No step overcharges anybody.
LEMMA NextCharging ==
    ASSUME Control, Charging, [Next]_vars
    PROVE  Charging'
<1>1. CASE UNCHANGED vars
  BY <1>1 DEF vars, contract, Charging, NeverOvercharged, Taken, Endowment, Within
<1>2. ASSUME NEW t \in Transactions, Run(t)
      PROVE  Charging'
  BY <1>2, RunCharging
<1>3. CASE Execute
  <2>1. phase = "running"
    BY <1>3, ExecuteRuns
  <2>2. Charged \/ Failed \/ Finish
    BY <1>3, <2>1, ExecuteShapes, ControlFunded, RunningTransaction DEF Control
  <2> QED
    BY <2>1, <2>2, ChargedCharging, FailedCharging, FinishCharging
<1> QED
  BY <1>1, <1>2, <1>3 DEF Next

\* Nothing has been charged when no transaction has run.
LEMMA InitCharging ==
    ASSUME Init
    PROVE  Charging
<1>1. /\ phase = "idle" /\ result.status = "none" /\ opening.accounts = accounts
      /\ tx.gas = 0 /\ tx.gas_price = 0 /\ gas = 0
  BY PendingStatus DEF Init, NoTransaction
<1>2. BalanceOf(accounts, tx.from) \in Nat
  BY InitControl, ControlFunded DEF Funded
<1>3. Taken = 0 /\ Endowment = 0 /\ (tx.gas - gas) * tx.gas_price = 0
  BY <1>1, <1>2 DEF Taken, Endowment
<1> QED
  BY <1>1, <1>3 DEF Charging, NeverOvercharged

\* Whatever the build, and however a transaction ends, its sender has paid for no more
\* than the gas that is gone, and for the contract only of a creation that succeeded.
\* In the build that wraps the funds may not cover the gas: that half-way failures take
\* nothing more rests on decrease_balance looking before it takes.
THEOREM NeverOverchargedAlways == Spec => []NeverOvercharged
<1>1. Init => Control /\ Charging
  BY InitControl, InitCharging
<1>2. Control /\ Charging /\ [Next]_vars => (Control /\ Charging)'
  BY NextControl, NextCharging
<1>3. Charging => NeverOvercharged
  BY DEF Charging
<1> QED
  BY <1>1, <1>2, <1>3, PTL DEF Spec

===============================================================================
