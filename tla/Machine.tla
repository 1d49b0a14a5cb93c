------------------------------- MODULE Machine --------------------------------
(***************************************************************************)
(* The interpreter: Evm::run, Machine::execute_transaction and every       *)
(* instruction of src/machine/instructions.rs, over the world state of     *)
(* src/blockchain.  One step of `Next' is one call of execute_next_opcode, *)
(* the prologue of a transaction or its epilogue; nothing else runs in     *)
(* between, since run takes `&mut self'.                                   *)
(*                                                                         *)
(* The pure computations are parameters: Alu is what the arithmetic and    *)
(* logic instructions compute, Keccak and CreateAddress are the hash       *)
(* functions.  The stack is written top first.                             *)
(***************************************************************************)
EXTENDS Integers, Sequences, FiniteSets, StorageOps, MemoryOps, OpcodeTable

CONSTANTS
    WordMod,             \* 2^256: the words of the machine are 0 .. WordMod - 1
    AddressMod,          \* 2^160
    StackSize,           \* 1024
    Transactions,        \* the transactions the embedder may run
    GenesisAccounts,     \* EvmParameters.accounts
    GenesisStorage,      \* EvmParameters.storage
    ChainId, Block,      \* EvmParameters.chain_id and the block passed to run
    Alu(_, _),           \* Alu(op, args): the word an arithmetic op pushes
    Keccak(_),           \* keccak256 of a sequence of bytes
    CreateAddress(_, _)  \* keccak256(rlp([sender, nonce])), truncated

Word    == 0 .. WordMod - 1
Address == 0 .. AddressMod - 1

ASSUME SizesAssumption ==
    /\ StackSize \in Nat /\ AddressMod \in Nat
    /\ WordMod \in Nat /\ WordMod = 256^WordBytes
    /\ UsizeMod <= AddressMod /\ AddressMod <= WordMod

\* What the proofs need of the powers of 256.
ASSUME PowersAssumption ==
    /\ \A k \in 0 .. WordBytes : 256^k \in Nat \ {0}
    /\ 256^WordBytes = 256 * 256^(WordBytes - 1)

Accounts == [balance : Word, code : Seq(Byte)]

\* Account::default()
NoAccount == [balance |-> 0, code |-> <<>>]

\* A transaction creates a contract when its recipient is the zero address.
IsCreation(t) == t.to = 0

ContractAddress(t) == IF IsCreation(t) THEN CreateAddress(t.from, t.nonce) ELSE t.to

\* Every field has its Rust type, and a vector a length that fits usize.  No sender is
\* the address it creates: that would be a collision of keccak256.
ASSUME TransactionsAssumption ==
    \A t \in Transactions :
        /\ t.from \in Address /\ t.to \in Address
        /\ t.gas \in Usize /\ t.gas_price \in Usize /\ t.nonce \in Usize
        /\ t.value \in Word
        /\ t.data \in Seq(Byte) /\ Len(t.data) \in Usize
        /\ ContractAddress(t) \in Address
        /\ IsCreation(t) => ContractAddress(t) # t.from

ASSUME GenesisAssumption ==
    /\ DOMAIN GenesisAccounts \subseteq Address
    /\ \A a \in DOMAIN GenesisAccounts :
         GenesisAccounts[a] \in Accounts /\ Len(GenesisAccounts[a].code) \in Usize
    /\ DOMAIN GenesisStorage \subseteq Address
    /\ \A a \in DOMAIN GenesisStorage :
         \A k \in DOMAIN GenesisStorage[a] :
            k \in Word /\ GenesisStorage[a][k] \in Word

Blocks == [difficulty : Word, gas_limit : Word, miner : Address, number : Word, time : Word]

ASSUME BlockAssumption == Block \in Blocks /\ ChainId \in Word

\* Transaction::default(): what `tx' holds before the first run.
NoTransaction == [from |-> 0, to |-> 0, gas |-> 0, gas_price |-> 0, nonce |-> 0,
                  value |-> 0, data |-> <<>>]

VARIABLES
    accounts,   \* WorldState.accounts: a map of StorageOps from addresses
    storage,    \* WorldState.storage: from addresses to maps of StorageOps
    phase,      \* "idle" between runs, "running", or "crashed" by a panic
    tx,         \* the transaction being run, or the last one that was
    address,    \* cctx.contract.address
    code,       \* cctx.contract.code
    gas,        \* cctx.contract.gas
    pc,         \* cctx.pc
    stack,      \* cctx.stack
    memory,     \* cctx.memory
    output,     \* cctx.return
    revert,     \* cctx.revert
    stop,       \* cctx.stop
    logs,       \* cctx.contract.logs
    transient,  \* cctx.transient
    result,     \* how execute_transaction ended last: its Result, or a panic
    opening     \* history: the world when the transaction began

\* The fields of the CallContext that instructions change, `gas' and `pc'
\* apart.  The context is dropped when execute_transaction returns: these
\* variables then keep their last value until the next transaction.
effects == <<stack, memory, output, revert, stop, logs, transient>>
contract == <<tx, address, code, opening>>
vars == <<accounts, storage, phase, contract, gas, pc, effects, result>>

Outcome(status, data, remaining, reverted) ==
    [status |-> status, data |-> data,
     remaining_gas |-> remaining, revert |-> reverted]

\* An Err carries no output; its payload is left out.
Failure(error) == Outcome(error, <<>>, 0, FALSE)
Pending == Failure("pending")

\* The world Evm::new builds; no transaction has run.
Init ==
    /\ accounts = NewStorage(GenesisAccounts)
    /\ storage = [a \in DOMAIN GenesisStorage |-> NewStorage(GenesisStorage[a])]
    /\ phase = "idle"
    /\ tx = NoTransaction
    /\ address = 0 /\ code = <<>> /\ gas = 0 /\ pc = 0
    /\ stack = <<>> /\ memory = <<>> /\ output = <<>>
    /\ revert = FALSE /\ stop = FALSE
    /\ logs = <<>> /\ transient = EmptyMap
    /\ result = Failure("none")
    /\ opening = [accounts |-> accounts, storage |-> storage]

-------------------------------------------------------------------------------
(* The world state: WorldState and Account. *)

AccountIn(acc, a) == Loaded(acc, a, NoAccount).value
Touched(acc, a) == AfterLoad(acc, a, NoAccount)

\* Account a pays cost, which it can afford.
Debited(acc, a, cost) ==
    LET account == AccountIn(acc, a)
    IN  AfterStore(Touched(acc, a), a,
                   [balance |-> account.balance - cost, code |-> account.code],
                   NoAccount)

\* s.storage.entry(a).or_default()
SlotsOf(a) == IF a \in DOMAIN storage THEN storage[a] ELSE EmptyMap

-------------------------------------------------------------------------------
(* Gas: Machine::pay_gas_cost. *)

\* cost * gas_price, as a usize multiplication of the build computes it.
Fee(t, cost) == (cost * t.gas_price) % UsizeMod
FeePanics(t, cost) == OverflowChecks /\ cost * t.gas_price >= UsizeMod

Receipt(status, left, acc) == [status |-> status, gas |-> left, accounts |-> acc]

\* Mutant: the balance is not looked at, and wraps.
DecreaseBalanceUnchecked(acc, a, cost, left) ==
    LET account == AccountIn(acc, a)
    IN  Receipt("ok", left,
                AfterStore(Touched(acc, a), a,
                           [balance |-> (account.balance - cost) % WordMod,
                            code |-> account.code],
                           NoAccount))

\* WorldState::decrease_balance, in a context that has `left' gas.
DecreaseBalance(acc, a, cost, left) ==
    IF AccountIn(acc, a).balance < cost
    THEN Receipt("InsufficientFunds", left, Touched(acc, a))
    ELSE Receipt("ok", left, Debited(acc, a, cost))

\* Mutant: the meter does not move.
PayGasUnmetered(acc, t, g, cost) ==
    IF g < cost THEN Receipt("OutOfGas", 0, acc)
    ELSE DecreaseBalance(acc, t.from, Fee(t, cost), g)

\* pay_gas_cost for transaction t with g gas left: its status, the gas and the
\* accounts it leaves.  Running out zeroes the gas and charges nothing.
PayGas(acc, t, g, cost) ==
    IF g < cost THEN Receipt("OutOfGas", 0, acc)
    ELSE IF FeePanics(t, cost) THEN Receipt("panic", g - cost, acc)
    ELSE DecreaseBalance(acc, t.from, Fee(t, cost), g - cost)

\* The transaction is over with an error, or the process with a panic.
Ends(status) ==
    /\ phase' = IF status = "panic" THEN "crashed" ELSE "idle"
    /\ result' = Failure(status)

\* The end of execute_next_opcode: the instruction is paid for and the program
\* counter moves on, or the error is returned.
Settle(acc, cost, next) ==
    LET r == PayGas(acc, tx, gas, cost)
    IN  /\ accounts' = r.accounts
        /\ gas' = r.gas
        /\ IF r.status = "ok"
           THEN pc' = next /\ UNCHANGED <<phase, result>>
           ELSE pc' = pc /\ Ends(r.status)
        /\ UNCHANGED contract

\* The instruction fails before it is paid for; acc is the accounts it leaves.
Abort(status, acc) ==
    /\ Ends(status)
    /\ accounts' = acc
    /\ UNCHANGED <<storage, contract, gas, pc, effects>>

-------------------------------------------------------------------------------
(* Evm::run and the prologue of execute_transaction. *)

\* Transaction::intrinsic_gas_cost
IntrinsicGas(t) ==
    21000 + (IF IsCreation(t) THEN 32000 ELSE 0)
          + 4 * Cardinality({i \in DOMAIN t.data : t.data[i] = 0})
          + 16 * Cardinality({i \in DOMAIN t.data : t.data[i] # 0})

\* Mutant: the up-front check forgets the value.
AdmissionIgnoringValue(acc, t) ==
    LET paid == PayGas(acc, t, t.gas, IntrinsicGas(t))
    IN  IF FeePanics(t, t.gas) THEN Receipt("panic", t.gas, acc)
        ELSE IF AccountIn(acc, t.from).balance < Fee(t, t.gas)
        THEN Receipt("InsufficientFunds", t.gas, acc)
        ELSE IF paid.status = "OutOfGas"
        THEN Receipt("IntrinsicGasTooLow", paid.gas, paid.accounts)
        ELSE paid

\* The up-front check of the funds and the payment of the intrinsic gas.
Admission(acc, t) ==
    LET maxCost == Fee(t, t.gas) + t.value
        paid    == PayGas(acc, t, t.gas, IntrinsicGas(t))
    IN  IF FeePanics(t, t.gas) \/ (OverflowChecks /\ maxCost >= WordMod)
        THEN Receipt("panic", t.gas, acc)
        ELSE IF AccountIn(acc, t.from).balance < maxCost % WordMod
        THEN Receipt("InsufficientFunds", t.gas, acc)
        ELSE IF paid.status = "OutOfGas"
        THEN Receipt("IntrinsicGasTooLow", paid.gas, paid.accounts)
        ELSE paid

\* The recipient of a call and then the sender are loaded, hence created and
\* warmed, before anything is checked.
Run(t) ==
    /\ phase = "idle"
    /\ LET target == ContractAddress(t)
           found  == AccountIn(accounts, target).code
           called == IF IsCreation(t) THEN accounts ELSE Touched(accounts, target)
           r      == Admission(Touched(called, t.from), t)
       IN  /\ accounts' = r.accounts
           /\ gas' = r.gas
           /\ address' = target
           /\ code' = IF IsCreation(t) THEN t.data ELSE found
           /\ IF r.status = "ok"
              THEN phase' = "running" /\ result' = Pending
              ELSE Ends(r.status)
    /\ tx' = t
    /\ opening' = [accounts |-> accounts, storage |-> storage]
    /\ pc' = 0
    /\ stack' = <<>> /\ memory' = <<>> /\ output' = <<>>
    /\ revert' = FALSE /\ stop' = FALSE
    /\ logs' = <<>> /\ transient' = EmptyMap
    /\ UNCHANGED storage

-------------------------------------------------------------------------------
(* Fetching: an instruction runs when its operands are on the stack and what
   it pushes fits.                                                            *)

CodeByte == IF pc < Len(code) THEN code[pc + 1] ELSE 0
Opcode == Mnemonic[CodeByte]

\* The instructions that push more words than they pop.
Growing == ContextOps \cup {"SELFBALANCE", "PUSH", "DUP"}

Decoding == phase = "running" /\ ~stop

\* Mutant: the stack is full one word too late.
FetchRoomy(ops) ==
    /\ Decoding
    /\ Opcode \in ops
    /\ Len(stack) >= Pops[CodeByte]

Fetch(ops) ==
    /\ Decoding
    /\ Opcode \in ops
    /\ Len(stack) >= Pops[CodeByte]
    /\ Opcode \in Growing => Len(stack) < StackSize

\* pop_or_fail on a stack that is too short, for whatever instruction.
StackUnderflow ==
    /\ Decoding
    /\ Len(stack) < Pops[CodeByte]
    /\ Abort("EmptyStack", accounts)

\* Mutant: the stack is full one word too soon.
StackOverflowEarly ==
    /\ Decoding
    /\ Opcode \in Growing
    /\ Len(stack) >= Pops[CodeByte]
    /\ Len(stack) + 1 >= StackSize
    /\ Abort("StackOverflow",
             IF Opcode = "SELFBALANCE" THEN Touched(accounts, address) ELSE accounts)

\* push_rev_or_fail on a full stack; SELFBALANCE has loaded its account by then.
StackOverflow ==
    /\ Decoding
    /\ Opcode \in Growing
    /\ Len(stack) >= Pops[CodeByte]
    /\ Len(stack) = StackSize
    /\ Abort("StackOverflow",
             IF Opcode = "SELFBALANCE" THEN Touched(accounts, address) ELSE accounts)

\* Mutant: the words are taken from the bottom.
DropBottom(n) == [i \in 1 .. Len(stack) - n |-> stack[i]]

\* The stack without its n top words.
Drop(n) == [i \in 1 .. Len(stack) - n |-> stack[i + n]]

\* The stack with its n top words replaced by w.
Replace(n, w) ==
    [i \in 1 .. Len(stack) - n + 1 |-> IF i = 1 THEN w ELSE stack[i + n - 1]]

\* A word as the bytes that MSTORE writes, and back.
BytesOf(w) == [i \in 1 .. WordBytes |-> (w \div 256^(WordBytes - i)) % 256]
WordOf(bytes) ==
    LET prefix[n \in 0 .. Len(bytes)] ==
            IF n = 0 THEN 0
            ELSE (prefix[n - 1] % 256^(WordBytes - 1)) * 256 + bytes[n]
    IN  prefix[Len(bytes)]

\* An instruction that pops n words, pushes w and leaves the buffers alone.
Compute(n, w, acc, cost, next) ==
    /\ stack' = Replace(n, w)
    /\ Settle(acc, cost, next)
    /\ UNCHANGED <<memory, output, revert, stop, logs, transient>>

-------------------------------------------------------------------------------
(* Instructions that only compute: arithmetic, logic, context, stack.         *)

\* u256::needed_size_in_bytes
NeededSize(w) == Cardinality({i \in 0 .. WordBytes - 1 : w >= 256^i})

AluCost(op, args) ==
    CASE op \in {"MUL", "DIV", "SDIV", "MOD", "SMOD", "SIGNEXTEND"} -> 5
      [] op \in {"ADDMOD", "MULMOD"} -> 8
      [] op = "EXP" -> 10 + 50 * NeededSize(args[2])
      [] OTHER -> 3

ComputeAlu ==
    /\ Fetch(AluOps)
    /\ LET n    == Pops[CodeByte]
           args == [i \in 1 .. n |-> stack[i]]
       IN  Compute(n, Alu(Opcode, args), accounts, AluCost(Opcode, args), pc + 1)
    /\ UNCHANGED storage

TransactionValue(op) ==
    CASE op = "ADDRESS"   -> address
      [] op \in {"ORIGIN", "CALLER"} -> tx.from
      [] op = "CALLVALUE" -> tx.value
      [] op = "GASPRICE"  -> tx.gas_price

\* `returndata' is never written: no instruction calls another contract.
BufferSize(op) ==
    CASE op = "CALLDATASIZE"   -> Len(tx.data)
      [] op = "CODESIZE"       -> Len(code)
      [] op = "RETURNDATASIZE" -> 0

BlockValue(op) ==
    CASE op = "COINBASE"   -> Block.miner
      [] op = "TIMESTAMP"  -> Block.time
      [] op = "NUMBER"     -> Block.number
      [] op = "PREVRANDAO" -> Block.difficulty
      [] op = "GASLIMIT"   -> Block.gas_limit
      [] op = "CHAINID"    -> ChainId

\* Mutant: GAS does not count its own cost.
ProgressEarlyGas(op) ==
    CASE op = "PC"    -> pc
      [] op = "MSIZE" -> Len(memory)
      [] op = "GAS"   -> gas

\* GAS answers what is left once it has been paid for.
Progress(op) ==
    CASE op = "PC"    -> pc
      [] op = "MSIZE" -> Len(memory)
      [] op = "GAS"   -> IF gas < 2 THEN 0 ELSE gas - 2

ContextValue(op) ==
    CASE op \in TransactionOps -> TransactionValue(op)
      [] op \in SizeOps        -> BufferSize(op)
      [] op \in BlockOps       -> BlockValue(op)
      [] op \in ProgressOps    -> Progress(op)

PushContext ==
    /\ Fetch(ContextOps)
    /\ Compute(0, ContextValue(Opcode), accounts, 2, pc + 1)
    /\ UNCHANGED storage

\* Mutant: the byte after the opcode is executed, not skipped.
PushAll(n) ==
    /\ Fetch({"PUSH"})
    /\ Arg[CodeByte] = n
    /\ LET data == [i \in 1 .. n |->
                       IF pc + i < Len(code) THEN code[pc + i + 1] ELSE 0]
       IN  Compute(0, WordOf(data), accounts, IF n = 0 THEN 2 ELSE 3, pc + 1)
    /\ UNCHANGED storage

\* push::<n>.  The bytes past the end of the code read as 0.
Push(n) ==
    /\ Fetch({"PUSH"})
    /\ Arg[CodeByte] = n
    /\ LET data == [i \in 1 .. n |->
                       IF pc + i < Len(code) THEN code[pc + i + 1] ELSE 0]
       IN  Compute(0, WordOf(data), accounts, IF n = 0 THEN 2 ELSE 3, pc + n + 1)
    /\ UNCHANGED storage

Dup ==
    /\ Fetch({"DUP"})
    /\ Compute(0, stack[Arg[CodeByte]], accounts, 3, pc + 1)
    /\ UNCHANGED storage

\* Mutant: swap counts as dup does, one word short.
SwapCountedAsDup ==
    /\ Fetch({"SWAP"})
    /\ stack' = [stack EXCEPT ![1] = stack[Arg[CodeByte] - 1],
                              ![Arg[CodeByte] - 1] = stack[1]]
    /\ Settle(accounts, 3, pc + 1)
    /\ UNCHANGED <<storage, memory, output, revert, stop, logs, transient>>

Swap ==
    /\ Fetch({"SWAP"})
    /\ stack' = [stack EXCEPT ![1] = stack[Arg[CodeByte]],
                              ![Arg[CodeByte]] = stack[1]]
    /\ Settle(accounts, 3, pc + 1)
    /\ UNCHANGED <<storage, memory, output, revert, stop, logs, transient>>

Pop ==
    /\ Fetch({"POP"})
    /\ stack' = Drop(1)
    /\ Settle(accounts, 2, pc + 1)
    /\ UNCHANGED <<storage, memory, output, revert, stop, logs, transient>>

\* CALLDATALOAD: `offset + i' overflows near the end of the address space.
InputByte(i) == IF i < Len(tx.data) THEN tx.data[i + 1] ELSE 0

InputWord(offset) ==
    IF offset \in Usize
    THEN WordOf([i \in 1 .. WordBytes |-> InputByte((offset + i - 1) % UsizeMod)])
    ELSE 0

InputOverflows(offset) ==
    /\ OverflowChecks
    /\ offset \in Usize /\ offset + WordBytes - 1 >= UsizeMod

CallDataLoad ==
    /\ Fetch({"CALLDATALOAD"})
    /\ ~InputOverflows(stack[1])
    /\ Compute(1, InputWord(stack[1]), accounts, 3, pc + 1)
    /\ UNCHANGED storage

CallDataOverflow ==
    /\ Fetch({"CALLDATALOAD"})
    /\ InputOverflows(stack[1])
    /\ Abort("panic", accounts)

-------------------------------------------------------------------------------
(* Instructions that read accounts.                                           *)

\* Mutant: the price is taken once the account has been warmed.
AccessCostAfterLoad(acc, a) ==
    IF Loaded(Touched(acc, a), a, NoAccount).warm THEN 100 ELSE 2600

AccessCost(acc, a) == IF Loaded(acc, a, NoAccount).warm THEN 100 ELSE 2600

AccountField(op, account) ==
    CASE op = "BALANCE"     -> account.balance
      [] op = "EXTCODESIZE" -> Len(account.code)
      [] op = "EXTCODEHASH" -> Keccak(account.code)

QueryAccount ==
    /\ Fetch({"BALANCE", "EXTCODESIZE", "EXTCODEHASH"})
    /\ stack[1] \in Address
    /\ Compute(1, AccountField(Opcode, AccountIn(accounts, stack[1])),
               Touched(accounts, stack[1]), AccessCost(accounts, stack[1]), pc + 1)
    /\ UNCHANGED storage

\* TryInto::<Address> fails on a word that has any of its high bits set.
InvalidAddress ==
    /\ Fetch({"BALANCE", "EXTCODESIZE", "EXTCODEHASH", "EXTCODECOPY"})
    /\ stack[1] \notin Address
    /\ Abort("InvalidAddress", accounts)

\* Mutant: the value of a call is credited as it begins.
SelfBalanceCredited ==
    /\ Fetch({"SELFBALANCE"})
    /\ Compute(0, AccountIn(accounts, address).balance + tx.value,
               Touched(accounts, address), 5, pc + 1)
    /\ UNCHANGED storage

SelfBalance ==
    /\ Fetch({"SELFBALANCE"})
    /\ Compute(0, AccountIn(accounts, address).balance,
               Touched(accounts, address), 5, pc + 1)
    /\ UNCHANGED storage

-------------------------------------------------------------------------------
(* Instructions that access memory.  Each first checks the range, extends the
   memory to cover it and then reads or writes.                               *)

\* The sequence a copying instruction copies from.  extcodecopy's is the code of
\* the account on top of the stack, and its other operands come one lower.
Source(op) ==
    CASE op = "CALLDATACOPY"   -> tx.data
      [] op = "CODECOPY"       -> code
      [] op = "RETURNDATACOPY" -> <<>>
      [] op = "EXTCODECOPY"    -> AccountIn(accounts, stack[1]).code

Operand(i) == stack[IF Opcode = "EXTCODECOPY" THEN i + 1 ELSE i]

\* Mutant: the slice is cut at the size, wherever it starts.
SliceEndOfSize(len, offset, size) == IF len < size THEN len ELSE size

\* `&source[offset..min(len, offset + size)]': the operands are unwrapped, the
\* sum may overflow, and the slice may start after its end.
SliceEnd(len, offset, size) ==
    IF len < End(offset, size) THEN len ELSE End(offset, size)

SlicePanics(len, offset, size) ==
    \/ offset \notin Usize \/ size \notin Usize
    \/ OverflowChecks /\ offset + size >= UsizeMod
    \/ offset > SliceEnd(len, offset, size)

\* MCOPY has extended the memory for its source when it checks its destination.
MoveStatus(len, dest, offset, size) ==
    IF LoadStatus(len, offset, size) # "ok" THEN LoadStatus(len, offset, size)
    ELSE StoreStatus(LenAfter(len, offset, size), dest, size)

CopyStatus(op, len, dest, offset, size) ==
    IF SlicePanics(Len(Source(op)), offset, size) THEN "panic"
    ELSE StoreStatus(len, dest, size)

MemoryOpcodes == CopyOps \cup
    {"KECCAK256", "MLOAD", "MSTORE", "MSTORE8", "MCOPY", "LOG", "RETURN", "REVERT"}

AccessStatus ==
    LET len == Len(memory)
    IN  CASE Opcode = "MLOAD"   -> LoadStatus(len, stack[1], WordBytes)
          [] Opcode = "MSTORE"  -> StoreStatus(len, stack[1], WordBytes)
          [] Opcode = "MSTORE8" -> StoreStatus(len, stack[1], 1)
          [] Opcode = "MCOPY"   -> MoveStatus(len, stack[1], stack[2], stack[3])
          [] Opcode \in {"KECCAK256", "LOG", "RETURN", "REVERT"} ->
                LoadStatus(len, stack[1], stack[2])
          [] Opcode \in CopyOps ->
                CopyStatus(Opcode, len, Operand(1), Operand(2), Operand(3))

\* EXTCODECOPY loads its account before the memory is looked at.
CopiedFrom ==
    IF Opcode = "EXTCODECOPY" THEN Touched(accounts, stack[1]) ELSE accounts

\* The instructions of ops are fetched, with a valid address if they take one.
FetchAccess(ops) ==
    /\ Fetch(ops)
    /\ Opcode = "EXTCODECOPY" => stack[1] \in Address

AccessFails ==
    /\ FetchAccess(MemoryOpcodes)
    /\ AccessStatus # "ok"
    /\ Abort(AccessStatus, CopiedFrom)

AccessMemory(ops) == FetchAccess(ops) /\ AccessStatus = "ok"

Expansion(offset, size) == ExpansionCost(Len(memory), offset, size)

MLoad ==
    /\ AccessMemory({"MLOAD"})
    /\ stack' = Replace(1, WordOf(Read(memory, stack[1], WordBytes)))
    /\ memory' = Extended(memory, stack[1], WordBytes)
    /\ Settle(accounts, 3 + Expansion(stack[1], WordBytes), pc + 1)
    /\ UNCHANGED <<storage, output, revert, stop, logs, transient>>

\* MSTORE and MSTORE8: n bytes of the second operand are stored at the first.
StoreBytes(op, n) ==
    /\ AccessMemory({op})
    /\ stack' = Drop(2)
    /\ memory' = Written(memory, stack[1], n,
                         SubSeq(BytesOf(stack[2]), WordBytes - n + 1, WordBytes))
    /\ Settle(accounts, 3 + Expansion(stack[1], n), pc + 1)
    /\ UNCHANGED <<storage, output, revert, stop, logs, transient>>

MStore  == StoreBytes("MSTORE", WordBytes)
MStore8 == StoreBytes("MSTORE8", 1)

CopyCost(op, acc, dest, size) ==
    (IF op = "EXTCODECOPY" THEN AccessCost(acc, stack[1]) ELSE 3)
        + 3 * Words(size) + Expansion(dest, size)

Copy ==
    /\ AccessMemory(CopyOps)
    /\ LET dest   == Operand(1)
           offset == Operand(2)
           size   == Operand(3)
           source == Source(Opcode)
           slice  == SubSeq(source, offset + 1, SliceEnd(Len(source), offset, size))
       IN  /\ stack' = Drop(Pops[CodeByte])
           /\ memory' = Written(memory, dest, size, slice)
           /\ Settle(CopiedFrom, CopyCost(Opcode, accounts, dest, size), pc + 1)
    /\ UNCHANGED <<storage, output, revert, stop, logs, transient>>

MCopy ==
    /\ AccessMemory({"MCOPY"})
    /\ LET dest   == stack[1]
           offset == stack[2]
           size   == stack[3]
           grown  == Extended(memory, offset, size)
       IN  /\ stack' = Drop(3)
           /\ memory' = Written(grown, dest, size, Read(memory, offset, size))
           /\ Settle(accounts,
                     3 + 3 * Words(size) + Expansion(offset, size)
                         + ExpansionCost(Len(grown), dest, size),
                     pc + 1)
    /\ UNCHANGED <<storage, output, revert, stop, logs, transient>>

Keccak256 ==
    /\ AccessMemory({"KECCAK256"})
    /\ stack' = Replace(2, Keccak(Read(memory, stack[1], stack[2])))
    /\ memory' = Extended(memory, stack[1], stack[2])
    /\ Settle(accounts, 30 + 6 * Words(stack[2]) + Expansion(stack[1], stack[2]), pc + 1)
    /\ UNCHANGED <<storage, output, revert, stop, logs, transient>>

\* The None entries of the array of four topics are left out.
LogEntry(data, topics) == [data |-> data, topics |-> topics]

\* log::<n>
Log(n) ==
    /\ AccessMemory({"LOG"})
    /\ Arg[CodeByte] = n
    /\ stack' = Drop(2 + n)
    /\ memory' = Extended(memory, stack[1], stack[2])
    /\ logs' = Append(logs, LogEntry(Read(memory, stack[1], stack[2]),
                                     SubSeq(stack, 3, 2 + n)))
    /\ Settle(accounts,
              375 * (n + 1) + 8 * stack[2] + Expansion(stack[1], stack[2]), pc + 1)
    /\ UNCHANGED <<storage, output, revert, stop, transient>>

\* RETURN and REVERT: nothing is undone, the flag is all that tells them apart.
Halt(op, reverts) ==
    /\ AccessMemory({op})
    /\ stack' = Drop(2)
    /\ memory' = Extended(memory, stack[1], stack[2])
    /\ output' = Read(memory, stack[1], stack[2])
    /\ stop' = TRUE
    /\ revert' = reverts
    /\ Settle(accounts, Expansion(stack[1], stack[2]), pc)
    /\ UNCHANGED <<storage, logs, transient>>

Return == Halt("RETURN", FALSE)
Revert == Halt("REVERT", TRUE)

-------------------------------------------------------------------------------
(* Instructions on the slots of the contract, persistent and transient.       *)

\* The value was charged at the price of the entry before the call.
SLoadCost(slot) == IF slot.warm THEN 100 ELSE 2100

\* Mutant: SSTORE does not charge for a cold slot.
SStoreCostWarm(slot, value) ==
    IF value = slot.value \/ slot.value # slot.original_value THEN 100
    ELSE IF slot.original_value = 0 THEN 20000 ELSE 2900

SStoreCost(slot, value) ==
    (IF value = slot.value \/ slot.value # slot.original_value THEN 100
     ELSE IF slot.original_value = 0 THEN 20000 ELSE 2900)
        + (IF slot.warm THEN 0 ELSE 2100)

SLoad ==
    /\ Fetch({"SLOAD"})
    /\ LET slot == Loaded(SlotsOf(address), stack[1], 0)
       IN  Compute(1, slot.value, accounts, SLoadCost(slot), pc + 1)
    /\ storage' = Put(storage, address, AfterLoad(SlotsOf(address), stack[1], 0))

\* Mutant: the slot is the sender's.
SStoreForSender ==
    /\ Fetch({"SSTORE"})
    /\ LET slots == SlotsOf(tx.from)
       IN  /\ storage' = Put(storage, tx.from, AfterStore(slots, stack[1], stack[2], 0))
           /\ Settle(accounts, SStoreCost(Loaded(slots, stack[1], 0), stack[2]), pc + 1)
    /\ stack' = Drop(2)
    /\ UNCHANGED <<memory, output, revert, stop, logs, transient>>

\* The slot is written before the instruction is paid for.
SStore ==
    /\ Fetch({"SSTORE"})
    /\ LET slots == SlotsOf(address)
       IN  /\ storage' = Put(storage, address, AfterStore(slots, stack[1], stack[2], 0))
           /\ Settle(accounts, SStoreCost(Loaded(slots, stack[1], 0), stack[2]), pc + 1)
    /\ stack' = Drop(2)
    /\ UNCHANGED <<memory, output, revert, stop, logs, transient>>

\* Transient::load and Transient::store.
TransientLoad(slots, key) == IF key \in DOMAIN slots THEN slots[key] ELSE 0
TransientStore(slots, key, value) == Put(slots, key, value)

TLoad ==
    /\ Fetch({"TLOAD"})
    /\ Compute(1, TransientLoad(transient, stack[1]), accounts, 100, pc + 1)
    /\ UNCHANGED storage

TStore ==
    /\ Fetch({"TSTORE"})
    /\ transient' = TransientStore(transient, stack[1], stack[2])
    /\ stack' = Drop(2)
    /\ Settle(accounts, 100, pc + 1)
    /\ UNCHANGED <<storage, memory, output, revert, stop, logs>>

-------------------------------------------------------------------------------
(* Control flow.                                                              *)

\* jump_or_fail looks at the byte only: one inside the data of a PUSH will do.
JumpTarget(dest) == dest \in Usize /\ dest < Len(code) /\ code[dest + 1] = 91

Jumps == Opcode = "JUMPI" => stack[2] # 0

Jump ==
    /\ Fetch({"JUMP", "JUMPI"})
    /\ Jumps => JumpTarget(stack[1])
    /\ stack' = Drop(Pops[CodeByte])
    /\ Settle(accounts, IF Opcode = "JUMP" THEN 8 ELSE 10,
              IF Jumps THEN stack[1] ELSE pc + 1)
    /\ UNCHANGED <<storage, memory, output, revert, stop, logs, transient>>

InvalidJump ==
    /\ Fetch({"JUMP", "JUMPI"})
    /\ Jumps /\ ~JumpTarget(stack[1])
    /\ Abort("InvalidJumpDest", accounts)

\* Mutant: the landing is free.
JumpDestFree ==
    /\ Fetch({"JUMPDEST"})
    /\ Settle(accounts, 0, pc + 1)
    /\ UNCHANGED <<storage, effects>>

JumpDest ==
    /\ Fetch({"JUMPDEST"})
    /\ Settle(accounts, 1, pc + 1)
    /\ UNCHANGED <<storage, effects>>

\* Mutant: STOP leaves the loop running.
StopUnnoticed ==
    /\ Fetch({"STOP"})
    /\ Settle(accounts, 0, pc)
    /\ UNCHANGED <<storage, effects>>

Stop ==
    /\ Fetch({"STOP"})
    /\ stop' = TRUE
    /\ Settle(accounts, 0, pc)
    /\ UNCHANGED <<storage, stack, memory, output, revert, logs, transient>>

\* INVALID burns the gas that is left and halts as REVERT does.
Invalid ==
    /\ Fetch({"INVALID"})
    /\ stop' = TRUE
    /\ revert' = TRUE
    /\ Settle(accounts, gas, pc)
    /\ UNCHANGED <<storage, stack, memory, output, logs, transient>>

\* The body of the instruction is todo!().
Unimplemented ==
    /\ Fetch(TodoOps)
    /\ Abort("panic", accounts)

-------------------------------------------------------------------------------
(* The epilogue of execute_transaction.  A creation pays for its code, stores
   the account, whatever `revert' says, and only then debits the value.       *)

\* Mutant: the new account keeps what its address held.
CreatedOnTop(acc) ==
    AfterStore(acc, address,
               [balance |-> AccountIn(acc, address).balance + tx.value, code |-> output],
               NoAccount)

\* Mutant: the code that ran is stored, not the code it returned.
CreatedFromInput(acc) ==
    AfterStore(acc, address, [balance |-> tx.value, code |-> code], NoAccount)

Created(acc) == AfterStore(acc, address, [balance |-> tx.value, code |-> output], NoAccount)

\* Mutant: the account is stored before its code is paid for.
EpilogueStoresFirst ==
    LET deposit == PayGas(Created(accounts), tx, gas, 200 * Len(output))
    IN  IF ~IsCreation(tx) THEN Receipt("ok", gas, accounts)
        ELSE IF deposit.status # "ok" THEN deposit
        ELSE DecreaseBalance(deposit.accounts, tx.from, tx.value, deposit.gas)

Epilogue ==
    LET deposit == PayGas(accounts, tx, gas, 200 * Len(output))
    IN  IF ~IsCreation(tx) THEN Receipt("ok", gas, accounts)
        ELSE IF deposit.status # "ok" THEN deposit
        ELSE DecreaseBalance(Created(deposit.accounts), tx.from, tx.value, deposit.gas)

Finish ==
    /\ phase = "running" /\ stop
    /\ accounts' = Epilogue.accounts
    /\ gas' = Epilogue.gas
    /\ IF Epilogue.status = "ok"
       THEN phase' = "idle" /\ result' = Outcome("ok", output, gas', revert)
       ELSE Ends(Epilogue.status)
    /\ UNCHANGED <<storage, contract, pc, effects>>

-------------------------------------------------------------------------------

\* One iteration of the loop of execute_transaction, or its epilogue.
Execute ==
    \/ StackUnderflow \/ StackOverflow \/ Unimplemented
    \/ ComputeAlu \/ PushContext \/ Dup \/ Swap \/ Pop
    \/ \E n \in 0 .. 32 : Push(n)
    \/ CallDataLoad \/ CallDataOverflow
    \/ QueryAccount \/ InvalidAddress \/ SelfBalance
    \/ AccessFails \/ MLoad \/ MStore \/ MStore8 \/ Copy \/ MCopy \/ Keccak256
    \/ \E n \in 0 .. 4 : Log(n)
    \/ Return \/ Revert
    \/ SLoad \/ SStore \/ TLoad \/ TStore
    \/ Jump \/ InvalidJump \/ JumpDest \/ Stop \/ Invalid
    \/ Finish

Next == (\E t \in Transactions : Run(t)) \/ Execute

\* The loop runs until it halts: a transaction under way is never abandoned.
\* Nothing obliges the embedder to run another one.
Spec == Init /\ [][Next]_vars /\ WF_vars(Execute)

===============================================================================
