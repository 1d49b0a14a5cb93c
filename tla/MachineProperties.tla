-------------------------- MODULE MachineProperties ---------------------------
(***************************************************************************)
(* What the interpreter of module Machine must satisfy.                    *)
(***************************************************************************)
EXTENDS Machine

CONSTANTS
    Holders,  \* the addresses that Ledger and World watch
    Keys      \* the slots that World watches

ASSUME HoldersAssumption == \A t \in Transactions : t.from \in Holders

(* Types. *)

EntryOf(values) == [original_value : values, value : values, warm : BOOLEAN]

IsMap(m, keys, entries) == DOMAIN m \subseteq keys /\ \A k \in DOMAIN m : m[k] \in entries

\* The part of the type invariant that does not depend on what the instructions
\* compute: who is running, the meter, and the sizes of every buffer.
ControlTypeOK ==
    /\ phase \in {"idle", "running", "crashed"}
    /\ IF result.status = "none" THEN tx = NoTransaction /\ phase = "idle"
                                 ELSE tx \in Transactions
    /\ gas \in 0 .. tx.gas
    /\ stop \in BOOLEAN /\ revert \in BOOLEAN
    /\ \A a \in DOMAIN accounts : accounts[a].value.balance \in Nat

\* The machine's state has the types of the source; the stack never exceeds its
\* 1024 words, the memory is a whole number of words, and the program counter is
\* at most one PUSH32 past the end of the code.
TypeOK ==
    /\ ControlTypeOK
    /\ IsMap(accounts, Address, EntryOf(Accounts))
    /\ DOMAIN storage \subseteq Address
    /\ \A a \in DOMAIN storage : IsMap(storage[a], Word, EntryOf(Word))
    /\ address \in Address /\ code \in Seq(Byte)
    /\ pc \in 0 .. Len(code) + 32
    /\ stack \in Seq(Word) /\ Len(stack) <= StackSize
    /\ memory \in Seq(Byte) /\ Len(memory) <= AllocLimit
    /\ Len(memory) % WordBytes = 0
    /\ output \in Seq(Byte)
    /\ \A i \in DOMAIN logs : logs[i].data \in Seq(Byte) /\ Len(logs[i].topics) <= 4
    /\ IsMap(transient, Word, Word)

-------------------------------------------------------------------------------
(* Money. *)

BalanceOf(acc, a) == AccountIn(acc, a).balance

\* pay_gas_cost may charge the sender after any instruction, and the epilogue of
\* a creation debits the value last: the up-front check of execute_transaction
\* must have made sure that both always succeed, and that no fee overflows, in a
\* build that checks for overflow.
FundsCoverGas ==
    OverflowChecks /\ phase = "running" =>
        /\ BalanceOf(accounts, tx.from) >= gas * tx.gas_price + tx.value
        /\ ~FeePanics(tx, gas)

\* While a transaction runs, or after a panic, the ledger still shows the
\* balances from before it.
Settled == IF phase = "idle" THEN accounts ELSE opening.accounts

Books == INSTANCE Ledger
    WITH balance <- [a \in Holders |-> BalanceOf(Settled, a)],
         current <- tx,
         outcome <- result

\* Machine implements Ledger in a build that checks for overflow: run charges
\* the sender exactly for the gas it does not return, whatever path the
\* instructions took, endows exactly the created contract, and moves no money
\* when it refuses; it never discovers half-way that the sender cannot pay.
KeepsTheBooks == Books!LedgerSpec

\* What the transaction under way, or else the last one, has taken from its sender.
Taken == BalanceOf(opening.accounts, tx.from) - BalanceOf(accounts, tx.from)

\* What it has put into a new contract, if it came that far.
Endowment ==
    IF phase = "idle" /\ result.status = "ok" /\ IsCreation(tx) THEN tx.value ELSE 0

\* In either build, whatever fees have wrapped, a sender pays for no more than the gas
\* that is gone, and in full for the contract of a creation that succeeds, also when it
\* turns out half-way that it cannot pay and the run is given up; and nobody else's
\* balance changes but that of the contract created.
NeverOvercharged ==
    /\ Taken \in Endowment .. Endowment + (tx.gas - gas) * tx.gas_price
    /\ \A a \in DOMAIN accounts \ {tx.from} :
          \/ BalanceOf(accounts, a) = BalanceOf(opening.accounts, a)
          \/ /\ phase = "idle" /\ IsCreation(tx) /\ a = address
             /\ BalanceOf(accounts, a) = tx.value

\* BALANCE and SELFBALANCE see the money as it was when the run began, but for the
\* fees that its sender has paid so far: the value a call brings with it is not there
\* yet, and a creation sees what the address of its contract held before.
BalancesSeen ==
    [][ Fetch({"BALANCE", "SELFBALANCE"}) /\ phase' = "running" =>
        LET a    == IF Opcode = "SELFBALANCE" THEN address ELSE stack[1]
            held == BalanceOf(opening.accounts, a)
        IN  IF a # tx.from THEN stack'[1] = held
            ELSE OverflowChecks => stack'[1] = held - (tx.gas - gas) * tx.gas_price ]_vars

-------------------------------------------------------------------------------
(* Gas. *)

\* What a run has to show for itself: it is under way, or it has succeeded.
Accountable == phase = "running" \/ (phase = "idle" /\ result.status = "ok")

Warmed(now, before) ==
    {k \in DOMAIN now : now[k].warm /\ ~(k \in DOMAIN before /\ before[k].warm)}

\* The accounts execute_transaction and SELFBALANCE load for nothing.
FreeAccounts == {tx.from, address}

OwnSlotsBefore ==
    IF address \in DOMAIN opening.storage THEN opening.storage[address] ELSE EmptyMap

\* The slots that were clean when the run began and that it has changed.
Dirtied ==
    {k \in DOMAIN SlotsOf(address) :
        LET before == Loaded(OwnSlotsBefore, k, 0)
        IN  before.value = before.original_value /\ SlotsOf(address)[k].value # before.value}

Fresh(slots) == {k \in slots : Loaded(OwnSlotsBefore, k, 0).original_value = 0}

\* The gas spent accounts for everything the run has accumulated: the memory, by
\* whatever sequence of extensions it grew, each account and slot touched for
\* the first time, each clean slot written, and the code that was deployed.
EverythingPaidFor ==
    Accountable =>
        tx.gas - gas >=
            IntrinsicGas(tx)
            + MemoryCost(Len(memory))
            + 2600 * Cardinality(Warmed(accounts, opening.accounts) \ FreeAccounts)
            + 2100 * Cardinality(Warmed(SlotsOf(address), OwnSlotsBefore))
            + 2900 * Cardinality(Dirtied \ Fresh(Dirtied))
            + 20000 * Cardinality(Fresh(Dirtied))
            + (IF phase = "idle" /\ IsCreation(tx) THEN 200 * Len(output) ELSE 0)

\* GAS pushes the gas that is left once GAS itself is paid for, although it runs
\* before it is.
GasReadIsExact ==
    [][ Fetch({"GAS"}) /\ phase' = "running" => stack'[1] = gas' ]_vars

\* No instruction but the halting ones is free: each that lets its transaction go on
\* leaves it less gas, so that no program loops longer than its gas lasts.
GasRunsOut ==
    [][ Decoding /\ phase' = "running" => stop' \/ gas' < gas ]_vars

\* Every run comes to an end, by halting, an error or a panic: a program that
\* loops is stopped by its gas, since no instruction but the halting ones is free.
Terminates == phase = "running" ~> phase # "running"

-------------------------------------------------------------------------------
(* The world state. *)

\* A run changes the value of no account but its sender's, whatever accounts it
\* loads, and the slots of no contract but its own, until its epilogue stores the
\* account of the contract it creates.
Isolation ==
    phase = "running" =>
        /\ DOMAIN opening.accounts \subseteq DOMAIN accounts
        /\ \A a \in DOMAIN accounts \ {tx.from} :
              accounts[a].value = AccountIn(opening.accounts, a)
        /\ accounts[tx.from].value.code = AccountIn(opening.accounts, tx.from).code
        /\ DOMAIN storage \subseteq DOMAIN opening.storage \cup {address}
        /\ \A a \in DOMAIN opening.storage \ {address} :
              storage[a] = opening.storage[a]

Journalled(now, next) ==
    \A k \in DOMAIN now :
        /\ k \in DOMAIN next
        /\ next[k].original_value = now[k].original_value
        /\ now[k].warm => next[k].warm

\* No step, of whatever run, forgets a key, the value a key had when the world
\* was built or that it has been accessed: neither the start of another
\* transaction nor the failure of one resets the journal that SLOAD and SSTORE
\* take their prices from.
JournalKept ==
    [][ /\ Journalled(accounts, accounts')
        /\ \A a \in DOMAIN storage :
              a \in DOMAIN storage' /\ Journalled(storage[a], storage'[a]) ]_vars

\* While a transaction runs, or after a panic, the embedder's world is the one from
\* before it.
SettledStorage == IF phase = "idle" THEN storage ELSE opening.storage

SlotIn(a, k) ==
    Loaded(IF a \in DOMAIN SettledStorage THEN SettledStorage[a] ELSE EmptyMap, k, 0)

Promise == INSTANCE World
    WITH code    <- [a \in Holders |-> AccountIn(Settled, a).code],
         slot    <- [p \in Holders \X Keys |-> SlotIn(p[1], p[2]).value],
         warm    <- {a \in Holders : Loaded(Settled, a, NoAccount).warm},
         used    <- {p \in Holders \X Keys : SlotIn(p[1], p[2]).warm},
         current <- tx,
         outcome <- result

\* Machine implements World in a build that checks for overflow: whatever its
\* program, a transaction changes no code but that of the contract it creates, to
\* exactly the data it returns, no slot but its own contract's, and no value that
\* it does not leave warm; a refused one warms its parties and does no more.
KeepsTheWorld == Promise!WorldSpec

-------------------------------------------------------------------------------
(* The stack. *)

\* What an instruction leaves of the stack under its operands is what was there:
\* none, SWAP and DUP included, disturbs a word below the ones it pops.
StackBelowKept ==
    [][ Decoding /\ phase' = "running" =>
        LET kept == Len(stack) - Pops[CodeByte]
        IN  /\ Len(stack') >= kept
            /\ \A i \in 1 .. kept :
                  stack'[Len(stack') - kept + i] = stack[Len(stack) - kept + i] ]_vars

\* The instructions that leave no word on the stack.
TakeOps == CopyOps \cup TodoOps \cup
    {"POP", "MSTORE", "MSTORE8", "MCOPY", "LOG", "SSTORE", "TSTORE", "JUMP", "JUMPI",
     "JUMPDEST", "STOP", "RETURN", "REVERT", "INVALID"}

\* What the instruction of byte b does to the stack, and with how many operands.
Operation(b) ==
    [shape |-> CASE Mnemonic[b] = "DUP"     -> "dup"
                 [] Mnemonic[b] = "SWAP"    -> "swap"
                 [] Mnemonic[b] \in TakeOps -> "take"
                 [] OTHER                   -> "compute",
     arity |-> Pops[b]]

StackUse == INSTANCE StackContract
    WITH Values     <- Word,
         Operations <- {Operation(b) : b \in Byte},
         words      <- IF phase = "running" THEN stack ELSE <<>>,
         next       <- IF phase = "running" THEN Operation(CodeByte)
                       ELSE [shape |-> "none", arity |-> 0],
         outcome    <- IF result.status \in {"EmptyStack", "StackOverflow"}
                       THEN result.status ELSE "ok"

\* Every instruction uses the stack as StackContract says of its byte, in one step: it
\* takes its operands, computes one word, duplicates or swaps, and a run ends with
\* EmptyStack only when that very instruction has too few operands, and with
\* StackOverflow only when it would be the word too many.  Stack implements the same
\* contract one word at a time.
KeepsStackContract == StackUse!ContractSpec

\* The two tables of opcode.rs agree.  A byte with a name runs the instruction of
\* that name, and one without runs `invalid'; and where the tables count, a byte shown
\* as PUSHn steps over n bytes of data, DUPn copies the n-th word, SWAPn exchanges the
\* top with the n-th word below it, and LOGn records n topics.  A byte without a name
\* burns the gas, and only the bytes with these five names halt.
NameTellsEffect ==
    [][ Decoding =>
        LET name == ShownName[CodeByte]
            n    == ShownNumber[CodeByte]
        IN  /\ name = Opcode \/ (name = "UNKNOWN" /\ Opcode = "INVALID")
            /\ phase' = "running" =>
                /\ name = "PUSH" => pc' = pc + n + 1
                /\ name = "DUP"  => stack' = <<stack[n]>> \o stack
                /\ name = "SWAP" => stack' = [stack EXCEPT ![1] = stack[n + 1],
                                                           ![n + 1] = stack[1]]
                /\ name = "LOG"  => Len(logs'[Len(logs')].topics) = n
                /\ name \in {"INVALID", "UNKNOWN"} => gas' = 0 /\ revert'
                /\ stop' <=> name \in {"STOP", "RETURN", "REVERT", "INVALID", "UNKNOWN"}
        ]_vars

-------------------------------------------------------------------------------
(* Control flow. *)

Width(b) == IF Mnemonic[b] = "PUSH" THEN Arg[b] + 1 ELSE 1

\* The places where decoding the code one instruction after the other begins an
\* instruction, started at 0 or at any byte 0x5B; beyond the code there are only STOPs.
Boundary(program) ==
    LET begins[i \in 0 .. Len(program)] ==
            \/ i = 0
            \/ i < Len(program) /\ program[i + 1] = 91
            \/ \E j \in 0 .. i - 1 : j + Width(program[j + 1]) = i /\ begins[j]
    IN  begins

\* Execution never enters the data of a PUSH, unless it jumps to a byte 0x5B there:
\* after any jumps, the program counter is where decoding from the beginning, or
\* from some 0x5B, begins an instruction.
Aligned ==
    phase = "running" =>
        \/ pc > Len(code)
        \/ Boundary(code)[pc]

-------------------------------------------------------------------------------
(* Bytes that move. *)

Padded(s, i) == IF i < Len(s) THEN s[i + 1] ELSE 0

\* CALLDATALOAD and the copying instructions read their source as if zeros followed
\* it for ever, whatever the offset; a copy writes its range and no other byte,
\* and one that overlaps its source copies what was there before.
ReadsAreZeroPadded ==
    [][ Decoding /\ phase' = "running" =>
        /\ Opcode = "CALLDATALOAD" /\ OverflowChecks =>
              stack'[1] = WordOf([i \in 1 .. WordBytes |->
                                    Padded(tx.data, stack[1] + i - 1)])
        /\ Opcode \in CopyOps \cup {"MCOPY"} =>
              LET source == IF Opcode = "MCOPY" THEN memory ELSE Source(Opcode)
              IN  \A i \in DOMAIN memory' :
                    LET j == i - 1 - Operand(1)
                    IN  memory'[i] = IF j \in 0 .. Operand(3) - 1
                                     THEN Padded(source, Operand(2) + j)
                                     ELSE Padded(memory, i - 1) ]_vars

-------------------------------------------------------------------------------
(* What the tests say and the code does not do. *)

\* A run that returns with `revert' set leaves the code of every account and the
\* value of every slot as it found them: src/evm.rs tells such a run from a
\* successful one by "the execution is reverted".
RevertUndone ==
    result.status = "ok" /\ result.revert =>
        /\ \A a \in DOMAIN opening.accounts :
              accounts[a].value.code = opening.accounts[a].value.code
        /\ \A a \in DOMAIN opening.storage : \A k \in DOMAIN opening.storage[a] :
              storage[a][k].value = opening.storage[a][k].value

\* An access to zero bytes, at an offset that a usize holds, does not panic:
\* try_offset_size accepts it "only to avoid panicing".
ZeroSizeNeverPanics ==
    [][ Fetch({"KECCAK256", "LOG", "RETURN", "REVERT"}) /\ InBounds(stack[1], 0)
            /\ stack[2] = 0 => phase' # "crashed" ]_vars

===============================================================================
