# A TLA+ model of rusty-evm

rusty-evm is an Ethereum Virtual Machine in Rust. It is a library, strictly
sequential: an embedder builds a world with `Evm::new` and runs transactions on
it, one at a time, with `Evm::run`. This directory models all of it that decides
anything, checks it with TLC and proves its main properties with TLAPS.

## The system

| Part | State it keeps | Operations | Source |
| --- | --- | --- | --- |
| Evm | the world state | `new`, `run` | `src/evm.rs` |
| Machine | none of its own: the `CallContext` of one transaction | `execute_transaction`, `execute_next_opcode`, `pay_gas_cost` | `src/machine/mod.rs`, `context.rs` |
| Instructions | none | one function per instruction | `src/machine/instructions.rs` |
| Opcode dispatch and display | none | byte to instruction, byte to name | `src/machine/opcode.rs` |
| Stack, Memory, Transient | words, bytes, a map | `push`/`pop`, `store*`/`load*`, `store`/`load` | `src/machine/{stack,memory,transient}.rs` |
| World state | accounts, slots of every contract, both journalled | `decrease_balance`, `Storage::{new,store,load}` | `src/blockchain/{mod,storage}.rs` |
| Transaction, Account, Address | plain data | kind, address and intrinsic gas of a transaction, check of funds | `src/blockchain/primitives.rs` |
| Word arithmetic | none | signed operations, powers, sizes | `src/utils.rs`, `instructions.rs` |

How they interact. `run` calls `execute_transaction`, which builds a
`CallContext`, refuses the transaction if its sender cannot pay for all the gas
and the value, pays the intrinsic gas, and then loops over
`execute_next_opcode` until an instruction sets `stop` or returns an error. An
instruction has its whole effect (on the context, on storage, on the warm flags
of the accounts it loads) *before* `pay_gas_cost` charges it. A creation finally
pays for its code, stores the new account and debits the value. Whenever any of
this fails, `?` returns at once: nothing is rolled back, and the next transaction
starts from the world as it is.

What is hard, since there is no concurrency and no I/O:

* order: effects come before payment, prices come from flags that the same call
  is about to set, the value is debited last;
* partial failure: any step of a run can be its last one, and what the steps
  before it did stays;
* history: `warm` and `original_value` are never reset, so the price of an
  instruction depends on every transaction since `Evm::new`;
* the edges of integers: products of `usize` that panic or wrap according to the
  build, `offset + size` at the end of the address space, shifts that drop bits;
* limits: the stack, the gas, the memory that can be allocated;
* termination, which rests on gas alone.

What makes each part correct: the machine keeps its books (each transaction
costs its sender exactly the gas it does not give back; a refused one costs
nothing; the value moves once) and never finds out too late that the sender
cannot pay; everything a run accumulates is paid for; every run ends; a run
disturbs nobody else's account and no other contract's slots, and what it leaves
behind is what it wrote; the journal forgets nothing and answers what its history
says; instructions take and leave on the stack what they should, word by word as
well as at once; memory is a zero-filled array of whole words that was paid for;
a byte does what it is shown as.

## The modules

`Machine` is the model: the state of the world and of one call context as
variables, one action per instruction or family of instructions of the same
shape, `Run` for the prologue, `Finish` for the epilogue. A step is one call of
`execute_next_opcode`. The pieces it is built from:

* `StorageOps`: `Storage<K, V>` as operators on functions. Serves both accounts
  and slots. `Loaded`/`AfterLoad` are what `load` returns and leaves.
* `MemoryOps`: bounds, extension, cost, reads and writes of `Memory`, and whether a
  load or a store succeeds, fails or panics.
* `OpcodeTable`: the dispatch, the number of words each instruction pops, the
  `todo!()` instructions, and the name and number `Display` shows for a byte. The two
  tables are transcribed separately, each from its own `match`.
* `Words`: what the arithmetic and logic instructions compute, on words of
  `WordBytes` bytes. Not used by `Machine`, which takes the computation as the
  parameter `Alu`, so that what is proved holds whatever they compute; the
  instances TLC explores give it `Words!Compute`. `&`, `|` and `^` are operations on
  the sets of the bits of words.

Above it:

* `Ledger`: the abstract specification. What `run` promises about money, one step
  to begin or refuse a transaction and one to end it.
* `World`: a second abstract specification of `run`, for everything but money: what
  a transaction may do to code, slots and warm flags, with one step per way to end.
  A failed transaction is not undone, and `World` says so.
* `StackContract`: what instructions and stack promise each other, an instruction at
  a time. It knows the instruction under way, `next`, by its shape and its arity, so
  that an error is only allowed to the instruction that deserves it: `EmptyStack` when
  there are fewer words than that one pops, `StackOverflow` when it would leave one word
  more on a full stack. Two specifications implement it: `Machine`, and `Stack` below.
* `MachineProperties`: types, invariants, action properties, liveness, and the
  refinement mappings to `Ledger`, `World` and `StackContract`. While a transaction
  runs, or after a panic, the first two still show the world of its beginning;
  the third shows the stack while a transaction runs and none otherwise.
* The theorems, with their proofs, in eight modules that no run depends on.
  `MachineProofs` (shapes of a step, funds, `Ledger`) is extended by `WorldProofs`
  (journal, isolation, `World`, everything is paid for), that one by `TypeProofs`
  (types), and `TypeProofs` by `InstructionProofs` (counter, stack, names, reads, gas).
  `StackProofs`, `MemoryProofs` and `StorageProofs` are about the components,
  `WordProofs` about the arithmetic.
* `MCMachine`, `MCPrograms`, `MCStack`, `MCMemory`: the instances; `MCWords`: the
  arithmetic against its reference definitions.

Components on their own, called in any order an instruction could and in some that
none does:

* `Stack`: the vector and its counter `top`, moved one word per step, with
  `pop_or_fail` and `push_rev_or_fail` as loops that can fail in the middle. Mapped to
  `StackContract`: until an instruction is done its stack is still the one before it.
* `Memory`: the five calls, with their bounds, their extension and their answers.
  Mapped to `ByteArray`, an unbounded array of zeros with a size and a total paid,
  watched at `Positions`.
* `Storage`: any map it is built from, any sequence of `load` and `store`, with the
  calls as history.

How the state corresponds. `accounts` and `storage` are the fields of
`WorldState`; `tx`, `address`, `code`, `gas`, `pc`, `stack`, `memory`, `output`
(`return` in the source), `revert`, `stop`, `logs`, `transient` those of the two
contexts; `result` is what `execute_transaction` returned. `phase` says whether a
transaction is under way and `opening` remembers the world it began with; the code
has neither. The stack is written top first. `input` is `tx.data`, `caller` is
`tx.from`, and `returndata` is always empty, for nothing writes it. The context is
dropped when a run ends; the model keeps its last values until the next run, and
those of an instruction that failed before it was charged are the values it was
called with.

Panics are modelled: a failing step leads to the phase `crashed`, from which
nothing goes on. They are the `todo!()` instructions, slices past the end of a
source, `unwrap` of operands that no `usize` holds, vectors that cannot be
allocated, and, when `OverflowChecks` is TRUE as in a debug build, overflows.
When it is FALSE the same sums and products wrap.

### Parameters

| Constant | In the code | In the runs |
| --- | --- | --- |
| `WordBytes`, `WordMod` | 32, 2^256 | 3, 2^24 |
| `UsizeMod` | 2^64 | 786432 = 3 * 2^18 |
| `AddressMod` | 2^160 | 2^20 |
| `StackSize` | 1024 | 17, or 3 |
| `AllocLimit` | what the allocator gives (at most `isize::MAX`) | 2400 bytes |
| `OverflowChecks` | debug or release | both |
| `Alu`, `Keccak`, `CreateAddress` | arithmetic, hashes | `Words`, a small sum, 200 + nonce |
| `Transactions` | anything an embedder passes | see below |
| `Holders`, `Keys` | every address, every slot | those the transactions name or create, slots 0 to 3 |

`UsizeMod` is a multiple of the word as it is in the code, too large for a run to
exhaust and small enough for the fee of a transaction to overflow it and for the
3-byte operand of a program to reach both sides of it. 17 words are the least a
stack needs for every DUP and SWAP. The gas schedule is the source's. The
allocation limit is what makes a memory fail before its cost overflows, as it
does in the code: `AllocAssumption` states it.

## The runs

| Run | Explores | Shows |
| --- | --- | --- |
| `instructions` | every byte as an instruction, after five prologues (empty, 3, 5, 16 and 17 words) | `TypeOK`, `StackBelowKept`, `GasReadIsExact`, `GasRunsOut`, `KeepsStackContract`, `NameTellsEffect`, `Terminates` |
| `curated` | 21 programs at the edges, three gas budgets each, and five refused or overflowing transactions; debug build | `TypeOK`, `EverythingPaidFor`, `ReadsAreZeroPadded`, `KeepsTheWorld`, `KeepsTheBooks` |
| `programs` | every program of at most 5 bytes over a jumping alphabet and of at most 4 over a storing one, on funds that just suffice, and one creation that lacks a coin; stack of 3 | `FundsCoverGas`, `EverythingPaidFor`, `Isolation`, `Aligned` |
| `sequences` | every sequence drawn from eight transactions: calls of two contracts from two senders, creations that deploy, revert or loop, a call of what was created; until the money runs out | `Isolation`, `EverythingPaidFor`, `KeepsTheBooks`, `KeepsTheWorld`, `BalancesSeen`, `JournalKept`, `Terminates` |
| `release` | the transactions of `curated`, and two whose fee wraps in the up-front check and whose money runs out later; release build | `TypeOK`, `EverythingPaidFor`, `NeverOvercharged`, `Terminates` |
| `stack` | every sequence of instructions of up to 5 operands on a stack of 4, with three words | `TopIsLast`, `WorksAtOnce` |
| `memory` | every sequence of calls with offsets and sizes at both ends of the address space | `IsAnArray` |
| `storage` | every sequence of 4 calls on 2 keys, from every initial map to 3 values | `AnswersFollowHistory` |
| `byte_words` | the arithmetic of every pair of one-byte words, and of triples at the powers of two | `WordsTyped`, `SignedDivision`, `SignedOrder`, `Shifts`, `Powers`, `ModularArithmetic` |
| `pair_words` | two-byte words around the powers of two and their negatives, shifts and indices out of the word | `Shifts`, `Bytes` |
| `replayed_creation` | two creations at the same address | `RevertUndone` fails |
| `zero_size` | the transactions of `curated` | `ZeroSizeNeverPanics` fails |

The references of `byte_words` and `pair_words` are not the computations of the source:
division is the equation it must satisfy on integers, shifts move a set of bits,
powers are products of repeated squares, although the source splits an exponent
above `u32::MAX` by division (`PowLimit`, 3 in these runs, so that one byte is split
up to four times). A one-byte word has no byte to sign-extend from, hence the second
run. Two results are those of the source and not those of unbounded integers:
`SIGNEXTEND` never keeps the top byte, and `ADDMOD` and `MULMOD` are exact only while
the sum or product of the reduced operands fits in a word. `Bytes` and
`ModularArithmetic` say so.

Bounds. Of the runs of the machine, those other than `sequences` and
`replayed_creation` stop after the first transaction (the constraint `OneRun`), so that each program meets the world
`Evm::new` built and deadlock is not looked for; programs meet each other in
`sequences`. There nothing bounds the number of transactions but the funds: an
admitted one costs its sender money, but for a loop at price 0 that changes
nothing more once it has run. The senders begin with 760000 and 60000, enough for
two to nine transactions, depending on which. The
creations all have nonce 0, hence the same address; that is the interesting case,
because the code never checks a nonce.

2400 bytes are 800 words, enough for the quadratic part of the memory's price to
exceed the base prices that `EverythingPaidFor` leaves out; one program grows the
memory to 684 words in two steps. `Terminates` over `instructions` also shows that
every instruction can always take a step, whatever the stack holds: an instruction
without an enabled action would leave its transaction running for ever.

The stack of the run `stack` is smaller than the largest arity of its instructions, so
that both errors happen with words on their way, and an instruction of five operands
can only fail while one of four succeeds on a full stack; three words are enough to tell an
order that was lost, since no step looks at a word. Words of the run `memory` have 2
bytes, its address space 4096 and an allocation holds 6, so that every extension
from 0 to 3 words occurs, a store falls short of its range or crosses the end of the
vector, and offset plus size wraps. Its build is the release one: a debug build
panics where that one wraps or rounds to nothing, and otherwise does the same, so
it has fewer behaviours to check. In `storage` four calls are a first access, a store, an access
after it and one more on either key; its state is a function of the history, which
`AnswersFollowHistory` compares in full after each call.

Fairness. `Spec` has weak fairness of `Execute`: the loop of
`execute_transaction` is a plain `while` that nothing suspends, so a transaction
under way goes on until it ends. `Run` is under no obligation.

`GasRunsOut` is the variant behind `Terminates`: a turn of the loop that neither halts nor
fails leaves less gas than it found. It says of a single step what `Terminates` says of
a whole run, and can be proved.

`EverythingPaidFor` is the strongest statement of the metering: at any moment of a
run that has not failed, the gas spent is at least the intrinsic gas, plus the
cost of the memory as it now is (whatever sequence of extensions, paid as
differences, led to it), plus the price of every account and slot this run was
the first to warm and of every clean slot it has made dirty, plus the deposit.
What the code gives for nothing (the sender's and the contract's own accounts) is
named in it.

The account of the run and the contract's are free in `EverythingPaidFor`, since the
code loads them for nothing; what is read of them is the subject of `BalancesSeen`.
BALANCE and SELFBALANCE answer, in the middle of a run, with the money of before it,
less the fees its sender has paid so far: the value of a call is not there yet, and a
creation sees what the address of its contract held before.

`NeverOvercharged` is what is left of the ledger in a release build. There
`gas * gas_price` may wrap in the up-front check itself, so that a transaction starts
which its sender cannot pay. The run `release` has a call that fails with
`InsufficientFunds` after two stores, and a creation that pays for its code, stores
its account with a value of 750000 and then finds that the sender does not have it:
the epilogue stores before it debits, and that money stays with the contract, paid by
nobody. The property, in either build: the sender has paid for no more than the gas
that is gone, and the value only of a creation that succeeded, and no balance has
changed but the sender's and the new contract's. It rests on `decrease_balance`
looking before it takes, wherever the run may be.

The gas price in `programs` is 1, so that no fee overflows there: that the fees do not is
checked by `curated` and `sequences`, where a panic would be a step `Ledger` does not
allow once a transaction has begun unless an instruction panics itself, and proved for
all prices by `FundsAlwaysCoverGas`.

`KeepsTheWorld` is the counterpart of `KeepsTheBooks` for what is not money. It is where
partial failure shows: a transaction that fails may have written slots of its own
contract, each of which is then warm, but no code; a creation leaves as code
exactly the data it returned, when it reverts too. `Isolation` says the same of every
moment of a run and of every key, but not what the run ends with.

`KeepsStackContract` and `WorksAtOnce` meet in the middle: the machine's instructions
use the stack as `StackContract` says, and the vector with its counter keeps that
contract. The counter matters because `push` compares it with the size by equality
(`src/machine/stack.rs:24`): once out of step, it would never stop anything.

`NameTellsEffect` relates the two tables of `src/machine/opcode.rs`, name by name and
number by number: a byte with a name runs the instruction of that name, one without
runs `invalid`, and where the tables count they count differently, for `0x90` is shown as
SWAP1 and runs `swap::<2>`.

`Aligned` bounds what jumps may do. `jump` accepts any byte 0x5B, also one among the
data of a PUSH, so that code need not be entered at an instruction; but it is then
decoded as it stands from that byte on, and nothing else leads out of step.

`ReadsAreZeroPadded` compares CALLDATALOAD, the copying instructions and MCOPY byte by
byte with a source followed by zeros for ever, at any offsets at which they do not
panic or run out of bounds. For CALLDATALOAD it holds of a debug
build, where a read past the end of `usize` panics.

`IsAnArray` has an exception, written into `ByteArray`: a range that ends in the last
word of the address space is rounded up to nothing, extends nothing, costs nothing
and reads zeros. In a debug build it panics.

`JournalKept` states what the code does, which is not what the Ethereum
specification asks for: prices depend on accesses made by earlier transactions.

### Disagreements found

* A creation that reverts still stores its account (`src/machine/mod.rs:67`), and
  no nonce is checked: replaying a creation destroys what the first one deployed,
  code and balance. The test at `src/evm.rs:200` speaks of such a run as one whose
  "execution is reverted".
* An access of zero bytes extends the memory up to its offset
  (`src/machine/memory.rs:22`), and panics if that cannot be allocated; the test at
  `src/machine/memory.rs:268` has the case accepted "only to avoid panicing".

## The proofs

Every invariant and every safety or refinement property that a passing run checks is also
a theorem, for every value of the constants. Only the liveness property `Terminates` is not.

| Theorem | Property | Of the builds | Needs `Computed` |
| --- | --- | --- | --- |
| `ControlAlways` | `Control`: types of gas, money, flags, lengths | both | |
| `FundsAlwaysCoverGas` | `FundsCoverGas` | both; the property speaks of the debug build | |
| `NeverOverchargedAlways` | `NeverOvercharged` | both | |
| `MachineKeepsTheBooks` | `KeepsTheBooks`, the refinement of `Ledger` | debug | |
| `MachineKeepsTheWorld` | `KeepsTheWorld`, the refinement of `World` | debug | |
| `JournalAlwaysKept` | `JournalKept` | both | |
| `IsolationAlways` | `Isolation` | both | |
| `EverythingAlwaysPaidFor` | `EverythingPaidFor` | both | |
| `AlwaysAligned` | `Aligned` | both | |
| `AlwaysTyped` | `TypeOK` | both | yes |
| `MachineKeepsStackContract` | `KeepsStackContract`, the refinement of `StackContract` | both | yes |
| `StackBelowAlwaysKept` | `StackBelowKept` | both | yes |
| `GasAlwaysReadExactly` | `GasReadIsExact` | both | yes |
| `BalancesAlwaysSeen` | `BalancesSeen` | both; of the sender's own balance in the debug build | yes |
| `NamesAlwaysTell` | `NameTellsEffect` | both | yes |
| `ReadsAlwaysPadded` | `ReadsAreZeroPadded` | both; of CALLDATALOAD in the debug build | yes |
| `GasAlwaysRunsOut` | `GasRunsOut` | both | |
| `CountIsLength` | `TopIsLast` of `Stack` | | |
| `StackKeepsItsContract` | `WorksAtOnce`, the refinement of `StackContract` | | |
| `MemoryIsAnArray` | `IsAnArray`, the refinement of `ByteArray` | both | |
| `AnswersAlwaysFollowHistory` | `AnswersFollowHistory` of `Storage` | | |
| `WordsAlwaysTyped` | `WordsTyped` of `MCWords` | | |
| `SignedDivisionAlways` | `SignedDivision` of `MCWords` | | |
| `SignedOrderAlways` | `SignedOrder` of `MCWords` | | |
| `ModularArithmeticAlways` | `ModularArithmetic` of `MCWords` | | |
| `ShiftsAlways` | `Shifts` of `MCWords` | | |
| `BytesAlways` | `Bytes` of `MCWords`, for words of at least two bytes | | |
| `PowersAlways` | `Powers` of `MCWords` | | |
| `ComputesWords` | the half of `Computed` about `Alu`, for `Words!Compute` | | |

The theorems about words hold for any number of bytes, 32 in the source, and any limit
`PowLimit` of at least 2, `u32::MAX` in the source; those of `MCWords` for any set of
operands. Debug is `OverflowChecks`, a hypothesis of the two theorems so marked: in a release
build a transaction may start that its sender cannot pay for, and both properties fail.

### What they assume

The named assumptions of the modules, which TLC evaluates in every run.

* `MemoryOps`: words have bytes, the address space is made of whole words, and an
  allocation fails before its cost overflows a `usize`.
* `Machine`: a word is `WordBytes` bytes and holds an address, which holds a `usize`;
  transactions, genesis and block have their Rust types and the vectors in them a
  length that is a `usize`; the sender of a creation is not the address it creates (that
  would be a collision of keccak256). `PowersAssumption` states two facts on powers of
  256 that are true of numbers, but which the provers cannot find because they have no
  theory of `^`.
* `Words`: a word has bytes, the limit of an exponent is at least 2, and each power of 2
  up to the modulus is twice the one before, each power of 256 up to the top byte 256
  times, which is again a fact the provers lack. `MCWords`: its operations are instructions
  and its operands words. `BytesAlways` has the hypothesis that a word is more than one
  byte: of a single byte SIGNEXTEND would keep no bit.
* `MachineProperties`: `Holders` has every sender. `Stack`, `Memory` and `Storage`: sizes,
  offsets and calls are numbers, positions are in the address space, the default is a
  value.

Seven theorems have the hypothesis `Computed`: what the parameters `Alu` and `Keccak`
answer are words. They do in the code, whose types are `u256`. It is not an
assumption of `Machine` because it quantifies over all sequences of bytes and all words,
which TLC cannot enumerate. The half about `Alu` is proved of the arithmetic that `Words`
models: `ComputesWords`, instruction by instruction, for all operands. The half about
`Keccak` stays a hypothesis, since the digest is a parameter; the runs instantiate
it by a sum modulo 65536. The other theorems hold whatever `Alu` and `Keccak` are.

### The argument for money and world

There are some 40 actions but three shapes of step: `Charged` (some
natural cost is paid out of accounts with the same balances), `Failed` (an error or
a panic, no balance moved) and `Finish`. `ExecuteShapes` proves that every action
is one of them: that each cost is natural needs the facts about memory (a larger
memory never costs less, an extension never shrinks one), about powers and prices,
and the inductive part of `Control` about lengths. From then on only
`pay_gas_cost` matters. `PayGasFunded` says what it does in any build,
`PayGasCovered` what it does when the sender's funds cover the gas left and the
value, namely fail only for lack of gas and leave them covered. Neither
`FundsCoverGas` nor the refinement is inductive alone: the first needs `Control`; the
second needs both and `Ongoing`, which says that since the beginning the sender has
paid the price of exactly the gas spent and nobody else gained or lost.

`NeverOvercharged` has to do without funds that suffice. `Charging` adds to it, of a run
under way, that the sender has paid at most the price of the gas gone (`Within`), which
pay_gas_cost keeps in whichever of its four ways it ends (`PayGasWithin`): a wrapped
fee is no more than the fee (`FeeBounded`), and gas that is lost without being paid for
only loosens the bound. `BalancesSeen` takes what a balance is at any moment from the
same two invariants: `Charging` for everybody but the sender, `Ongoing` for the sender.

For the world the shape of a step is `Confined`: accounts were loaded or the sender
debited (`Visited`), slots were touched only of the contract that runs (`Worked`), and
the context names the same contract. Both relations are orders (`VisitedOrder` and the
like), so that what every step keeps is kept from the beginning of a run to any later
moment. That is `Since`, the invariant that `Isolation` follows from and is too weak to
be: it forgets the journal, and the warmth of the parties that `World` promises.
The epilogue leaves these shapes, which is why `KeepsTheWorld` takes the invariants
of the ledger along: they show that a creation which has stored its account cannot
find out that its sender is unable to pay.

### The argument for gas

`EverythingPaidFor` compares a number with the cardinalities of four sets and the
cost of the memory. `Bill` is that sum, and `Paid` adds to the property that the
sets are finite, without which their cardinalities mean nothing. One step is
`Priced`: its cost is at least the toll of the account it loads, plus that of the slot it
accesses, plus `Growth`, the difference of the costs of the memory after and before.
The lemmas on tolls show that each of them pays for what the access adds to a set:
nothing when the key was warm already, when the slot is one the run has dirtied
before, or when its original value is back. `Since` is needed for the second: the journal at
the beginning of the run still gives the original value.

### The argument for the program counter

`AlignedCounter` is inductive with `Lengths`. What is proved of `Boundary` rests on
`BoundaryRecursion`: a recursive function is a choice of a solution of its equation, and
that there is one has to be shown. It is the least set of places with 0, every 0x5B
and the end of every instruction at one of its places. `Advances` lists where an
instruction may leave the counter: at the end of itself, at a byte 0x5B, or where it was.

### The argument for types

`Typed` is `TypeOK` with what makes it inductive: `Control`, and that the code of an
account, hence the code that runs, has a length that fits in a `usize`. A
word on the stack comes from the stack, from `Alu` or `Keccak`, from the accounts, from
bytes or from a `usize`. For bytes the recursion of `WordOf` has
to be solved first (`SumsExist`, by the least number of bytes for which there is no
solution), and its value is a word because each of its steps discards the byte that
would overflow. The number of words is the table `Pops`, which the actions and the overflow
check share; `Fetch` has seen to the operands.

### The argument for single instructions

These are properties of steps, for which `Typed` says all that is needed of the
states. `GoesOn` turns a step after which the transaction is still under way into one of
the `Completed` instructions; the others fail. `StackEffect` and `StackKept` give the
stack each of those leaves, from which `SuccessSimulates` is a step of `StackContract`
of the shape and the arity that `Operation` gives the byte; `EndSimulates` covers the
errors, for which `Unreported` is needed: while a transaction runs its result is pending.
For `NameTellsEffect`, `SameNames` shows that both tables name each byte alike, and
`Shown` and `EffectsTell` compare effects with the names byte by byte;
`ReadsAreZeroPadded` rests on `SliceIs` and `WrittenIs`, which say index by index what a
slice of a source and a memory after a store are. Overlap of the two ranges of MCOPY needs no case: what is
written was read from the memory before the step.

`GasRunsOut` goes through the actions once more: each but the halting ones settles for a
cost that is a positive number (`AluCostly`, `PushesCostly`, `AccessesCostly` and
`OthersCostly`), and `PaidFor` says that a step after which the transaction is still under
way has subtracted it. It needs only `Control`, hence nothing of the words computed.

### The argument for the components

Stack. `TopIsLast` is inductive with its types. The refinement
needs to know where the words are in the middle of an instruction, which is
`Travelling`: while it pops, the operands so far followed by the stack are the stack
as it was; while it pushes, the stack with what is pending is the reverse of the
words below the operands, followed by what the instruction pushes. From this
`DoneSimulates` computes the stack that an instruction leaves, for each of the four
shapes; the lemmas on `Reverse`, `\o` and exchanges do the work, index by index. The
length of the same sequence shows that a push fails only when the stack was full to
begin with (`PushFailsSimulates`): no instruction pushes more than one word above
what it popped (`ResultsProperties`). Only `StackAssumption` is used. With
`MachineKeepsStackContract`, the two sides of `StackContract` are proved.

Memory. `Sound` says that the bytes are whole words, can be allocated and were
paid for. `Coverage` is the arithmetic: an extension, with the shift that drops the top bits,
covers its range, or the range ends in the last word of the address space. The rest
compares what each position shows before and after.

Storage. The map is a function of the history: an entry exists if some call named its
key or the initial map had it, and its value is that of the last store. What a call
adds to the history changes the last store of its own key only.

### The argument for the arithmetic

`Computing`, the inductive invariant, only says that the operands are words and that what
has been pushed is what `Compute` gives. The work is in the operators, and it begins with
division: `Division` bounds a quotient and a remainder and `Unique` says that no others are
in these bounds, from which follow that reducing a term or a factor first does not matter,
that one division after another is one by the product, and that a common factor cancels.
The provers know nothing of powers: that exponents add up (`PowSum`) and powers grow
(`PowGrows`) is derived from the two recursions of `PowersAssumption`. In place of an
induction, which the library states with a parameter that is an operator, each such
proof takes the least counterexample (`Least`, `UpTo`).

* Signed words: `SignedFacts` and `NegFacts` relate a word to its sign and magnitude.
  Dividing the magnitudes and negating by the signs is dividing towards zero; the only
  magnitude with no negative partner is the one of the least word, which is the exception
  `SignedDivision` names. Negation has to wrap, for a zero quotient of operands with
  different signs has the sign of neither: `WordsTyped` fails when it does not.
* Shifts: bit by bit, whether a bit is odd before and after (`RightBits`, `LeftBits`).
  SAR adds the high bits to a word shifted to the right, and is a division rounded down
  because the modulus is a multiple of each of the powers (`SarDivides`).
* Powers: `wrapping_big_pow` takes an exponent apart by quotient and remainder of the
  limit, again and again. The powers themselves solve its recursion (`SplitsExist`), nothing
  else does (`SplitsUnique`), and so it computes what `wrapping_pow` would if it had no
  limit (`BigPowIsPower`): the power of a sum and of a product do it. Repeated squaring,
  the reference, computes the same by the bits of the exponent (`ProductsArePowers`).
  A recursive function is a choice of a solution of its equation, so each of these, and the
  words made of a set of bits, first have to be shown to have one.
* Types: `ComputedWord` goes through the 25 instructions. `AluPops` connects them to the
  table of `OpcodeTable`, for `ComputesWords`.

### Model-checked only

* `Terminates`: liveness is out of the prover's reach. What it rests on is proved, for
  every program: `GasRunsOut`, that gas falls with every turn, and `Control`, that it is
  a natural number; so is that no instruction which goes on was free. That an instruction
  can always take some step, which needs ENABLED, is checked only.
* The two properties that are violated.

## Not modelled

* `main`, which prints a greeting, and the `Debug` implementations: formatting. Of the
  `Display` of `OpCode` the layout is left out, not the name.
* Keccak and the RLP encoding: parameters. The encoding of `contract_address` is
  thus not looked into.
* The payloads of errors.

## Plan

1. Done: the core above.
2. Done: the arithmetic of `Words` against reference definitions.
3. Done: the components on their own, `Memory` against a zero-filled array, `Storage`
   against its history, the `Stack` with its counter against a contract, with the
   refinement of the last one proved.
4. Done: what any run may leave behind, as the abstract specification `World`; the
   two opcode tables against each other; jumps; the bytes that copies move.
5. Done: the proofs of all that.
6. Done: the arithmetic made provable (no recursive operators, bits as sets) and proved
   for words of every size; what bounds the number of turns of a run.
7. Left out: that no transaction makes money, as a theorem about `Ledger` itself. It speaks of
   the sum of all balances, and what a sum over a set of accounts does for every set is
   an induction over data. `KeepsTheBooks` states instead what each balance becomes,
   and `Control` that none is negative.
