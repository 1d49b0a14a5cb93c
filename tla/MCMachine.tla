------------------------------ MODULE MCMachine -------------------------------
(***************************************************************************)
(* The instances of Machine that TLC explores.  Words have 3 bytes, usize  *)
(* has a little under 20 bits, so that the fee of a transaction can exceed *)
(* it; the gas schedule is the source's.                                   *)
(***************************************************************************)
EXTENDS MachineProperties

W == INSTANCE Words WITH PowLimit <- 300
MCAlu(op, args) == W!Compute(op, args)

\* keccak256 is only required to be a function: a sum that tells the small
\* inputs apart will do.
MCKeccak(bytes) ==
    LET sum[n \in 0 .. Len(bytes)] ==
            IF n = 0 THEN 7 ELSE (3 * sum[n - 1] + bytes[n]) % 65536
    IN  sum[Len(bytes)]

MCCreateAddress(from, nonce) == 200 + nonce

MCBlock == [miner |-> 77, time |-> 5, number |-> 6, difficulty |-> 7, gas_limit |-> 8]

-------------------------------------------------------------------------------
(* The world: a sender with funds, one without, and two contracts.            *)

Alice == 10
Bob   == 11
Store == 100     \* a contract that stores its input in a slot and bumps it
Probe == 101     \* a contract that queries accounts and reverts

AliceFunds == 760000

\* PUSH0 CALLDATALOAD DUP1 PUSH0 SSTORE PUSH0 SLOAD PUSH1 1 ADD PUSH1 1 SSTORE
StoreCode == <<95, 53, 128, 95, 85, 95, 84, 96, 1, 1, 96, 1, 85>>

\* PUSH1 Bob BALANCE PUSH0 MSTORE SELFBALANCE PUSH0 SSTORE PUSH1 3 PUSH0 REVERT
ProbeCode == <<96, 11, 49, 95, 82, 71, 95, 85, 96, 3, 95, 253>>

Wallet(balance) == [balance |-> balance, code |-> <<>>]

MCAccounts ==
    [a \in {Alice, Bob, Store, Probe} |->
        CASE a = Alice -> Wallet(AliceFunds)
          [] a = Bob   -> Wallet(60000)
          [] a = Store -> [balance |-> 2, code |-> StoreCode]
          [] a = Probe -> [balance |-> 9, code |-> ProbeCode]]

MCStorage == [a \in {Store} |-> [k \in {0} |-> 3]]

MCKeys == 0 .. 3

MCHolders == {Alice, Bob, Store, Probe, 200, 201}

-------------------------------------------------------------------------------
(* Transactions. *)

\* A transaction that has `budget' gas left once it has paid its intrinsic gas.
Call(from, to, data, budget, price, value) ==
    LET t == [from |-> from, to |-> to, gas |-> 0, gas_price |-> price,
              nonce |-> 0, value |-> value, data |-> data]
    IN  [t EXCEPT !.gas = IntrinsicGas(t) + budget]

Create(program, budget, price, value) == Call(Alice, 0, program, budget, price, value)

\* A creation whose sender can just afford it.
TightCreate(program, budget) ==
    LET t == Create(program, budget, 1, 0)
    IN  [t EXCEPT !.value = AliceFunds - t.gas]

\* Nothing is explored beyond the first transaction.
OneRun == phase = "idle" => result.status = "none"

\* Every instruction on an empty stack, on a few words, on a stack with room for
\* one word and on a full one.
Ramp(n) == [i \in 1 .. 2 * n |-> IF i % 2 = 1 THEN 96 ELSE (i \div 2) % 4]
Prologues == {<<>>, Ramp(3), Ramp(5), Ramp(16), Ramp(17)}

InstructionTransactions ==
    {Create(p \o <<b>>, 35000, 1, 3) : p \in Prologues, b \in Byte}

\* Programs that reach what a single instruction on small operands does not.
Loop      == <<91, 95, 86>>                             \* JUMPDEST PUSH0 JUMP
PushData  == <<96, 91, 96, 1, 86>>                      \* jumps into its data
FarReturn == <<95, 98, 11, 255, 250, 243>>              \* RETURN(786426, 0)
FarLoad   == <<98, 11, 255, 254, 81>>                   \* MLOAD(786430)
LastLoad  == <<98, 11, 255, 253, 81>>                   \* MLOAD(786429)
NearLoad  == <<98, 11, 255, 252, 81>>                   \* MLOAD(786428)
LastByte  == <<95, 98, 11, 255, 255, 83>>               \* MSTORE8(786431, 0)
FarInput  == <<98, 11, 255, 254, 53>>                   \* CALLDATALOAD(786430)
HighInput == <<98, 255, 255, 255, 53>>                  \* CALLDATALOAD(2^24 - 1)
HighLoad  == <<98, 255, 255, 255, 81>>                  \* MLOAD(2^24 - 1)
HighQuery == <<98, 255, 255, 255, 49>>                  \* BALANCE(2^24 - 1)
Grow      == <<97, 4, 0, 81, 97, 8, 0, 81, 95, 81>>     \* MLOAD 1024, 2048, 0
Deploy    == <<96, 90, 95, 83, 96, 1, 95, 243>>         \* RETURN of one byte
Abandon   == <<96, 90, 95, 83, 96, 1, 95, 253>>         \* REVERT of one byte
Decline   == <<95, 95, 253>>                            \* REVERT of nothing
Copies    == <<96, 4, 95, 95, 57, 96, 6, 96, 2, 96, 1, 57>>  \* CODECOPY twice
CopyIn    == <<96, 9, 96, 2, 95, 55, 96, 9, 96, 7, 96, 4, 55>>  \* CALLDATACOPY twice
Foreign   == <<96, 3, 96, 1, 95, 96, 100, 60>>          \* EXTCODECOPY of Store
Overlap   == <<96, 90, 95, 83, 96, 5, 95, 96, 2, 94>>   \* MCOPY over itself
Scratch   == <<96, 5, 95, 93, 95, 92, 96, 1, 92>>       \* TSTORE TLOAD TLOAD
Branch    == <<96, 1, 96, 6, 87, 0, 91>>                \* JUMPI over a STOP

Curated == {Loop, PushData, FarReturn, FarLoad, LastLoad, NearLoad, LastByte, FarInput,
            HighInput, HighLoad, HighQuery, Grow, Deploy, Abandon,
            Decline, Copies, CopyIn, Foreign, Overlap, Scratch, Branch}

\* Too little gas, too little money, a fee that overflows, a cost that overflows.
Refused == {Create(<<>>, -1, 1, 3), Call(Bob, Store, <<>>, 40000, 1, 0),
            Create(Loop, 100, 15, 0), Create(<<>>, 0, 1, WordMod - 1)}

CuratedTransactions ==
    {Create(p, b, 1, 3) : p \in Curated, b \in {0, 100, 3000}}
        \cup Refused \cup {Create(Loop, 100, 0, 0)}

\* Only a fee that wraps lets these begin: the sender runs out of money in the middle
\* of a call, or once the account of a creation is stored.
Overdrawn == {Call(Alice, Store, <<0, 0, 5>>, 48000, 16, 1),
              Create(Deploy, 26000, 10, 750000)}

ReleaseTransactions == CuratedTransactions \cup Overdrawn

\* Transactions that meet the traces of earlier ones, until the funds run out.
SequenceTransactions ==
    {Call(Alice, Store, <<0, 0, 5>>, 48000, 4, 0), Call(Alice, Store, <<>>, 48000, 4, 0),
     Call(Alice, Probe, <<>>, 26000, 4, 1), Call(Bob, Probe, <<>>, 3000, 1, 0),
     Create(Deploy, 3000, 4, 7), Create(Abandon, 3000, 4, 5),
     Call(Alice, 200, <<>>, 100, 4, 0), Create(Loop, 30, 0, 0)}

\* A payable contract is deployed, and the same creation is then reverted.
ReplayTransactions == {Create(Deploy, 3000, 4, 7), Create(Decline, 3000, 4, 5)}

===============================================================================
