-------------------------------- MODULE Ledger ---------------------------------
(***************************************************************************)
(* What Evm::run promises about money, one step per transaction: which     *)
(* balances a transaction may change, and by how much, given the outcome   *)
(* it returns.  It says nothing of code, storage or memory.                *)
(*                                                                         *)
(* `outcome' is how the last run ended, Pending while it is under way.     *)
(***************************************************************************)
EXTENDS Integers

CONSTANTS
    Holders,             \* the addresses watched, every sender among them
    Transactions,        \* the transactions that may be run
    IsCreation(_),       \* the transaction creates a contract ...
    ContractAddress(_),  \* ... at this address
    IntrinsicGas(_),     \* the gas it pays before it executes anything
    Pending              \* the outcome of a transaction under way

VARIABLES balance, current, outcome

ledger == <<balance, current, outcome>>

\* The most a transaction may take from its sender in fees.
MaxFee(t) == t.gas * t.gas_price

\* run may be called.
Idle == outcome # Pending /\ outcome.status # "panic"

\* A panic ends the process; the rest are the errors of blockchain/errors.rs.
\* Running out of funds is never discovered once a transaction has begun.
Refusals == {"InsufficientFunds", "IntrinsicGasTooLow", "panic"}
Errors == {"OutOfGas", "EmptyStack", "StackOverflow", "InvalidJumpDest",
           "InvalidAddress", "MemoryOutOfBounds"}

LedgerInit ==
    /\ balance \in [Holders -> Nat]
    /\ outcome.status = "none"

\* Transaction t is admitted: its sender can afford it, no balance has moved yet.
Begin(t) ==
    /\ Idle
    /\ balance[t.from] >= MaxFee(t) + t.value
    /\ outcome' = Pending
    /\ UNCHANGED balance

\* Transaction t is refused, free of charge.
Refuse(t) ==
    /\ Idle
    /\ outcome'.status \in Refusals
    /\ UNCHANGED balance

\* The transaction succeeds, reverted or not.  Its sender pays for exactly the
\* gas that is not returned and, for a creation, endows the contract with the
\* value: whatever the contract's address held before is gone.
Succeed ==
    /\ outcome = Pending
    /\ outcome'.status = "ok"
    /\ outcome'.remaining_gas \in 0 .. current.gas - IntrinsicGas(current)
    /\ LET fee   == (current.gas - outcome'.remaining_gas) * current.gas_price
           value == IF IsCreation(current) THEN current.value ELSE 0
       IN  balance' = [a \in Holders |->
               IF a = current.from THEN balance[a] - fee - value
               ELSE IF IsCreation(current) /\ a = ContractAddress(current)
                    THEN value ELSE balance[a]]
    /\ UNCHANGED current

\* The transaction fails: its sender pays some gas, nobody gains anything.
Fail ==
    /\ outcome = Pending
    /\ outcome'.status \in Errors
    /\ \A a \in Holders :
          IF a = current.from
          THEN balance'[a] \in balance[a] - MaxFee(current) ..
                               balance[a] - IntrinsicGas(current) * current.gas_price
          ELSE balance'[a] = balance[a]
    /\ UNCHANGED current

\* The process dies half-way: no balance has moved in any world that survives.
Panic ==
    /\ outcome = Pending
    /\ outcome'.status = "panic"
    /\ UNCHANGED <<balance, current>>

LedgerNext ==
    \/ current' \in Transactions /\ (Begin(current') \/ Refuse(current'))
    \/ Succeed
    \/ Fail
    \/ Panic

LedgerSpec == LedgerInit /\ [][LedgerNext]_ledger

===============================================================================
