--------------------------------- MODULE World ---------------------------------
(***************************************************************************)
(* What Evm::run promises about the world state besides money, one step    *)
(* per transaction: whose code and whose slots it may change, and which    *)
(* accounts and slots are warm once it has returned.  A failed transaction *)
(* is not undone: what its contract wrote before the error stays.          *)
(***************************************************************************)

CONSTANTS
    Transactions,        \* the transactions that may be run
    IsCreation(_),       \* the transaction creates a contract ...
    ContractAddress(_),  \* ... at this address; for a call, the one called
    Pending              \* the outcome of a transaction under way

VARIABLES
    code,     \* the code of every address watched
    slot,     \* the value of every slot watched, by address and key
    warm,     \* the addresses watched that have been accessed
    used,     \* the slots watched that have been
    current,  \* the transaction, from its beginning on
    outcome   \* how the last transaction ended, Pending while it is under way

values == <<code, slot>>
world  == <<values, warm, used, current, outcome>>

Watched == DOMAIN code

WorldInit ==
    /\ warm = {} /\ used = {}
    /\ outcome.status = "none"

Idle == outcome # Pending /\ outcome.status # "panic"

Refusals == {"InsufficientFunds", "IntrinsicGasTooLow"}
Errors   == {"OutOfGas", "EmptyStack", "StackOverflow", "InvalidJumpDest",
             "InvalidAddress", "MemoryOutOfBounds"}

\* The accounts that are loaded before anything is checked.
Parties(t) == {t.from} \cup (IF IsCreation(t) THEN {} ELSE {t.to})

\* The transaction begins; the world it works on is not the embedder's yet.
Begin ==
    /\ Idle
    /\ outcome' = Pending
    /\ UNCHANGED <<values, warm, used>>

\* A transaction that is refused still warms its parties.
Refuse(t) ==
    /\ Idle
    /\ outcome'.status \in Refusals
    /\ warm' = warm \cup (Parties(t) \cap Watched)
    /\ UNCHANGED <<values, used>>

\* What any transaction that ran may have written: slots of its own contract, each
\* of them warm now.  Nothing gets cold.
Wrote(t) ==
    /\ warm \cup (Parties(t) \cap Watched) \subseteq warm'
    /\ used \subseteq used'
    /\ \A p \in used' \ used : p[1] = ContractAddress(t)
    /\ \A p \in DOMAIN slot :
          slot'[p] # slot[p] => p[1] = ContractAddress(t) /\ p \in used'

\* A creation, reverted or not, leaves the data it returns as the code of its
\* contract; no other code changes.
Succeed ==
    /\ outcome = Pending
    /\ outcome'.status = "ok"
    /\ Wrote(current)
    /\ IF IsCreation(current)
       THEN LET new == ContractAddress(current)
            IN  /\ code' = [a \in Watched |->
                               IF a = new THEN outcome'.data ELSE code[a]]
                /\ new \in Watched => new \in warm'
       ELSE UNCHANGED code
    /\ UNCHANGED current

\* A failed transaction leaves all code as it is.
Fail ==
    /\ outcome = Pending
    /\ outcome'.status \in Errors
    /\ Wrote(current)
    /\ UNCHANGED <<code, current>>

\* The process dies; the world that the embedder had is what it was.
Die ==
    /\ outcome.status # "panic" /\ outcome'.status = "panic"
    /\ UNCHANGED <<values, warm, used>>

WorldNext ==
    \/ current' \in Transactions /\ (Begin \/ Refuse(current'))
    \/ Succeed \/ Fail \/ Die

WorldSpec == WorldInit /\ [][WorldNext]_world

===============================================================================
