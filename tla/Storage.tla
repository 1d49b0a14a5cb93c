-------------------------------- MODULE Storage --------------------------------
(***************************************************************************)
(* The Storage of src/blockchain/storage.rs as a component: any sequence   *)
(* of loads and stores of a map built from some initial values, with the   *)
(* entry that each of them returns.                                        *)
(***************************************************************************)
EXTENDS Integers, Sequences, StorageOps

CONSTANTS
    Keys, Values,
    Default,      \* V::default()
    MaxCalls      \* bound: calls after this many are not explored

ASSUME StorageAssumption == Default \in Values /\ MaxCalls \in Nat

VARIABLES
    initial,    \* history: the map that Storage::new was given
    map,        \* Storage.0
    calls,      \* history: the calls so far
    answer      \* what the last call returned

storageVars == <<initial, map, calls, answer>>

\* Option::None, which store returns for a key that the map does not have.
None == [none |-> TRUE]

StorageInit ==
    /\ initial \in UNION {[ks -> Values] : ks \in SUBSET Keys}
    /\ map = NewStorage(initial)
    /\ calls = <<>> /\ answer = None

Called(op, key, value) ==
    /\ Len(calls) < MaxCalls
    /\ calls' = Append(calls, [op |-> op, key |-> key, value |-> value])
    /\ UNCHANGED initial

Load(key) ==
    /\ Called("load", key, Default)
    /\ map' = AfterLoad(map, key, Default)
    /\ answer' = Loaded(map, key, Default)

Store(key, value) ==
    /\ Called("store", key, value)
    /\ map' = AfterStore(map, key, value, Default)
    /\ answer' = IF key \in DOMAIN map THEN map[key] ELSE None

StorageNext ==
    \E key \in Keys : Load(key) \/ \E value \in Values : Store(key, value)

StorageSpec == StorageInit /\ [][StorageNext]_storageVars

-------------------------------------------------------------------------------

\* What the first n calls make of a key: who accessed it, and the last value.
Accessed(key, n) == \E i \in 1 .. n : calls[i].key = key

OriginalOf(key) == IF key \in DOMAIN initial THEN initial[key] ELSE Default

ValueAfter(key, n) ==
    LET stores == {i \in 1 .. n : calls[i].op = "store" /\ calls[i].key = key}
    IN  IF stores = {} THEN OriginalOf(key)
        ELSE calls[CHOOSE i \in stores : \A j \in stores : j <= i].value

\* The answer of a call is what the history says of its key before the call: the
\* initial value, the last one stored, and whether any call had accessed it; store
\* answers None exactly when it is the first to mention the key.  The map itself
\* says the same after the call.  SLOAD, SSTORE and the account instructions take
\* their prices from these answers.
AnswersFollowHistory ==
    LET n == Len(calls)
        k == calls[n].key
    IN  /\ n > 0 =>
             IF calls[n].op = "store" /\ k \notin DOMAIN initial /\ ~Accessed(k, n - 1)
             THEN answer = None
             ELSE answer = Entry(OriginalOf(k), ValueAfter(k, n - 1), Accessed(k, n - 1))
        /\ DOMAIN map = DOMAIN initial \cup {k2 \in Keys : Accessed(k2, n)}
        /\ \A k2 \in DOMAIN map :
              map[k2] = Entry(OriginalOf(k2), ValueAfter(k2, n), Accessed(k2, n))

===============================================================================
