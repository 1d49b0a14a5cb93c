------------------------------ MODULE StorageOps ------------------------------
(***************************************************************************)
(* The journalled key-value map of src/blockchain/storage.rs, which holds  *)
(* both the accounts and the slots of every contract.  A map is a function *)
(* whose domain is the set of keys the HashMap contains; each entry keeps  *)
(* the value the key had when the map was built, its current value, and    *)
(* whether the key has been accessed since then (`warm').                  *)
(***************************************************************************)

Entry(original, value, warm) ==
    [original_value |-> original, value |-> value, warm |-> warm]

\* A HashMap with no key.
EmptyMap == [k \in {} |-> k]

\* HashMap::insert: key k is bound to e, every other key is left alone.
Put(m, k, e) == [x \in DOMAIN m \cup {k} |-> IF x = k THEN e ELSE m[x]]

\* Storage::new: every initial value is its own original, and cold.
NewStorage(init) == [k \in DOMAIN init |-> Entry(init[k], init[k], FALSE)]

\* Mutant: the entry is copied once it is warm.
LoadedWarm(m, k, default) ==
    IF k \in DOMAIN m THEN Entry(m[k].original_value, m[k].value, TRUE)
    ELSE Entry(default, default, FALSE)

\* The StorageValue that Storage::load returns: the entry as it was before the
\* call, so that its warm flag tells a first access from a later one.
Loaded(m, k, default) ==
    IF k \in DOMAIN m THEN m[k] ELSE Entry(default, default, FALSE)

\* The map Storage::load leaves behind: the key exists and is warm.
AfterLoad(m, k, default) ==
    LET e == Loaded(m, k, default)
    IN  Put(m, k, Entry(e.original_value, e.value, TRUE))

\* Mutant: the value a store replaces becomes the original.
AfterStoreRebased(m, k, value, default) ==
    Put(m, k, Entry(Loaded(m, k, default).value, value, TRUE))

\* The map Storage::store leaves behind: the original value survives.
AfterStore(m, k, value, default) ==
    Put(m, k, Entry(Loaded(m, k, default).original_value, value, TRUE))

===============================================================================
