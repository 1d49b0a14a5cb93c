----------------------------- MODULE StorageProofs -----------------------------
(***************************************************************************)
(* The answers of Storage agree with the history of its calls, however     *)
(* many keys, values and calls there are.                                  *)
(***************************************************************************)
EXTENDS Storage, TLAPS

Call == [op : {"load", "store"}, key : Keys, value : Values]

\* The calls among the first n that store under a key.
StoresTo(key, n) == {i \in 1 .. n : calls[i].op = "store" /\ calls[i].key = key}

\* One of them is the last, unless there is none.
HasLast(indices) == indices = {} \/ \E i \in indices : \A j \in indices : j <= i

\* What AnswersFollowHistory needs to be inductive: the last value stored under a
\* key exists whenever one was stored.
History ==
    /\ calls \in Seq(Call)
    /\ \A key : HasLast(StoresTo(key, Len(calls)))

\* One more call leaves the earlier ones as they are.
LEMMA CallsGrow ==
    ASSUME calls \in Seq(Call), NEW call \in Call, calls' = Append(calls, call),
           NEW n \in Nat, n = Len(calls)
    PROVE  /\ calls' \in Seq(Call) /\ Len(calls') = n + 1
           /\ calls'[n + 1] = call
           /\ \A i \in 1 .. n : calls'[i] = calls[i]
OBVIOUS

\* The stores to a key after one more call ...
LEMMA StoresGrow ==
    ASSUME calls \in Seq(Call), NEW call \in Call, calls' = Append(calls, call),
           NEW n \in Nat, n = Len(calls), NEW key
    PROVE  /\ StoresTo(key, n)' = StoresTo(key, n)
           /\ StoresTo(key, n + 1)' =
                  IF call.op = "store" /\ call.key = key
                  THEN StoresTo(key, n) \cup {n + 1} ELSE StoresTo(key, n)
<1>1. /\ calls'[n + 1] = call
      /\ \A i \in 1 .. n : calls'[i] = calls[i]
  BY CallsGrow
<1>2. 1 .. n + 1 = (1 .. n) \cup {n + 1} /\ n + 1 \notin 1 .. n
  OBVIOUS
<1> QED
  BY <1>1, <1>2 DEF StoresTo

\* ... have a last one again ...
LEMMA LastGrows ==
    ASSUME NEW n \in Nat, NEW indices \in SUBSET (1 .. n), HasLast(indices)
    PROVE  /\ HasLast(indices \cup {n + 1})
           /\ (CHOOSE i \in indices \cup {n + 1} : \A j \in indices \cup {n + 1} : j <= i)
                  = n + 1
<1> DEFINE more == indices \cup {n + 1}
<1>1. \A j \in more : j <= n + 1
  OBVIOUS
<1>2. \A i \in more : (\A j \in more : j <= i) => i = n + 1
  OBVIOUS
<1> QED
  BY <1>1, <1>2 DEF HasLast

\* ... so the value of a key is the one just stored, or the one it had.
LEMMA ValueGrows ==
    ASSUME History, NEW call \in Call, calls' = Append(calls, call), UNCHANGED initial,
           NEW n \in Nat, n = Len(calls), NEW key
    PROVE  /\ ValueAfter(key, n)' = ValueAfter(key, n)
           /\ ValueAfter(key, n + 1)' =
                  IF call.op = "store" /\ call.key = key
                  THEN call.value ELSE ValueAfter(key, n)
<1> DEFINE old == StoresTo(key, n)
           Last(indices) == CHOOSE i \in indices : \A j \in indices : j <= i
<1>1. /\ calls'[n + 1] = call
      /\ \A i \in 1 .. n : calls'[i] = calls[i]
  BY CallsGrow DEF History
<1>2. /\ StoresTo(key, n)' = old
      /\ StoresTo(key, n + 1)' =
             IF call.op = "store" /\ call.key = key THEN old \cup {n + 1} ELSE old
  BY StoresGrow DEF History
<1>3. old \in SUBSET (1 .. n) /\ HasLast(old)
  BY DEF StoresTo, History
<1>4. OriginalOf(key)' = OriginalOf(key)
  BY DEF OriginalOf
<1>5. ASSUME NEW m
      PROVE  /\ ValueAfter(key, m) = IF StoresTo(key, m) = {} THEN OriginalOf(key)
                                     ELSE calls[Last(StoresTo(key, m))].value
             /\ ValueAfter(key, m)' = IF StoresTo(key, m)' = {} THEN OriginalOf(key)'
                                      ELSE calls'[Last(StoresTo(key, m)')].value
  BY DEF ValueAfter, StoresTo
<1>6. old # {} => Last(old) \in 1 .. n
  BY <1>3 DEF HasLast
<1>7. Last(old \cup {n + 1}) = n + 1
  BY <1>3, LastGrows
<1> HIDE DEF old, Last
<1>8. ValueAfter(key, n) = IF old = {} THEN OriginalOf(key) ELSE calls[Last(old)].value
  BY <1>5 DEF old
<1>9. (IF old = {} THEN OriginalOf(key)' ELSE calls'[Last(old)].value) = ValueAfter(key, n)
  BY <1>1, <1>4, <1>6, <1>8
<1>10. ValueAfter(key, n)' = ValueAfter(key, n)
  BY <1>2, <1>5, <1>9
<1>11. CASE call.op = "store" /\ call.key = key
  <2>1. ValueAfter(key, n + 1)' = calls'[Last(old \cup {n + 1})].value
    BY <1>2, <1>5, <1>11
  <2> QED
    BY <1>1, <1>7, <1>10, <1>11, <2>1
<1>12. CASE ~(call.op = "store" /\ call.key = key)
  BY <1>2, <1>5, <1>9, <1>10, <1>12
<1> QED
  BY <1>11, <1>12

\* A key has been accessed if this call, or an earlier one, mentions it.
LEMMA AccessedGrows ==
    ASSUME calls \in Seq(Call), NEW call \in Call, calls' = Append(calls, call),
           NEW n \in Nat, n = Len(calls), NEW key
    PROVE  /\ Accessed(key, n)' <=> Accessed(key, n)
           /\ Accessed(key, n + 1)' <=> Accessed(key, n) \/ key = call.key
<1>1. /\ calls'[n + 1] = call
      /\ \A i \in 1 .. n : calls'[i] = calls[i]
  BY CallsGrow
<1>2. 1 .. n + 1 = (1 .. n) \cup {n + 1}
  OBVIOUS
<1> QED
  BY <1>1, <1>2 DEF Accessed

\* What the map says of a key, and what the history says.
Agrees(key, n) ==
    map[key] = Entry(OriginalOf(key), ValueAfter(key, n), Accessed(key, n))

\* The second half of AnswersFollowHistory, which the first half follows from.
MapFollowsHistory ==
    LET n == Len(calls)
    IN  /\ DOMAIN map = DOMAIN initial \cup {key \in Keys : Accessed(key, n)}
        /\ \A key \in DOMAIN map : Agrees(key, n)

\* What load answers, and store where the key exists, is what the history says.
LEMMA LoadedAgrees ==
    ASSUME History, MapFollowsHistory, NEW key \in Keys, NEW n \in Nat, n = Len(calls)
    PROVE  Loaded(map, key, Default)
               = Entry(OriginalOf(key), ValueAfter(key, n), Accessed(key, n))
<1>1. CASE key \in DOMAIN map
  BY <1>1 DEF MapFollowsHistory, Agrees, Loaded
<1>2. CASE key \notin DOMAIN map
  <2>1. key \notin DOMAIN initial /\ ~Accessed(key, n)
    BY <1>2 DEF MapFollowsHistory
  <2>2. StoresTo(key, n) = {}
    BY <2>1 DEF Accessed, StoresTo
  <2>3. OriginalOf(key) = Default /\ ValueAfter(key, n) = Default
    BY <2>1, <2>2 DEF OriginalOf, ValueAfter, StoresTo
  <2>4. Accessed(key, n) = FALSE
    BY <2>1 DEF Accessed
  <2> QED
    BY <1>2, <2>3, <2>4 DEF Loaded
<1> QED
  BY <1>1, <1>2

\* The map after one more call, to a key that is bound to e from now on.
LEMMA MapGrows ==
    ASSUME History, MapFollowsHistory, NEW call \in Call, calls' = Append(calls, call),
           UNCHANGED initial, NEW n \in Nat, n = Len(calls), NEW e,
           map' = Put(map, call.key, e),
           e = Entry(OriginalOf(call.key),
                     IF call.op = "store" THEN call.value ELSE ValueAfter(call.key, n),
                     TRUE)
    PROVE  MapFollowsHistory'
<1>1. Len(calls') = n + 1 /\ call.key \in Keys
  BY CallsGrow DEF History, Call
<1>2. \A key : Accessed(key, n + 1)' <=> Accessed(key, n) \/ key = call.key
  BY AccessedGrows DEF History
<1>3. DOMAIN map' = DOMAIN map \cup {call.key}
  BY DEF Put
<1>4. DOMAIN map' = DOMAIN initial' \cup {key \in Keys : Accessed(key, n + 1)'}
  BY <1>1, <1>2, <1>3 DEF MapFollowsHistory
<1>5. ASSUME NEW key \in DOMAIN map'
      PROVE  map'[key] = Entry(OriginalOf(key), ValueAfter(key, n + 1)', Accessed(key, n + 1)')
  <2>1. CASE key = call.key
    <3>1. Accessed(key, n + 1)' = TRUE
      BY <1>2, <2>1 DEF Accessed
    <3>2. ValueAfter(key, n + 1)' = IF call.op = "store" THEN call.value ELSE ValueAfter(key, n)
      BY <2>1, ValueGrows
    <3> QED
      BY <2>1, <3>1, <3>2 DEF Put
  <2>2. CASE key # call.key
    <3>1. key \in DOMAIN map /\ map'[key] = map[key]
      BY <1>3, <2>2 DEF Put
    <3>2. Accessed(key, n + 1)' = Accessed(key, n)
      BY <1>2, <2>2 DEF Accessed
    <3>3. ValueAfter(key, n + 1)' = ValueAfter(key, n)
      BY <2>2, ValueGrows
    <3> QED
      BY <3>1, <3>2, <3>3 DEF MapFollowsHistory, Agrees
  <2> QED
    BY <2>1, <2>2
<1>6. \A key : OriginalOf(key)' = OriginalOf(key)
  BY DEF OriginalOf
<1> QED
  BY <1>1, <1>4, <1>5, <1>6 DEF MapFollowsHistory, Agrees

\* History is kept by every call.
LEMMA HistoryGrows ==
    ASSUME History, NEW call \in Call, calls' = Append(calls, call)
    PROVE  History'
<1>1. PICK n \in Nat : n = Len(calls)
  BY DEF History
<1>2. calls' \in Seq(Call) /\ Len(calls') = n + 1
  BY <1>1, CallsGrow DEF History
<1>3. ASSUME NEW key
      PROVE  HasLast(StoresTo(key, n + 1)')
  <2>1. StoresTo(key, n) \in SUBSET (1 .. n) /\ HasLast(StoresTo(key, n))
    BY <1>1 DEF StoresTo, History
  <2>2. HasLast(StoresTo(key, n) \cup {n + 1})
    BY <2>1, LastGrows
  <2> QED
    BY <1>1, <2>1, <2>2, StoresGrow DEF History
<1> QED
  BY <1>2, <1>3 DEF History, HasLast, StoresTo

\* The answer that the last call should have given.
AnswerFollowsHistory ==
    LET n == Len(calls)
        k == calls[n].key
    IN  n > 0 =>
            IF calls[n].op = "store" /\ k \notin DOMAIN initial /\ ~Accessed(k, n - 1)
            THEN answer = None
            ELSE answer = Entry(OriginalOf(k), ValueAfter(k, n - 1), Accessed(k, n - 1))

LEMMA AnswerGrows ==
    ASSUME History, NEW call \in Call, calls' = Append(calls, call), UNCHANGED initial,
           NEW n \in Nat, n = Len(calls),
           answer' = IF call.op = "store" /\ call.key \notin DOMAIN initial
                        /\ ~Accessed(call.key, n)
                     THEN None
                     ELSE Entry(OriginalOf(call.key), ValueAfter(call.key, n),
                                Accessed(call.key, n))
    PROVE  AnswerFollowsHistory'
<1>1. Len(calls') = n + 1 /\ calls'[n + 1] = call /\ (n + 1) - 1 = n
  BY CallsGrow DEF History
<1>2. \A key : /\ OriginalOf(key)' = OriginalOf(key)
               /\ ValueAfter(key, n)' = ValueAfter(key, n)
               /\ Accessed(key, n)' = Accessed(key, n)
  <2>1. \A key : OriginalOf(key)' = OriginalOf(key)
    BY DEF OriginalOf
  <2>2. \A key : ValueAfter(key, n)' = ValueAfter(key, n)
    BY ValueGrows
  <2>3. \A key : Accessed(key, n)' = Accessed(key, n)
    BY AccessedGrows DEF History, Accessed
  <2> QED
    BY <2>1, <2>2, <2>3
<1> QED
  BY <1>1, <1>2 DEF AnswerFollowsHistory

\* A call grows the history by one.
LEMMA CalledGrows ==
    ASSUME NEW op \in {"load", "store"}, NEW key \in Keys, NEW value \in Values,
           Called(op, key, value)
    PROVE  \E call \in Call :
              /\ call = [op |-> op, key |-> key, value |-> value]
              /\ calls' = Append(calls, call) /\ UNCHANGED initial
BY DEF Called, Call

LEMMA LoadFollows ==
    ASSUME History, MapFollowsHistory, NEW key \in Keys, Load(key)
    PROVE  History' /\ MapFollowsHistory' /\ AnswerFollowsHistory'
<1>1. PICK call \in Call :
          /\ call = [op |-> "load", key |-> key, value |-> Default]
          /\ calls' = Append(calls, call) /\ UNCHANGED initial
  BY StorageAssumption, CalledGrows DEF Load
<1>2. PICK n \in Nat : n = Len(calls)
  BY DEF History
<1>3. Loaded(map, key, Default)
          = Entry(OriginalOf(key), ValueAfter(key, n), Accessed(key, n))
  BY <1>2, LoadedAgrees
<1>4. call.op = "load" /\ call.key = key
  BY <1>1
<1>5. map' = Put(map, key, Entry(OriginalOf(key), ValueAfter(key, n), TRUE))
  BY <1>3 DEF Load, AfterLoad, Entry
<1>6. MapFollowsHistory'
  BY <1>1, <1>2, <1>4, <1>5, MapGrows
<1>7. answer' = Entry(OriginalOf(key), ValueAfter(key, n), Accessed(key, n))
  BY <1>3 DEF Load
<1> QED
  BY <1>1, <1>2, <1>4, <1>6, <1>7, HistoryGrows, AnswerGrows

LEMMA StoreFollows ==
    ASSUME History, MapFollowsHistory, NEW key \in Keys, NEW value \in Values,
           Store(key, value)
    PROVE  History' /\ MapFollowsHistory' /\ AnswerFollowsHistory'
<1>1. PICK call \in Call :
          /\ call = [op |-> "store", key |-> key, value |-> value]
          /\ calls' = Append(calls, call) /\ UNCHANGED initial
  BY CalledGrows DEF Store
<1>2. PICK n \in Nat : n = Len(calls)
  BY DEF History
<1>3. Loaded(map, key, Default)
          = Entry(OriginalOf(key), ValueAfter(key, n), Accessed(key, n))
  BY <1>2, LoadedAgrees
<1>4. call.op = "store" /\ call.key = key /\ call.value = value
  BY <1>1
<1>5. map' = Put(map, key, Entry(OriginalOf(key), value, TRUE))
  BY <1>3 DEF Store, AfterStore, Entry
<1>6. MapFollowsHistory'
  BY <1>1, <1>2, <1>4, <1>5, MapGrows
<1>7. key \in DOMAIN map <=> key \in DOMAIN initial \/ Accessed(key, n)
  BY <1>2 DEF MapFollowsHistory
<1>8. answer' = IF key \notin DOMAIN initial /\ ~Accessed(key, n) THEN None
                ELSE Entry(OriginalOf(key), ValueAfter(key, n), Accessed(key, n))
  BY <1>3, <1>7 DEF Store, Loaded
<1> QED
  BY <1>1, <1>2, <1>4, <1>6, <1>8, HistoryGrows, AnswerGrows

\* Nothing has been called on a new map.
LEMMA InitFollows ==
    ASSUME StorageInit
    PROVE  History /\ MapFollowsHistory /\ AnswerFollowsHistory
<1>1. calls = <<>> /\ Len(calls) = 0 /\ map = NewStorage(initial)
  BY DEF StorageInit
<1>2. \A key : StoresTo(key, 0) = {} /\ Accessed(key, 0) = FALSE
  BY DEF StoresTo, Accessed
<1>3. \A key : ValueAfter(key, 0) = OriginalOf(key)
  BY <1>2 DEF ValueAfter, StoresTo
<1>4. History
  BY <1>1, <1>2 DEF History, HasLast
<1>5. MapFollowsHistory
  BY <1>1, <1>2, <1>3 DEF MapFollowsHistory, Agrees, NewStorage, OriginalOf
<1> QED
  BY <1>1, <1>4, <1>5 DEF AnswerFollowsHistory

\* A stutter changes nothing that the definitions depend on ...
LEMMA Unchanged ==
    ASSUME UNCHANGED storageVars
    PROVE  /\ \A key, n : StoresTo(key, n)' = StoresTo(key, n)
           /\ \A key, n : Accessed(key, n)' = Accessed(key, n)
           /\ \A key, n : ValueAfter(key, n)' = ValueAfter(key, n)
           /\ \A key : OriginalOf(key)' = OriginalOf(key)
<1>1. calls' = calls /\ initial' = initial
  BY DEF storageVars
<1>2. \A key, n : StoresTo(key, n)' = StoresTo(key, n)
  BY <1>1 DEF StoresTo
<1>3. \A key, n : Accessed(key, n)' = Accessed(key, n)
  BY <1>1 DEF Accessed
<1>4. \A key : OriginalOf(key)' = OriginalOf(key)
  BY <1>1 DEF OriginalOf
<1>5. \A key, n : ValueAfter(key, n)' = ValueAfter(key, n)
  BY <1>1, <1>4 DEF ValueAfter
<1> QED
  BY <1>2, <1>3, <1>4, <1>5

\* ... so it keeps them.
LEMMA StutterFollows ==
    ASSUME History, MapFollowsHistory, AnswerFollowsHistory, UNCHANGED storageVars
    PROVE  History' /\ MapFollowsHistory' /\ AnswerFollowsHistory'
<1>1. calls' = calls /\ initial' = initial /\ map' = map /\ answer' = answer
  BY DEF storageVars
<1>2. History'
  BY <1>1, Unchanged DEF History
<1>3. MapFollowsHistory'
  BY <1>1, Unchanged DEF MapFollowsHistory, Agrees
<1>4. AnswerFollowsHistory'
  BY <1>1, Unchanged DEF AnswerFollowsHistory
<1> QED
  BY <1>2, <1>3, <1>4

\* However many keys and values, and after any number of calls, what load and store
\* answer (whether the key was there, its original value, the last value stored and
\* whether it was warm) is what the calls so far make of it.
THEOREM AnswersAlwaysFollowHistory == StorageSpec => []AnswersFollowHistory
<1> DEFINE Inv == History /\ MapFollowsHistory /\ AnswerFollowsHistory
<1>1. StorageInit => Inv
  BY InitFollows
<1>2. Inv /\ [StorageNext]_storageVars => Inv'
  <2>1. CASE UNCHANGED storageVars
    BY <2>1, StutterFollows
  <2>2. CASE StorageNext
    BY <2>2, LoadFollows, StoreFollows DEF StorageNext
  <2> QED
    BY <2>1, <2>2
<1>3. Inv => AnswersFollowHistory
  BY DEF MapFollowsHistory, Agrees, AnswerFollowsHistory, AnswersFollowHistory
<1> QED
  BY <1>1, <1>2, <1>3, PTL DEF StorageSpec

===============================================================================
