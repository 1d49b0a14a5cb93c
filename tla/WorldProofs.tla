------------------------------ MODULE WorldProofs ------------------------------
(***************************************************************************)
(* What a run leaves behind: in any build it keeps the journal, stays      *)
(* within its own contract and pays for everything that it accumulates; in *)
(* a build that checks for overflow, Machine implements World.             *)
(***************************************************************************)
EXTENDS MachineProofs

-------------------------------------------------------------------------------
(* What a step may do to the accounts and to the slots.                        *)

\* From `before' to `now' accounts were loaded and `payer' was debited: every key
\* is still journalled, no code changed and no value but the payer's.
Visited(before, now, payer) ==
    /\ Journalled(before, now)
    /\ \A a : AccountIn(now, a).code = AccountIn(before, a).code
    /\ \A a : a # payer => AccountIn(now, a) = AccountIn(before, a)

\* Slot k of contract a in a storage.
SlotAt(sto, a, k) == Loaded(IF a \in DOMAIN sto THEN sto[a] ELSE EmptyMap, k, 0)

\* From `before' to `now' only slots of `own' were loaded or stored.
Worked(before, now, own) ==
    /\ DOMAIN before \subseteq DOMAIN now
    /\ DOMAIN now \subseteq DOMAIN before \cup {own}
    /\ \A a \in DOMAIN before : a # own => now[a] = before[a]
    /\ own \in DOMAIN before => Journalled(before[own], now[own])
    /\ \A k : /\ SlotAt(before, own, k).warm => SlotAt(now, own, k).warm
              /\ SlotAt(now, own, k).original_value = SlotAt(before, own, k).original_value
              /\ \/ SlotAt(now, own, k).value = SlotAt(before, own, k).value
                 \/ SlotAt(now, own, k).warm

\* Journalling is a preorder.
LEMMA JournalledOrder ==
    /\ \A m : Journalled(m, m)
    /\ \A m, n, o : Journalled(m, n) /\ Journalled(n, o) => Journalled(m, o)
BY DEF Journalled

\* So is visiting, for one payer ...
LEMMA VisitedOrder ==
    /\ \A m, p : Visited(m, m, p)
    /\ \A m, n, o, p : Visited(m, n, p) /\ Visited(n, o, p) => Visited(m, o, p)
BY JournalledOrder DEF Visited

\* ... and working, for one contract.
LEMMA WorkedOrder ==
    /\ \A m, own : Worked(m, m, own)
    /\ \A m, n, o, own : Worked(m, n, own) /\ Worked(n, o, own) => Worked(m, o, own)
<1>1. ASSUME NEW m, NEW own
      PROVE  Worked(m, m, own)
  BY JournalledOrder DEF Worked
<1>2. ASSUME NEW m, NEW n, NEW o, NEW own, Worked(m, n, own), Worked(n, o, own)
      PROVE  Worked(m, o, own)
  <2>1. /\ DOMAIN m \subseteq DOMAIN o
        /\ DOMAIN o \subseteq DOMAIN m \cup {own}
        /\ \A a \in DOMAIN m : a # own => o[a] = m[a]
    BY <1>2 DEF Worked
  <2>2. own \in DOMAIN m => Journalled(m[own], o[own])
    BY <1>2, JournalledOrder DEF Worked
  <2>3. ASSUME NEW k
        PROVE  /\ SlotAt(m, own, k).warm => SlotAt(o, own, k).warm
               /\ SlotAt(o, own, k).original_value = SlotAt(m, own, k).original_value
               /\ \/ SlotAt(o, own, k).value = SlotAt(m, own, k).value
                  \/ SlotAt(o, own, k).warm
    BY <1>2 DEF Worked
  <2> QED
    BY <2>1, <2>2, <2>3 DEF Worked
<1> QED
  BY <1>1, <1>2

\* Storage::load and Storage::store keep the journal.
LEMMA StoreJournalled ==
    ASSUME NEW m, NEW k, NEW default
    PROVE  /\ Journalled(m, AfterLoad(m, k, default))
           /\ \A v : Journalled(m, AfterStore(m, k, v, default))
BY DEF Journalled, AfterLoad, AfterStore, Loaded, Put, Entry

\* Loading an account is a visit, whoever pays.
LEMMA TouchedVisited ==
    ASSUME NEW acc, NEW a, NEW payer
    PROVE  Visited(acc, Touched(acc, a), payer)
BY StoreJournalled, ValueAfterLoad DEF Visited, Touched, AccountIn

\* So is debiting the payer.
LEMMA DebitedVisited ==
    ASSUME NEW acc, NEW payer, NEW cost
    PROVE  Visited(acc, Debited(acc, payer, cost), payer)
<1> DEFINE account == [balance |-> AccountIn(acc, payer).balance - cost,
                       code |-> AccountIn(acc, payer).code]
           loaded == Touched(acc, payer)
           paid == AfterStore(loaded, payer, account, NoAccount)
<1>1. Debited(acc, payer, cost) = paid
  BY DEF Debited
<1>2. \A b : AccountIn(paid, b) = IF b = payer THEN account ELSE AccountIn(acc, b)
  BY ValueAfterStore, ValueAfterLoad DEF AccountIn, Touched
<1>3. Journalled(acc, paid)
  BY StoreJournalled, JournalledOrder DEF Touched
<1>4. account.code = AccountIn(acc, payer).code
  OBVIOUS
<1> HIDE DEF paid, account
<1> QED
  BY <1>1, <1>2, <1>3, <1>4 DEF Visited

\* pay_gas_cost visits, whatever comes of it ...
LEMMA PayGasVisited ==
    ASSUME NEW acc, NEW t, NEW g, NEW cost
    PROVE  Visited(acc, PayGas(acc, t, g, cost).accounts, t.from)
BY VisitedOrder, TouchedVisited, DebitedVisited DEF PayGas, DecreaseBalance, Receipt

\* ... and so does the up-front check of execute_transaction.
LEMMA AdmissionVisited ==
    ASSUME NEW acc, NEW t
    PROVE  Visited(acc, Admission(acc, t).accounts, t.from)
<1> DEFINE paid == PayGas(acc, t, t.gas, IntrinsicGas(t))
<1>1. Visited(acc, paid.accounts, t.from)
  BY PayGasVisited
<1> HIDE DEF paid
<1>2. Admission(acc, t).accounts \in {acc, paid.accounts}
  BY DEF Admission, Receipt, paid
<1> QED
  BY <1>1, <1>2, VisitedOrder

\* An access to a slot of the contract works on no other.
LEMMA AccessWorked ==
    ASSUME NEW k, NEW v, NEW slots,
           \/ slots = AfterLoad(SlotsOf(address), k, 0)
           \/ slots = AfterStore(SlotsOf(address), k, v, 0)
    PROVE  Worked(storage, Put(storage, address, slots), address)
<1> DEFINE next == Put(storage, address, slots)
           mine == SlotsOf(address)
<1>1. /\ DOMAIN next = DOMAIN storage \cup {address}
      /\ next[address] = slots
      /\ \A a \in DOMAIN storage : a # address => next[a] = storage[a]
  BY DEF Put
<1>2. /\ \A x : SlotAt(storage, address, x) = Loaded(mine, x, 0)
      /\ \A x : SlotAt(next, address, x) = Loaded(slots, x, 0)
  BY <1>1 DEF SlotAt, SlotsOf
<1>3. Journalled(mine, slots)
  BY StoreJournalled
<1>4. ASSUME NEW x
      PROVE  /\ Loaded(mine, x, 0).warm => Loaded(slots, x, 0).warm
             /\ Loaded(slots, x, 0).original_value = Loaded(mine, x, 0).original_value
             /\ \/ Loaded(slots, x, 0).value = Loaded(mine, x, 0).value
                \/ Loaded(slots, x, 0).warm
  BY DEF AfterLoad, AfterStore, Loaded, Put, Entry
<1>5. address \in DOMAIN storage => storage[address] = mine
  BY DEF SlotsOf
<1> HIDE DEF next, mine
<1> QED
  BY <1>1, <1>2, <1>3, <1>4, <1>5 DEF Worked, next

-------------------------------------------------------------------------------
(* Every step.                                                                 *)

\* What an instruction, whatever becomes of it, does to the world state.
Confined ==
    /\ Visited(accounts, accounts', tx.from)
    /\ Worked(storage, storage', address)
    /\ UNCHANGED contract

\* The accounts that instructions leave are those they find, or with one loaded.
LEMMA LoadsVisited ==
    /\ Visited(accounts, accounts, tx.from)
    /\ \A a : Visited(accounts, Touched(accounts, a), tx.from)
BY VisitedOrder, TouchedVisited

\* An instruction that is charged, after it has loaded accounts ...
LEMMA SettleConfined ==
    ASSUME NEW acc, Visited(accounts, acc, tx.from), NEW cost, NEW next,
           Settle(acc, cost, next), Worked(storage, storage', address)
    PROVE  Confined
<1>1. accounts' = PayGas(acc, tx, gas, cost).accounts /\ UNCHANGED contract
  BY DEF Settle
<1>2. Visited(acc, accounts', tx.from)
  BY <1>1, PayGasVisited
<1> QED
  BY <1>1, <1>2, VisitedOrder DEF Confined

\* ... or only computes ...
LEMMA ComputeConfined ==
    ASSUME NEW n, NEW w, NEW acc, Visited(accounts, acc, tx.from), NEW cost, NEW next,
           Compute(n, w, acc, cost, next), Worked(storage, storage', address)
    PROVE  Confined
BY SettleConfined DEF Compute

\* ... or fails.
LEMMA AbortConfined ==
    ASSUME NEW acc, Visited(accounts, acc, tx.from), NEW status, Abort(status, acc)
    PROVE  Confined
BY WorkedOrder DEF Abort, Confined

\* The instructions that fail.
LEMMA FailingConfined ==
    ASSUME \/ StackUnderflow \/ StackOverflow \/ Unimplemented \/ CallDataOverflow
           \/ InvalidAddress \/ AccessFails \/ InvalidJump
    PROVE  Confined
<1>1. CASE StackOverflow
  BY <1>1, LoadsVisited, AbortConfined DEF StackOverflow
<1>2. CASE AccessFails
  <2>1. Visited(accounts, CopiedFrom, tx.from)
    BY LoadsVisited DEF CopiedFrom
  <2> QED
    BY <1>2, <2>1, AbortConfined DEF AccessFails
<1>3. CASE StackUnderflow \/ Unimplemented \/ CallDataOverflow \/ InvalidAddress \/ InvalidJump
  BY <1>3, LoadsVisited, AbortConfined
     DEF StackUnderflow, Unimplemented, CallDataOverflow, InvalidAddress, InvalidJump
<1> QED
  BY <1>1, <1>2, <1>3

\* The instructions that access memory.
LEMMA MemoryConfined ==
    ASSUME \/ MLoad \/ MStore \/ MStore8 \/ Copy \/ MCopy \/ Keccak256
           \/ \E n \in 0 .. 4 : Log(n)
           \/ Return \/ Revert
    PROVE  Confined
<1>1. ASSUME UNCHANGED storage, NEW acc, Visited(accounts, acc, tx.from),
             NEW cost, NEW next, Settle(acc, cost, next)
      PROVE  Confined
  BY <1>1, WorkedOrder, SettleConfined
<1>2. CASE MLoad \/ MStore \/ MStore8
  BY <1>1, <1>2, LoadsVisited DEF MLoad, MStore, MStore8, StoreBytes
<1>3. CASE Copy
  <2>1. Visited(accounts, CopiedFrom, tx.from)
    BY LoadsVisited DEF CopiedFrom
  <2> QED
    BY <1>1, <1>3, <2>1 DEF Copy
<1>4. CASE MCopy \/ Keccak256
  BY <1>1, <1>4, LoadsVisited DEF MCopy, Keccak256
<1>5. CASE (\E n \in 0 .. 4 : Log(n)) \/ Return \/ Revert
  BY <1>1, <1>5, LoadsVisited DEF Log, Return, Revert, Halt
<1> QED
  BY <1>2, <1>3, <1>4, <1>5

\* The instructions that push what they compute, read accounts, or move control.
LEMMA PureConfined ==
    ASSUME \/ ComputeAlu \/ PushContext \/ Dup \/ CallDataLoad
           \/ \E n \in 0 .. 32 : Push(n)
           \/ QueryAccount \/ SelfBalance \/ TLoad
           \/ Swap \/ Pop \/ TStore \/ Jump \/ JumpDest \/ Stop \/ Invalid
    PROVE  Confined
<1>1. ASSUME UNCHANGED storage, NEW acc, Visited(accounts, acc, tx.from),
             NEW cost, NEW next,
             \/ Settle(acc, cost, next)
             \/ \E n, w : Compute(n, w, acc, cost, next)
      PROVE  Confined
  BY <1>1, WorkedOrder, SettleConfined, ComputeConfined
<1>2. CASE ComputeAlu \/ PushContext \/ Dup \/ CallDataLoad \/ TLoad
  BY <1>1, <1>2, LoadsVisited DEF ComputeAlu, PushContext, Dup, CallDataLoad, TLoad
<1>3. CASE \E n \in 0 .. 32 : Push(n)
  BY <1>1, <1>3, LoadsVisited DEF Push
<1>4. CASE QueryAccount \/ SelfBalance
  BY <1>1, <1>4, LoadsVisited DEF QueryAccount, SelfBalance
<1>5. CASE Swap \/ Pop \/ TStore
  BY <1>1, <1>5, LoadsVisited DEF Swap, Pop, TStore
<1>6. CASE Jump \/ JumpDest \/ Stop \/ Invalid
  BY <1>1, <1>6, LoadsVisited DEF Jump, JumpDest, Stop, Invalid
<1> QED
  BY <1>2, <1>3, <1>4, <1>5, <1>6

\* SLOAD and SSTORE.
LEMMA SlotsConfined ==
    ASSUME SLoad \/ SStore
    PROVE  Confined
<1>1. CASE SLoad
  <2>1. Worked(storage, storage', address)
    BY <1>1, AccessWorked DEF SLoad
  <2> QED
    BY <1>1, <2>1, LoadsVisited, ComputeConfined DEF SLoad
<1>2. CASE SStore
  <2>1. Worked(storage, storage', address)
    BY <1>2, AccessWorked DEF SStore
  <2> QED
    BY <1>2, <2>1, LoadsVisited, SettleConfined DEF SStore
<1> QED
  BY <1>1, <1>2

\* No instruction leaves its confines.
LEMMA ExecuteConfined ==
    ASSUME Execute
    PROVE  Finish \/ Confined
BY FailingConfined, MemoryConfined, PureConfined, SlotsConfined DEF Execute

\* The world state that a transaction begins with, from what it finds: its parties
\* are loaded, the recipient of a call and the sender, who then pays.
LEMMA RunVisits ==
    ASSUME NEW t, Run(t)
    PROVE  \E called :
              /\ called = IF IsCreation(t) THEN accounts
                          ELSE Touched(accounts, ContractAddress(t))
              /\ Visited(accounts, Touched(called, t.from), t.from)
              /\ accounts' = Admission(Touched(called, t.from), t).accounts
              /\ Visited(Touched(called, t.from), accounts', t.from)
<1> DEFINE called == IF IsCreation(t) THEN accounts ELSE Touched(accounts, ContractAddress(t))
<1>1. Visited(accounts, called, t.from)
  BY VisitedOrder, TouchedVisited
<1>2. accounts' = Admission(Touched(called, t.from), t).accounts
  BY DEF Run
<1> HIDE DEF called
<1>3. Visited(accounts, Touched(called, t.from), t.from)
  BY <1>1, VisitedOrder, TouchedVisited
<1>4. Visited(Touched(called, t.from), accounts', t.from)
  BY <1>2, AdmissionVisited
<1> QED
  BY <1>2, <1>3, <1>4 DEF called

\* The epilogue of a call changes no account; that of a creation stores one between
\* two payments of the sender, or stops at the first.
LEMMA FinishVisits ==
    ASSUME Finish
    PROVE  /\ UNCHANGED <<storage, tx, address, opening>>
           /\ \/ Epilogue.status = "ok" /\ ~IsCreation(tx) /\ accounts' = accounts
              \/ Epilogue.status # "ok" /\ Visited(accounts, accounts', tx.from)
              \/ \E paid : /\ IsCreation(tx)
                           /\ Epilogue.status \in {"ok", "InsufficientFunds"}
                           /\ Visited(accounts, paid, tx.from)
                           /\ Visited(Created(paid), accounts', tx.from)
<1> DEFINE deposit == PayGas(accounts, tx, gas, 200 * Len(output))
           paid == deposit.accounts
           rest == DecreaseBalance(Created(paid), tx.from, tx.value, deposit.gas)
<1>1. Visited(accounts, paid, tx.from)
  BY PayGasVisited
<1>2. /\ Visited(Created(paid), rest.accounts, tx.from)
      /\ rest.status \in {"ok", "InsufficientFunds"}
  BY TouchedVisited, DebitedVisited DEF DecreaseBalance, Receipt
<1> HIDE DEF paid, rest
<1>3. accounts' = Epilogue.accounts /\ UNCHANGED <<storage, tx, address, opening>>
  BY DEF Finish, contract
<1>4. Epilogue = IF ~IsCreation(tx) THEN Receipt("ok", gas, accounts)
                 ELSE IF deposit.status # "ok" THEN deposit ELSE rest
  BY DEF Epilogue, paid, rest
<1>5. paid = deposit.accounts
  BY DEF paid
<1> HIDE DEF deposit
<1>6. CASE ~IsCreation(tx)
  BY <1>3, <1>4, <1>6 DEF Receipt
<1>7. CASE IsCreation(tx)
  BY <1>1, <1>2, <1>3, <1>4, <1>5, <1>7
<1> QED
  BY <1>3, <1>6, <1>7

\* The epilogue keeps the journal: the account of a creation is stored over what
\* its address held, whose original value and warmth remain.
LEMMA FinishJournalled ==
    ASSUME Finish
    PROVE  Journalled(accounts, accounts')
<1>1. \A acc : Journalled(acc, Created(acc))
  BY StoreJournalled DEF Created
<1> QED
  BY <1>1, FinishVisits, JournalledOrder DEF Visited

\* No step, of whatever run, forgets a key, its original value or its warmth.
LEMMA NextJournalled ==
    ASSUME Next
    PROVE  /\ Journalled(accounts, accounts')
           /\ \A a \in DOMAIN storage :
                 a \in DOMAIN storage' /\ Journalled(storage[a], storage'[a])
<1>1. UNCHANGED storage =>
          \A a \in DOMAIN storage :
             a \in DOMAIN storage' /\ Journalled(storage[a], storage'[a])
  BY JournalledOrder
<1>2. ASSUME NEW t, Run(t)
      PROVE  Journalled(accounts, accounts') /\ UNCHANGED storage
  <2>1. UNCHANGED storage
    BY <1>2 DEF Run
  <2> QED
    BY <1>2, <2>1, RunVisits, JournalledOrder DEF Visited
<1>3. CASE Confined
  BY <1>3, JournalledOrder DEF Confined, Visited, Worked
<1>4. CASE Finish
  BY <1>1, <1>4, FinishVisits, FinishJournalled
<1> QED
  BY <1>1, <1>2, <1>3, <1>4, ExecuteConfined DEF Next

\* In either build, whatever the programs, the transactions and the errors that end
\* them, the journal only ever grows: the original values and the warmth that SLOAD
\* and SSTORE take their prices from survive every run.
THEOREM JournalAlwaysKept == Spec => JournalKept
<1>1. [Next]_vars =>
          [/\ Journalled(accounts, accounts')
           /\ \A a \in DOMAIN storage :
                 a \in DOMAIN storage' /\ Journalled(storage[a], storage'[a])]_vars
  BY NextJournalled
<1> QED
  BY <1>1, PTL DEF Spec, JournalKept

-------------------------------------------------------------------------------
(* Isolation.                                                                  *)

\* The invariant it needs: what the run has done since it began, of which the
\* journal and the warmth of its sender are the part that Isolation leaves out.
\* The sender's account is known, since the prologue loads it.
Since ==
    phase = "running" =>
        /\ Visited(opening.accounts, accounts, tx.from)
        /\ Worked(opening.storage, storage, address)
        /\ \A a \in Promise!Parties(tx) : a \in DOMAIN accounts /\ accounts[a].warm

\* A loaded account is known and warm, and stays so as long as the journal is kept.
LEMMA TouchedWarm ==
    ASSUME NEW acc, NEW a
    PROVE  a \in DOMAIN Touched(acc, a) /\ Touched(acc, a)[a].warm
BY DEF Touched, AfterLoad, Put, Entry

\* What was warm in a journal is warm in what extends it.
LEMMA JournalledWarm ==
    ASSUME NEW now, NEW next, Journalled(now, next), NEW k \in DOMAIN now, now[k].warm
    PROVE  k \in DOMAIN next /\ next[k].warm
BY DEF Journalled

\* The prologue establishes it ...
LEMMA RunSince ==
    ASSUME NEW t, Run(t)
    PROVE  Since'
<1>1. PICK called :
          /\ called = IF IsCreation(t) THEN accounts
                      ELSE Touched(accounts, ContractAddress(t))
          /\ Visited(accounts, Touched(called, t.from), t.from)
          /\ Visited(Touched(called, t.from), accounts', t.from)
  BY RunVisits
<1>2. tx' = t /\ opening' = [accounts |-> accounts, storage |-> storage] /\ UNCHANGED storage
  BY DEF Run
<1>3. Visited(accounts, accounts', t.from)
  BY <1>1, VisitedOrder
<1>4. Worked(storage, storage', address')
  BY <1>2, WorkedOrder
<1>5. t.from \in DOMAIN accounts' /\ accounts'[t.from].warm
  BY <1>1, TouchedWarm, JournalledWarm DEF Visited
<1>6. ASSUME ~IsCreation(t)
      PROVE  t.to \in DOMAIN accounts' /\ accounts'[t.to].warm
  <2>1. called = Touched(accounts, t.to)
    BY <1>1, <1>6 DEF ContractAddress
  <2>2. Journalled(called, Touched(called, t.from))
    BY TouchedVisited DEF Visited
  <2>3. Journalled(Touched(called, t.from), accounts')
    BY <1>1 DEF Visited
  <2> QED
    BY <2>1, <2>2, <2>3, TouchedWarm, JournalledWarm
<1> QED
  BY <1>2, <1>3, <1>4, <1>5, <1>6 DEF Since, Promise!Parties

\* ... and every instruction keeps it, one that ends the run included.
LEMMA ConfinedSince ==
    ASSUME Since, phase = "running", Confined
    PROVE  /\ Visited(opening.accounts, accounts', tx.from)
           /\ Worked(opening.storage, storage', address)
           /\ \A a \in Promise!Parties(tx) : a \in DOMAIN accounts' /\ accounts'[a].warm
           /\ UNCHANGED <<tx, address, opening>>
<1>1. UNCHANGED <<tx, address, opening>>
  BY DEF Confined, contract
<1>2. Visited(opening.accounts, accounts', tx.from) /\ Worked(opening.storage, storage', address)
  BY VisitedOrder, WorkedOrder DEF Since, Confined
<1>3. \A a \in Promise!Parties(tx) : a \in DOMAIN accounts' /\ accounts'[a].warm
  BY JournalledWarm DEF Since, Confined, Visited
<1> QED
  BY <1>1, <1>2, <1>3

\* After the epilogue no transaction is under way.
LEMMA FinishEnds ==
    ASSUME Finish
    PROVE  phase' # "running"
BY DEF Finish, Ends

\* Every step keeps to what a run may have done since it began.
LEMMA NextSince ==
    ASSUME Since, [Next]_vars
    PROVE  Since'
<1>1. CASE UNCHANGED vars
  BY <1>1 DEF vars, contract, Since, Promise!Parties
<1>2. ASSUME NEW t \in Transactions, Run(t)
      PROVE  Since'
  BY <1>2, RunSince
<1>3. CASE Execute
  <2>1. phase = "running"
    BY <1>3, ExecuteRuns
  <2>2. CASE Finish
    BY <2>2, FinishEnds DEF Since
  <2>3. CASE Confined
    BY <2>1, <2>3, ConfinedSince DEF Since, Promise!Parties
  <2> QED
    BY <1>3, <2>2, <2>3, ExecuteConfined
<1> QED
  BY <1>1, <1>2, <1>3 DEF Next

\* What a run may have done since it began leaves the rest of the world alone.
LEMMA SinceIsolates ==
    ASSUME Since
    PROVE  Isolation
<1> SUFFICES ASSUME phase = "running"
             PROVE  /\ DOMAIN opening.accounts \subseteq DOMAIN accounts
                    /\ \A a \in DOMAIN accounts \ {tx.from} :
                          accounts[a].value = AccountIn(opening.accounts, a)
                    /\ accounts[tx.from].value.code =
                          AccountIn(opening.accounts, tx.from).code
                    /\ DOMAIN storage \subseteq DOMAIN opening.storage \cup {address}
                    /\ \A a \in DOMAIN opening.storage \ {address} :
                          storage[a] = opening.storage[a]
  BY DEF Isolation
<1>1. /\ Visited(opening.accounts, accounts, tx.from)
      /\ Worked(opening.storage, storage, address)
      /\ tx.from \in DOMAIN accounts
  BY DEF Since, Promise!Parties
<1>2. \A a \in DOMAIN accounts : accounts[a].value = AccountIn(accounts, a)
  BY DEF AccountIn, Loaded
<1>3. DOMAIN opening.accounts \subseteq DOMAIN accounts
  BY <1>1 DEF Visited, Journalled
<1> QED
  BY <1>1, <1>2, <1>3 DEF Visited, Worked

\* In either build, until its epilogue a run changes no account but its sender's
\* balance, and no slot but its own contract's, however it interleaves accesses.
THEOREM IsolationAlways == Spec => []Isolation
<1>1. Init => Since
  BY DEF Init, Since
<1>2. Since /\ [Next]_vars => Since'
  BY NextSince
<1>3. Since => Isolation
  BY SinceIsolates
<1> QED
  BY <1>1, <1>2, <1>3, PTL DEF Spec

-------------------------------------------------------------------------------
(* The steps of World.                                                         *)

\* What World sees of some accounts and of some slots.
CodesOf(acc) == [a \in Holders |-> AccountIn(acc, a).code]
\* What World sees of the accounts and of the slots.
WarmIn(acc)  == {a \in Holders : Loaded(acc, a, NoAccount).warm}
SlotsIn(sto) == [p \in Holders \X Keys |-> SlotAt(sto, p[1], p[2]).value]
UsedIn(sto)  == {p \in Holders \X Keys : SlotAt(sto, p[1], p[2]).warm}

\* The variables of World are what it sees of the world that the embedder has.
LEMMA Views ==
    /\ Promise!values = <<CodesOf(Settled), SlotsIn(SettledStorage)>>
    /\ Promise!world = <<Promise!values, WarmIn(Settled), UsedIn(SettledStorage), tx, result>>
    /\ Promise!Watched = Holders
    /\ \A p \in Holders \X Keys :
          SlotIn(p[1], p[2]) = SlotAt(SettledStorage, p[1], p[2])
BY DEF Promise!values, Promise!world, Promise!Watched, CodesOf, WarmIn, SlotsIn, UsedIn,
       SlotIn, SlotAt

\* Visits change no code, and no account gets cold while the journal is kept.
LEMMA VisitedViews ==
    ASSUME NEW before, NEW now, NEW payer
    PROVE  /\ Visited(before, now, payer) => CodesOf(now) = CodesOf(before)
           /\ Journalled(before, now) => WarmIn(before) \subseteq WarmIn(now)
<1>1. Visited(before, now, payer) => CodesOf(now) = CodesOf(before)
  BY DEF Visited, CodesOf
<1>2. Journalled(before, now) => WarmIn(before) \subseteq WarmIn(now)
  BY DEF Journalled, WarmIn, Loaded, Entry
<1> QED
  BY <1>1, <1>2

\* Work changes slots of its contract only, each of them warm now.
LEMMA WorkedViews ==
    ASSUME NEW before, NEW now, NEW own, Worked(before, now, own)
    PROVE  /\ UsedIn(before) \subseteq UsedIn(now)
           /\ \A p \in UsedIn(now) \ UsedIn(before) : p[1] = own
           /\ \A p \in Holders \X Keys :
                 SlotsIn(now)[p] # SlotsIn(before)[p] => p[1] = own /\ p \in UsedIn(now)
<1>1. ASSUME NEW a, a # own, NEW k
      PROVE  SlotAt(now, a, k) = SlotAt(before, a, k)
  <2>1. a \in DOMAIN now <=> a \in DOMAIN before
    BY <1>1 DEF Worked
  <2>2. a \in DOMAIN before => now[a] = before[a]
    BY <1>1 DEF Worked
  <2> QED
    BY <2>1, <2>2 DEF SlotAt
<1>2. ASSUME NEW k
      PROVE  /\ SlotAt(before, own, k).warm => SlotAt(now, own, k).warm
             /\ SlotAt(now, own, k).value # SlotAt(before, own, k).value =>
                    SlotAt(now, own, k).warm
  BY DEF Worked
<1> QED
  BY <1>1, <1>2 DEF UsedIn, SlotsIn

\* A transaction that ran, whatever came of it, wrote what World lets it write.
LEMMA WroteSince ==
    ASSUME phase = "running", phase' = "idle", address = ContractAddress(tx),
           Journalled(opening.accounts, accounts'),
           Worked(opening.storage, storage', address),
           \A a \in Promise!Parties(tx) : a \in DOMAIN accounts' /\ accounts'[a].warm
    PROVE  Promise!Wrote(tx)
<1>1. /\ Settled = opening.accounts /\ Settled' = accounts'
      /\ SettledStorage = opening.storage /\ SettledStorage' = storage'
  BY DEF Settled, SettledStorage
<1>2. WarmIn(Settled) \cup (Promise!Parties(tx) \cap Holders) \subseteq WarmIn(Settled')
  <2>1. WarmIn(Settled) \subseteq WarmIn(Settled')
    BY <1>1, VisitedViews
  <2>2. Promise!Parties(tx) \cap Holders \subseteq WarmIn(Settled')
    BY <1>1 DEF WarmIn, Loaded
  <2> QED
    BY <2>1, <2>2
<1>3. /\ UsedIn(SettledStorage) \subseteq UsedIn(SettledStorage')
      /\ \A p \in UsedIn(SettledStorage') \ UsedIn(SettledStorage) : p[1] = ContractAddress(tx)
      /\ \A p \in Holders \X Keys :
            SlotsIn(SettledStorage')[p] # SlotsIn(SettledStorage)[p] =>
                p[1] = ContractAddress(tx) /\ p \in UsedIn(SettledStorage')
  BY <1>1, WorkedViews
<1> QED
  BY <1>2, <1>3
     DEF Promise!Wrote, Promise!Watched, WarmIn, UsedIn, SlotsIn, SlotIn, SlotAt

\* A run that ends with an error, having visited and worked, is a failure.
LEMMA EndsAsWorldFail ==
    ASSUME Ongoing, phase = "running", phase' = "idle",
           result'.status \in Promise!Errors, UNCHANGED tx,
           Visited(opening.accounts, accounts', tx.from),
           Worked(opening.storage, storage', address),
           \A a \in Promise!Parties(tx) : a \in DOMAIN accounts' /\ accounts'[a].warm
    PROVE  Promise!Fail
<1>1. Promise!Wrote(tx)
  BY WroteSince DEF Ongoing, Visited
<1>2. Settled = opening.accounts /\ Settled' = accounts'
  BY DEF Settled
<1>3. CodesOf(Settled') = CodesOf(Settled)
  BY <1>2, VisitedViews
<1>4. result = Pending
  BY DEF Ongoing
<1> QED
  BY <1>1, <1>3, <1>4 DEF Promise!Fail, CodesOf

\* A panic leaves the world that the embedder had.
LEMMA EndsAsDie ==
    ASSUME Ongoing, phase' = "crashed", result'.status = "panic", phase # "crashed",
           opening' = IF phase = "idle" THEN [accounts |-> accounts, storage |-> storage]
                      ELSE opening
    PROVE  Promise!Die
<1>1. result.status # "panic"
  BY DEF Ongoing
<1>2. Settled' = Settled /\ SettledStorage' = SettledStorage
  BY DEF Settled, SettledStorage
<1> QED
  BY <1>1, <1>2 DEF Promise!Die, Promise!values, SlotIn

\* A charged instruction is a stutter of the world, or a failure for lack of gas.
LEMMA ChargedWorld ==
    ASSUME OverflowChecks, Control, Covered, Ongoing, Since, phase = "running",
           Charged, Confined, Control'
    PROVE  Promise!Fail \/ UNCHANGED Promise!world
<1>1. Ongoing' /\ (Books!Fail \/ UNCHANGED Books!ledger)
  BY ChargedBooks
<1>2. /\ Visited(opening.accounts, accounts', tx.from)
      /\ Worked(opening.storage, storage', address)
      /\ \A a \in Promise!Parties(tx) : a \in DOMAIN accounts' /\ accounts'[a].warm
      /\ UNCHANGED <<tx, address, opening>>
  BY ConfinedSince
<1>3. CASE Books!Fail
  <2>1. result'.status \in Promise!Errors
    BY <1>3 DEF Books!Fail, Books!Errors, Promise!Errors
  <2>2. phase' = "idle"
    <3>1. result'.status # "panic" /\ result'.status # "pending"
      BY <2>1 DEF Promise!Errors
    <3>2. phase' # "running" /\ phase' # "crashed"
      BY <1>1, <3>1, PendingStatus DEF Ongoing
    <3> QED
      BY <3>2 DEF Control, ControlTypeOK
  <2> QED
    BY <1>2, <2>1, <2>2, EndsAsWorldFail
<1>4. CASE UNCHANGED Books!ledger
  <2>1. UNCHANGED <<tx, result>>
    BY <1>4 DEF Books!ledger
  <2>2. phase' = "running"
    BY <1>1, <2>1 DEF Ongoing
  <2>3. Settled' = Settled /\ SettledStorage' = SettledStorage
    BY <1>2, <2>2 DEF Settled, SettledStorage
  <2> QED
    BY <2>1, <2>3 DEF Promise!world, Promise!values, SlotIn
<1> QED
  BY <1>1, <1>3, <1>4

\* A failing instruction is a failure, or a panic.
LEMMA FailedWorld ==
    ASSUME Control, Ongoing, Since, phase = "running", Failed, Confined
    PROVE  Promise!Fail \/ Promise!Die
<1>1. PICK acc, status : status \in Failures /\ Abort(status, acc)
  BY DEF Failed
<1>2. /\ UNCHANGED opening
      /\ result'.status = status
      /\ phase' = IF status = "panic" THEN "crashed" ELSE "idle"
  BY <1>1, PendingStatus DEF Abort, Ends, contract
<1>3. CASE status = "panic"
  BY <1>2, <1>3, EndsAsDie
<1>4. CASE status # "panic"
  <2>1. result'.status \in Promise!Errors
    BY <1>1, <1>2, <1>4 DEF Failures, Promise!Errors
  <2> QED
    BY <1>2, <1>4, <2>1, ConfinedSince, EndsAsWorldFail
<1> QED
  BY <1>3, <1>4

\* The epilogue is a success, in which a creation stores the data it returns as the
\* code of its contract and changes no other, or a failure.
LEMMA FinishWorld ==
    ASSUME OverflowChecks, Control, Covered, Ongoing, Since, phase = "running", Finish
    PROVE  Promise!Fail \/ Promise!Succeed
<1> DEFINE new == ContractAddress(tx)
<1>1. /\ UNCHANGED <<storage, tx, address, opening>>
      /\ \/ Epilogue.status = "ok" /\ ~IsCreation(tx) /\ accounts' = accounts
         \/ Epilogue.status # "ok" /\ Visited(accounts, accounts', tx.from)
         \/ \E paid : /\ IsCreation(tx)
                      /\ Epilogue.status \in {"ok", "InsufficientFunds"}
                      /\ Visited(accounts, paid, tx.from)
                      /\ Visited(Created(paid), accounts', tx.from)
  BY FinishVisits
<1>2. Books!Fail \/ Books!Succeed
  BY FinishBooks
<1>3. result' = IF Epilogue.status = "ok" THEN Outcome("ok", output, gas', revert)
                ELSE Failure(Epilogue.status)
  BY DEF Finish, Ends
<1>4. result'.status = Epilogue.status /\ (Epilogue.status = "ok" => result'.data = output)
  BY <1>3, PendingStatus DEF Outcome
<1>5. phase' = "idle"
  BY <1>2, <1>4 DEF Finish, Ends, Books!Fail, Books!Errors, Books!Succeed
<1>6. /\ Visited(opening.accounts, accounts, tx.from)
      /\ Worked(opening.storage, storage', address)
      /\ \A a \in Promise!Parties(tx) : a \in DOMAIN accounts /\ accounts[a].warm
      /\ address = new /\ result = Pending
  BY <1>1 DEF Since, Ongoing
<1>7. Journalled(accounts, accounts')
  BY FinishJournalled
<1>8. \A a \in Promise!Parties(tx) : a \in DOMAIN accounts' /\ accounts'[a].warm
  BY <1>6, <1>7, JournalledWarm
<1>9. Promise!Wrote(tx)
  BY <1>5, <1>6, <1>7, <1>8, JournalledOrder, WroteSince DEF Visited
<1>10. Settled = opening.accounts /\ Settled' = accounts'
  BY <1>5 DEF Settled
<1>11. CASE Epilogue.status = "ok" /\ ~IsCreation(tx) /\ accounts' = accounts
  <2>1. CodesOf(Settled') = CodesOf(Settled)
    BY <1>6, <1>10, <1>11, VisitedViews
  <2> QED
    BY <1>1, <1>4, <1>6, <1>9, <1>11, <2>1 DEF Promise!Succeed, CodesOf
<1>12. CASE Epilogue.status # "ok" /\ Visited(accounts, accounts', tx.from)
  <2>1. result'.status \in Promise!Errors
    BY <1>2, <1>4, <1>12 DEF Books!Fail, Books!Succeed, Books!Errors, Promise!Errors
  <2>2. Visited(opening.accounts, accounts', tx.from)
    BY <1>6, <1>12, VisitedOrder
  <2> QED
    BY <1>1, <1>5, <1>6, <1>8, <2>1, <2>2, EndsAsWorldFail
<1>13. ASSUME NEW paid, IsCreation(tx), Visited(accounts, paid, tx.from),
              Visited(Created(paid), accounts', tx.from), Epilogue.status = "ok"
       PROVE  Promise!Succeed
  <2>1. \A a : AccountIn(Created(paid), a).code =
                  IF a = new THEN output ELSE AccountIn(opening.accounts, a).code
    <3>1. \A a : AccountIn(paid, a).code = AccountIn(opening.accounts, a).code
      BY <1>6, <1>13 DEF Visited
    <3>2. \A a : AccountIn(Created(paid), a) =
                    IF a = new THEN [balance |-> tx.value, code |-> output]
                    ELSE AccountIn(paid, a)
      BY <1>6, ValueAfterStore DEF Created, AccountIn
    <3> QED
      BY <3>1, <3>2
  <2>2. \A a : AccountIn(accounts', a).code =
                  IF a = new THEN output ELSE AccountIn(opening.accounts, a).code
    BY <1>13, <2>1 DEF Visited
  <2>3. [a \in Holders |-> AccountIn(Settled', a).code]
            = [a \in Holders |-> IF a = new THEN result'.data
                                 ELSE CodesOf(Settled)[a]]
    BY <1>4, <1>10, <1>13, <2>2 DEF CodesOf
  <2>4. new \in DOMAIN Created(paid) /\ Created(paid)[new].warm
    BY <1>6 DEF Created, AfterStore, Put, Entry
  <2>5. new \in DOMAIN accounts' /\ accounts'[new].warm
    BY <1>13, <2>4, JournalledWarm DEF Visited
  <2>6. new \in Holders => new \in WarmIn(Settled')
    BY <1>10, <2>5 DEF WarmIn, Loaded
  <2> QED
    BY <1>1, <1>4, <1>6, <1>9, <1>13, <2>3, <2>6
       DEF Promise!Succeed, Promise!Watched, CodesOf, WarmIn
<1>14. CASE Epilogue.status # "ok"
  <2>1. result'.status \in Promise!Errors
    BY <1>2, <1>4, <1>14 DEF Books!Fail, Books!Succeed, Books!Errors, Promise!Errors
  <2>2. Visited(accounts, accounts', tx.from)
    BY <1>1, <1>4, <1>14, <2>1 DEF Promise!Errors
  <2> QED
    BY <1>12, <1>14, <2>2
<1> QED
  BY <1>1, <1>11, <1>12, <1>13, <1>14

\* The prologue begins a transaction, refuses it having warmed its parties, or panics.
LEMMA RunWorld ==
    ASSUME OverflowChecks, Control, Ongoing, NEW t \in Transactions, Run(t)
    PROVE  (tx' = t /\ (Promise!Begin \/ Promise!Refuse(t))) \/ Promise!Die
<1> DEFINE called == IF IsCreation(t) THEN accounts ELSE Touched(accounts, ContractAddress(t))
           acc == Touched(called, t.from)
           r   == Admission(acc, t)
<1>1. Funded(acc)
  BY ControlFunded, FundedTouched
<1>2. \/ /\ r.status \in {"InsufficientFunds", "IntrinsicGasTooLow", "panic"}
         /\ r.accounts = acc
      \/ r.status = "ok"
  BY <1>1, AdmissionCovers DEF Receipt
<1>3. Visited(accounts, acc, t.from)
  BY TouchedVisited, VisitedOrder
<1>4. WarmIn(acc) = WarmIn(accounts) \cup (Promise!Parties(t) \cap Holders)
  <2>1. ASSUME NEW m, NEW a
        PROVE  WarmIn(Touched(m, a)) = WarmIn(m) \cup ({a} \cap Holders)
    BY DEF WarmIn, Touched, AfterLoad, Loaded, Put, Entry
  <2>2. called = IF IsCreation(t) THEN accounts ELSE Touched(accounts, t.to)
    BY DEF ContractAddress
  <2> HIDE DEF called
  <2> QED
    BY <2>1, <2>2 DEF Promise!Parties
<1>5. /\ phase = "idle" /\ tx' = t /\ accounts' = r.accounts
      /\ opening' = [accounts |-> accounts, storage |-> storage] /\ UNCHANGED storage
      /\ IF r.status = "ok" THEN phase' = "running" /\ result' = Pending
                            ELSE Ends(r.status)
  BY DEF Run
<1> HIDE DEF acc, r
<1>6. Promise!Idle /\ Settled = accounts /\ SettledStorage = storage
  BY <1>5, PendingStatus DEF Ongoing, Promise!Idle, Settled, SettledStorage
<1>7. SettledStorage' = storage
  BY <1>5 DEF SettledStorage
<1>8. CASE r.status = "ok"
  <2>1. Settled' = accounts /\ result' = Pending
    BY <1>5, <1>8 DEF Settled
  <2> QED
    BY <1>5, <1>6, <1>7, <2>1 DEF Promise!Begin, Promise!values, SlotIn
<1>9. CASE r.status = "panic"
  BY <1>5, <1>9, PendingStatus, EndsAsDie DEF Ends
<1>10. CASE r.status \in {"InsufficientFunds", "IntrinsicGasTooLow"} /\ r.accounts = acc
  <2>1. phase' = "idle" /\ result'.status \in Promise!Refusals /\ Settled' = acc
    BY <1>5, <1>10, PendingStatus DEF Ends, Promise!Refusals, Settled
  <2>2. CodesOf(Settled') = CodesOf(Settled)
    BY <1>3, <1>6, <2>1, VisitedViews
  <2>3. WarmIn(Settled') = WarmIn(Settled) \cup (Promise!Parties(t) \cap Holders)
    BY <1>4, <1>6, <2>1
  <2> QED
    BY <1>5, <1>6, <1>7, <2>1, <2>2, <2>3
       DEF Promise!Refuse, Promise!Watched, Promise!values, CodesOf, WarmIn, SlotIn
<1> QED
  BY <1>2, <1>5, <1>8, <1>9, <1>10

\* The world Evm::new builds is an initial state of World: all of it is cold.
LEMMA InitWorld ==
    ASSUME Init
    PROVE  Promise!WorldInit
<1>1. Settled = accounts /\ SettledStorage = storage /\ result.status = "none"
  BY PendingStatus DEF Init, Settled, SettledStorage
<1>2. \A a : ~Loaded(accounts, a, NoAccount).warm
  BY DEF Init, NewStorage, Loaded, Entry
<1>3. \A a, k : ~SlotAt(storage, a, k).warm
  BY DEF Init, NewStorage, SlotAt, Loaded, Entry, EmptyMap
<1> QED
  BY <1>1, <1>2, <1>3 DEF Promise!WorldInit, SlotIn, SlotAt

\* Every step is a step of World or a stutter.
LEMMA NextWorld ==
    ASSUME OverflowChecks, Control, Covered, Ongoing, Since, [Next]_vars
    PROVE  [Promise!WorldNext]_(Promise!world)
<1>1. CASE UNCHANGED vars
  BY <1>1 DEF vars, contract, Promise!world, Promise!values, Settled, SettledStorage, SlotIn
<1>2. ASSUME NEW t \in Transactions, Run(t)
      PROVE  Promise!WorldNext
  BY <1>2, RunWorld DEF Promise!WorldNext
<1>3. CASE Execute
  <2>1. phase = "running"
    BY <1>3, ExecuteRuns
  <2>2. CASE Finish
    BY <2>1, <2>2, FinishWorld DEF Promise!WorldNext
  <2>3. CASE Confined /\ ~Finish
    <3>1. Charged \/ Failed
      BY <1>3, <2>1, <2>3, ExecuteShapes, ControlFunded, RunningTransaction DEF Control
    <3>2. Control'
      BY NextControl
    <3> QED
      BY <2>1, <2>3, <3>1, <3>2, ChargedWorld, FailedWorld DEF Promise!WorldNext
  <2> QED
    BY <1>3, <2>2, <2>3, ExecuteConfined
<1> QED
  BY <1>1, <1>2, <1>3 DEF Next

\* Whatever its transactions and whatever their programs, the machine keeps World's
\* promise: who may change what code and which slots, and what is warm afterwards.
\* The invariants of the ledger are needed too: they exclude the epilogue that
\* has stored the new account when it finds that the sender cannot pay.
THEOREM MachineKeepsTheWorld ==
    ASSUME OverflowChecks
    PROVE  Spec => KeepsTheWorld
<1>1. Init => Control /\ Covered /\ Ongoing /\ Since /\ Promise!WorldInit
  BY InitControl, InitBooks, InitWorld DEF Init, Covered, Since
<1>2. Control /\ Covered /\ Ongoing /\ Since /\ [Next]_vars =>
          (Control /\ Covered /\ Ongoing /\ Since)' /\ [Promise!WorldNext]_(Promise!world)
  BY NextControl, NextCovered, NextBooks, NextSince, NextWorld
<1> QED
  BY <1>1, <1>2, PTL DEF Spec, KeepsTheWorld, Promise!WorldSpec

-------------------------------------------------------------------------------
(* Metering: counting.                                                         *)

\* One more element at most is one more to pay for.
LEMMA CountMore ==
    ASSUME NEW S, IsFiniteSet(S), NEW x, NEW T, T \subseteq S \cup {x}
    PROVE  /\ IsFiniteSet(T) /\ Cardinality(T) \in Nat /\ Cardinality(S) \in Nat
           /\ Cardinality(T) <= Cardinality(S) + 1
<1>1. IsFiniteSet(S \cup {x})
  BY FS_AddElement
<1>2. Cardinality(S \cup {x}) <= Cardinality(S) + 1
  <2>1. Cardinality(S) \in Nat
    BY FS_CardinalityType
  <2>2. Cardinality(S \cup {x}) \in {Cardinality(S), Cardinality(S) + 1}
    BY FS_AddElement
  <2> QED
    BY <2>1, <2>2
<1>3. IsFiniteSet(T) /\ Cardinality(T) <= Cardinality(S \cup {x})
  BY <1>1, FS_Subset
<1> QED
  BY <1>1, <1>2, <1>3, FS_CardinalityType

\* No more elements cost no more.
LEMMA CountLess ==
    ASSUME NEW S, IsFiniteSet(S), NEW T, T \subseteq S
    PROVE  /\ IsFiniteSet(T) /\ Cardinality(T) \in Nat /\ Cardinality(S) \in Nat
           /\ Cardinality(T) <= Cardinality(S)
BY FS_Subset, FS_CardinalityType

-------------------------------------------------------------------------------
(* What there is to pay for, in accounts `acc' and slots `slots' of the contract. *)

\* The accounts and the slots that the run has warmed and pays for.
NewAccounts(acc) == Warmed(acc, opening.accounts) \ FreeAccounts

NewSlots(slots) == Warmed(slots, OwnSlotsBefore)

Before(k) == Loaded(OwnSlotsBefore, k, 0)

\* The slots that are dirtied and had a value before ...
Rewritten(slots) ==
    {k \in DOMAIN slots : /\ Before(k).value = Before(k).original_value
                          /\ slots[k].value # Before(k).value
                          /\ Before(k).original_value # 0}

\* ... and those that were zero.
Filled(slots) ==
    {k \in DOMAIN slots : /\ Before(k).value = Before(k).original_value
                          /\ slots[k].value # Before(k).value
                          /\ Before(k).original_value = 0}

\* What they cost.
AccountsDue(acc) == 2600 * Cardinality(NewAccounts(acc))

SlotsDue(slots) ==
    2100 * Cardinality(NewSlots(slots))
        + 2900 * Cardinality(Rewritten(slots)) + 20000 * Cardinality(Filled(slots))

\* They can be counted.
FiniteAccounts(acc) == IsFiniteSet(NewAccounts(acc))

FiniteSlots(slots) ==
    IsFiniteSet(NewSlots(slots)) /\ IsFiniteSet(Rewritten(slots)) /\ IsFiniteSet(Filled(slots))

\* The bill is made of natural numbers.
LEMMA DueNat ==
    /\ \A acc : FiniteAccounts(acc) => AccountsDue(acc) \in Nat
    /\ \A slots : FiniteSlots(slots) => SlotsDue(slots) \in Nat
BY FS_CardinalityType DEF FiniteAccounts, FiniteSlots, AccountsDue, SlotsDue

\* The terms of EverythingPaidFor are these.
LEMMA DueTerms ==
    /\ Warmed(accounts, opening.accounts) \ FreeAccounts = NewAccounts(accounts)
    /\ Warmed(SlotsOf(address), OwnSlotsBefore) = NewSlots(SlotsOf(address))
    /\ Dirtied \ Fresh(Dirtied) = Rewritten(SlotsOf(address))
    /\ Fresh(Dirtied) = Filled(SlotsOf(address))
BY DEF NewAccounts, NewSlots, Dirtied, Fresh, Rewritten, Filled, Before

-------------------------------------------------------------------------------
(* What an access adds to the bill. *)

\* What the loading of an account a should cost at least.
AccountToll(a) ==
    IF a \in FreeAccounts \/ Loaded(accounts, a, NoAccount).warm THEN 0 ELSE 2600

\* Loading an account, and debiting the sender, adds its toll.
LEMMA TouchedDue ==
    ASSUME FiniteAccounts(accounts), NEW a, NEW cost
    PROVE  /\ FiniteAccounts(Debited(Touched(accounts, a), tx.from, cost))
           /\ AccountsDue(Debited(Touched(accounts, a), tx.from, cost))
                  <= AccountsDue(accounts) + AccountToll(a)
<1> DEFINE now == Debited(Touched(accounts, a), tx.from, cost)
           old == NewAccounts(accounts)
<1>1. \A k \in DOMAIN now : now[k].warm =>
          k = a \/ k = tx.from \/ (k \in DOMAIN accounts /\ accounts[k].warm)
  BY DEF Debited, Touched, AfterStore, AfterLoad, Loaded, Put, Entry
<1> HIDE DEF now
<1>2. \A k \in NewAccounts(now) : k = a \/ k \in old
  BY <1>1 DEF NewAccounts, Warmed, FreeAccounts
<1>3. CASE AccountToll(a) = 0
  <2>1. a \in FreeAccounts \/ (a \in DOMAIN accounts /\ accounts[a].warm)
    BY <1>3 DEF AccountToll, Loaded, Entry
  <2>2. NewAccounts(now) \subseteq old
    BY <1>2, <2>1 DEF NewAccounts, Warmed
  <2> QED
    BY <1>3, <2>2, CountLess DEF FiniteAccounts, AccountsDue, now
<1>4. CASE AccountToll(a) = 2600
  <2>1. NewAccounts(now) \subseteq old \cup {a}
    BY <1>2
  <2> QED
    BY <1>4, <2>1, CountMore DEF FiniteAccounts, AccountsDue, now
<1> QED
  BY <1>3, <1>4 DEF AccountToll

\* Debiting the sender adds nothing.
LEMMA DebitedDue ==
    ASSUME FiniteAccounts(accounts), NEW cost
    PROVE  /\ FiniteAccounts(Debited(accounts, tx.from, cost))
           /\ AccountsDue(Debited(accounts, tx.from, cost)) <= AccountsDue(accounts)
<1> DEFINE now == Debited(accounts, tx.from, cost)
           old == NewAccounts(accounts)
<1>1. \A k \in DOMAIN now : now[k].warm =>
          k = tx.from \/ (k \in DOMAIN accounts /\ accounts[k].warm)
  BY DEF Debited, Touched, AfterStore, AfterLoad, Loaded, Put, Entry
<1> HIDE DEF now
<1>2. NewAccounts(now) \subseteq old
  BY <1>1 DEF NewAccounts, Warmed, FreeAccounts
<1> QED
  BY <1>2, CountLess DEF FiniteAccounts, AccountsDue, now

\* What an access to slot k that leaves v there should cost at least.
WarmToll(k) == IF Loaded(SlotsOf(address), k, 0).warm THEN 0 ELSE 2100

\* What a write of v there should cost besides.
WriteToll(k, v) ==
    LET slot == Loaded(SlotsOf(address), k, 0)
    IN  IF v = slot.value \/ slot.value # slot.original_value THEN 0
        ELSE IF slot.original_value = 0 THEN 20000 ELSE 2900

\* Since the run began the slots of its contract have been journalled, and a slot
\* that it was first to access has the default for its original value.
LEMMA OwnSlotsJournalled ==
    ASSUME Since, phase = "running"
    PROVE  /\ DOMAIN OwnSlotsBefore \subseteq DOMAIN SlotsOf(address)
           /\ \A k : Loaded(SlotsOf(address), k, 0).original_value = Before(k).original_value
<1>1. Worked(opening.storage, storage, address)
  BY DEF Since
<1>2. DOMAIN OwnSlotsBefore \subseteq DOMAIN SlotsOf(address)
  BY <1>1 DEF Worked, OwnSlotsBefore, SlotsOf, Journalled, EmptyMap
<1>3. ASSUME NEW k
      PROVE  Loaded(SlotsOf(address), k, 0).original_value = Before(k).original_value
  <2>1. SlotAt(storage, address, k) = Loaded(SlotsOf(address), k, 0)
    BY DEF SlotAt, SlotsOf
  <2>2. SlotAt(opening.storage, address, k) = Before(k)
    BY DEF SlotAt, Before, OwnSlotsBefore
  <2> QED
    BY <1>1, <2>1, <2>2 DEF Worked
<1> QED
  BY <1>2, <1>3

\* An access adds its tolls.
LEMMA AccessDue ==
    ASSUME Since, phase = "running", FiniteSlots(SlotsOf(address)), NEW k, NEW v,
           NEW slots, slots = AfterStore(SlotsOf(address), k, v, 0)
    PROVE  /\ FiniteSlots(slots)
           /\ SlotsDue(slots) <= SlotsDue(SlotsOf(address)) + WarmToll(k) + WriteToll(k, v)
<1> DEFINE old  == SlotsOf(address)
           slot == Loaded(old, k, 0)
<1>1. /\ DOMAIN slots = DOMAIN old \cup {k}
      /\ slots[k] = Entry(slot.original_value, v, TRUE)
      /\ \A x \in DOMAIN old : x # k => slots[x] = old[x]
  BY DEF AfterStore, Put
<1>2. DOMAIN OwnSlotsBefore \subseteq DOMAIN old
  BY OwnSlotsJournalled
<1>3. slot.original_value = Before(k).original_value
  BY OwnSlotsJournalled
<1>4. k \notin DOMAIN old => slot.value = Before(k).value /\ ~slot.warm
  <2>1. k \notin DOMAIN old => slot = Entry(0, 0, FALSE) /\ Before(k) = Entry(0, 0, FALSE)
    BY <1>2 DEF Before, Loaded
  <2> HIDE DEF slot
  <2> QED
    BY <2>1 DEF Entry
<1>5. k \in DOMAIN old => slot = old[k]
  BY DEF Loaded
<1> HIDE DEF old, slot
<1>6. /\ IsFiniteSet(NewSlots(slots)) /\ Cardinality(NewSlots(slots)) \in Nat
      /\ Cardinality(NewSlots(old)) \in Nat
      /\ 2100 * Cardinality(NewSlots(slots)) <= 2100 * Cardinality(NewSlots(old)) + WarmToll(k)
  <2>1. NewSlots(slots) \subseteq NewSlots(old) \cup {k}
    BY <1>1 DEF NewSlots, Warmed
  <2>2. slot.warm => NewSlots(slots) \subseteq NewSlots(old)
    BY <1>1, <1>4, <1>5 DEF NewSlots, Warmed
  <2>3. IsFiniteSet(NewSlots(old))
    BY DEF FiniteSlots, old
  <2>4. CASE slot.warm
    <3>1. WarmToll(k) = 0
      BY <2>4 DEF WarmToll, slot, old
    <3> QED
      BY <2>2, <2>3, <2>4, <3>1, CountLess
  <2>5. CASE ~slot.warm
    <3>1. WarmToll(k) = 2100
      BY <2>5 DEF WarmToll, slot, old
    <3>2. /\ IsFiniteSet(NewSlots(slots)) /\ Cardinality(NewSlots(slots)) \in Nat
          /\ Cardinality(NewSlots(old)) \in Nat
          /\ Cardinality(NewSlots(slots)) <= Cardinality(NewSlots(old)) + 1
      BY <2>1, <2>3, CountMore
    <3> QED
      BY <3>1, <3>2
  <2> QED
    BY <2>4, <2>5
<1>7. \A x \in Rewritten(slots) \ Rewritten(old) : x = k /\ WriteToll(k, v) = 2900
  <2>1. SUFFICES ASSUME NEW x \in Rewritten(slots), x \notin Rewritten(old)
                 PROVE  x = k /\ WriteToll(k, v) = 2900
    OBVIOUS
  <2>2. x = k
    BY <1>1, <2>1 DEF Rewritten
  <2>3. /\ Before(k).value = Before(k).original_value /\ Before(k).original_value # 0
        /\ v # Before(k).value
    BY <1>1, <2>1, <2>2 DEF Rewritten, Entry
  <2>4. slot.value = Before(k).value
    BY <1>4, <1>5, <2>1, <2>2, <2>3 DEF Rewritten
  <2> QED
    BY <1>3, <2>2, <2>3, <2>4 DEF WriteToll, slot, old
<1>8. \A x \in Filled(slots) \ Filled(old) : x = k /\ WriteToll(k, v) = 20000
  <2>1. SUFFICES ASSUME NEW x \in Filled(slots), x \notin Filled(old)
                 PROVE  x = k /\ WriteToll(k, v) = 20000
    OBVIOUS
  <2>2. x = k
    BY <1>1, <2>1 DEF Filled
  <2>3. /\ Before(k).value = Before(k).original_value /\ Before(k).original_value = 0
        /\ v # Before(k).value
    BY <1>1, <2>1, <2>2 DEF Filled, Entry
  <2>4. slot.value = Before(k).value
    BY <1>4, <1>5, <2>1, <2>2, <2>3 DEF Filled
  <2> QED
    BY <1>3, <2>2, <2>3, <2>4 DEF WriteToll, slot, old
<1>9. /\ IsFiniteSet(Rewritten(slots)) /\ Cardinality(Rewritten(slots)) \in Nat
      /\ IsFiniteSet(Filled(slots)) /\ Cardinality(Filled(slots)) \in Nat
      /\ Cardinality(Rewritten(old)) \in Nat /\ Cardinality(Filled(old)) \in Nat
      /\ Cardinality(Rewritten(slots)) <=
             Cardinality(Rewritten(old)) + (IF WriteToll(k, v) = 2900 THEN 1 ELSE 0)
      /\ Cardinality(Filled(slots)) <=
             Cardinality(Filled(old)) + (IF WriteToll(k, v) = 20000 THEN 1 ELSE 0)
  <2>1. IsFiniteSet(Rewritten(old)) /\ IsFiniteSet(Filled(old))
    BY DEF FiniteSlots, old
  <2>2. /\ Rewritten(slots) \subseteq Rewritten(old) \cup {k}
        /\ WriteToll(k, v) # 2900 => Rewritten(slots) \subseteq Rewritten(old)
    BY <1>7
  <2>3. /\ Filled(slots) \subseteq Filled(old) \cup {k}
        /\ WriteToll(k, v) # 20000 => Filled(slots) \subseteq Filled(old)
    BY <1>8
  <2>4. /\ IsFiniteSet(Rewritten(slots)) /\ Cardinality(Rewritten(slots)) \in Nat
        /\ Cardinality(Rewritten(old)) \in Nat
        /\ Cardinality(Rewritten(slots)) <=
               Cardinality(Rewritten(old)) + (IF WriteToll(k, v) = 2900 THEN 1 ELSE 0)
    BY <2>1, <2>2, CountLess, CountMore
  <2>5. /\ IsFiniteSet(Filled(slots)) /\ Cardinality(Filled(slots)) \in Nat
        /\ Cardinality(Filled(old)) \in Nat
        /\ Cardinality(Filled(slots)) <=
               Cardinality(Filled(old)) + (IF WriteToll(k, v) = 20000 THEN 1 ELSE 0)
    BY <2>1, <2>3, CountLess, CountMore
  <2> QED
    BY <2>4, <2>5
<1>10. WriteToll(k, v) \in {0, 2900, 20000} /\ WarmToll(k) \in {0, 2100}
  BY DEF WriteToll, WarmToll
<1>11. SlotsDue(slots) <= SlotsDue(old) + WarmToll(k) + WriteToll(k, v)
  BY <1>6, <1>9, <1>10 DEF SlotsDue
<1> QED
  BY <1>6, <1>9, <1>11 DEF FiniteSlots, old

-------------------------------------------------------------------------------
(* What every instruction charges.                                             *)

\* The instruction leaves accounts acc, one of them loaded at this toll at most.
Loading(acc, toll) ==
    \/ acc = accounts /\ toll = 0
    \/ \E a : acc = Touched(accounts, a) /\ toll = AccountToll(a)

\* It leaves the slots, one of them accessed at this toll at most.
Writing(toll) ==
    \/ UNCHANGED storage /\ toll = 0
    \/ \E k, v : /\ storage' = Put(storage, address, AfterStore(SlotsOf(address), k, v, 0))
                 /\ toll = WarmToll(k) + WriteToll(k, v)

\* What the memory it leaves costs more.
Growth == MemoryCost(Len(memory')) - MemoryCost(Len(memory))

\* An instruction is charged at least for what it adds to the bill.
Priced ==
    /\ Len(memory') \in Nat
    /\ \E acc, cost, next, tollA, tollS :
          /\ cost \in Nat /\ Settle(acc, cost, next)
          /\ Loading(acc, tollA) /\ Writing(tollS)
          /\ cost >= tollA + tollS + Growth

\* What shows that a step is charged the price of what it does.
LEMMA PricedHow ==
    ASSUME Len(memory') \in Nat, NEW acc, NEW cost \in Nat, NEW next, NEW tollA, NEW tollS,
           Settle(acc, cost, next), Loading(acc, tollA), Writing(tollS),
           cost >= tollA + tollS + Growth
    PROVE  Priced
BY DEF Priced

\* The tolls are natural numbers.
LEMMA TollsNat ==
    /\ \A a : AccountToll(a) \in Nat
    /\ \A k, v : WarmToll(k) \in Nat /\ WriteToll(k, v) \in Nat
BY DEF AccountToll, WarmToll, WriteToll

\* An instruction that touches neither accounts nor slots pays for its memory.
LEMMA PlainPriced ==
    ASSUME Len(memory') \in Nat, Growth \in Nat, NEW cost \in Nat, NEW next,
           Settle(accounts, cost, next), UNCHANGED storage, cost >= Growth
    PROVE  Priced
<1>1. Loading(accounts, 0) /\ Writing(0)
  BY DEF Loading, Writing
<1>2. cost >= 0 + 0 + Growth
  OBVIOUS
<1> QED
  BY <1>1, <1>2, PricedHow

\* The memory that an access leaves costs its expansion more.
LEMMA GrowthExpands ==
    ASSUME BuffersOK, NEW offset, NEW size, InBounds(offset, size),
           \/ memory' = Extended(memory, offset, size)
           \/ \E bytes : memory' = Written(memory, offset, size, bytes)
    PROVE  /\ Len(memory') \in Nat /\ Growth \in Nat
           /\ Growth = Expansion(offset, size)
<1>1. Len(memory) \in Nat
  BY DEF BuffersOK
<1>2. Len(memory') = LenAfter(Len(memory), offset, size)
  BY <1>1, BufferLengths
<1>3. /\ LenAfter(Len(memory), offset, size) \in Nat
      /\ ExpansionCost(Len(memory), offset, size) \in Nat
  BY <1>1, ExpansionCostNat
<1> QED
  BY <1>2, <1>3 DEF Growth, Expansion, ExpansionCost

\* Memory that is left alone costs nothing more.
LEMMA GrowthNone ==
    ASSUME BuffersOK, UNCHANGED memory
    PROVE  Len(memory') \in Nat /\ Growth = 0
<1>1. MemoryCost(Len(memory)) \in Nat
  BY MemoryCostMonotone DEF BuffersOK
<1> QED
  BY <1>1 DEF Growth, BuffersOK

\* The instructions that access memory, once the access succeeds.
LEMMA MemoryPriced ==
    ASSUME BuffersOK,
           \/ MLoad \/ MStore \/ MStore8 \/ Keccak256
           \/ \E n \in 0 .. 4 : Log(n)
           \/ Return \/ Revert
    PROVE  Priced
<1>a. ASSUME NEW ops, AccessMemory(ops)
      PROVE  Opcode \in ops /\ AccessStatus = "ok"
  BY <1>a DEF AccessMemory, FetchAccess, Fetch
<1>b. ASSUME NEW offset, NEW size, InBounds(offset, size), NEW extra \in Nat, NEW next,
             UNCHANGED storage,
             Settle(accounts, extra + Expansion(offset, size), next),
             \/ memory' = Extended(memory, offset, size)
             \/ \E bytes : memory' = Written(memory, offset, size, bytes)
      PROVE  Priced
  <2>1. Len(memory') \in Nat /\ Growth \in Nat /\ Growth = Expansion(offset, size)
    BY <1>b, GrowthExpands
  <2>2. extra + Expansion(offset, size) \in Nat /\ extra + Expansion(offset, size) >= Growth
    BY <2>1
  <2> QED
    BY <1>b, <2>1, <2>2, PlainPriced
<1>1. CASE MLoad
  <2>1. InBounds(stack[1], WordBytes)
    BY <1>1, <1>a, AccessInBounds DEF MLoad
  <2> QED
    BY <1>1, <1>b, <2>1, 3 \in Nat DEF MLoad
<1>2. ASSUME NEW op \in {"MSTORE", "MSTORE8"}, NEW n, StoreBytes(op, n),
             op = "MSTORE" => n = WordBytes, op = "MSTORE8" => n = 1
      PROVE  Priced
  <2>1. InBounds(stack[1], n)
    BY <1>2, <1>a, AccessInBounds DEF StoreBytes
  <2> QED
    BY <1>2, <1>b, <2>1, 3 \in Nat DEF StoreBytes
<1>3. CASE Keccak256
  <2>1. InBounds(stack[1], stack[2])
    BY <1>3, <1>a, AccessInBounds DEF Keccak256
  <2>2. 30 + 6 * Words(stack[2]) \in Nat
    BY <2>1, AccessSizes
  <2> QED
    BY <1>3, <1>b, <2>1, <2>2 DEF Keccak256
<1>4. ASSUME NEW n \in 0 .. 4, Log(n)
      PROVE  Priced
  <2>1. InBounds(stack[1], stack[2])
    BY <1>4, <1>a, AccessInBounds DEF Log
  <2>2. 375 * (n + 1) + 8 * stack[2] \in Nat
    BY <2>1 DEF InBounds, Usize
  <2> QED
    BY <1>4, <1>b, <2>1, <2>2 DEF Log
<1>5. ASSUME NEW op \in {"RETURN", "REVERT"}, NEW reverts, Halt(op, reverts)
      PROVE  Priced
  <2>1. InBounds(stack[1], stack[2])
    BY <1>5, <1>a, AccessInBounds DEF Halt
  <2>2. Settle(accounts, Expansion(stack[1], stack[2]), pc)
        /\ memory' = Extended(memory, stack[1], stack[2]) /\ UNCHANGED storage
    BY <1>5 DEF Halt
  <2>3. Len(memory') \in Nat /\ Growth \in Nat /\ Growth = Expansion(stack[1], stack[2])
    BY <2>1, <2>2, GrowthExpands
  <2> QED
    BY <2>2, <2>3, PlainPriced
<1> QED
  BY <1>1, <1>2, <1>3, <1>4, <1>5 DEF MStore, MStore8, Return, Revert

\* A copy pays for the account it reads, if any, and for its memory.
LEMMA CopyPriced ==
    ASSUME BuffersOK, Copy
    PROVE  Priced
<1> DEFINE dest  == Operand(1)
           size  == Operand(3)
           price == IF Opcode = "EXTCODECOPY" THEN AccessCost(accounts, stack[1]) ELSE 3
           tolls == IF Opcode = "EXTCODECOPY" THEN AccountToll(stack[1]) ELSE 0
<1>1. Opcode \in CopyOps /\ AccessStatus = "ok"
  BY DEF Copy, AccessMemory, FetchAccess, Fetch
<1>2. InBounds(dest, size)
  BY <1>1, AccessInBounds
<1>3. PICK bytes : memory' = Written(memory, dest, size, bytes)
  BY DEF Copy
<1>4. Len(memory') \in Nat /\ Growth \in Nat /\ Growth = Expansion(dest, size)
  BY <1>2, <1>3, GrowthExpands
<1>5. Words(size) \in Nat
  BY <1>2, AccessSizes
<1>6. price \in Nat /\ tolls \in Nat /\ price >= tolls
  BY DEF AccessCost, AccountToll
<1>7. Loading(CopiedFrom, tolls) /\ Writing(0)
  BY DEF Loading, CopiedFrom, Writing, Copy
<1>8. Settle(CopiedFrom, price + 3 * Words(size) + Expansion(dest, size), pc + 1)
  BY DEF Copy, CopyCost
<1> HIDE DEF price, tolls, dest, size
<1>9. /\ price + 3 * Words(size) + Expansion(dest, size) \in Nat
      /\ price + 3 * Words(size) + Expansion(dest, size) >= tolls + 0 + Growth
  BY <1>4, <1>5, <1>6
<1> QED
  BY <1>4, <1>7, <1>8, <1>9, PricedHow

\* MCOPY pays for the extensions of its source and of its destination.
LEMMA MCopyPriced ==
    ASSUME BuffersOK, MCopy
    PROVE  Priced
<1> DEFINE grown == Extended(memory, stack[2], stack[3])
           first == Expansion(stack[2], stack[3])
           other == ExpansionCost(Len(grown), stack[1], stack[3])
<1>1. InBounds(stack[2], stack[3]) /\ InBounds(stack[1], stack[3])
  BY AccessInBounds DEF MCopy, AccessMemory, FetchAccess, Fetch
<1>2. /\ Len(grown) \in Nat /\ first \in Nat /\ Words(stack[3]) \in Nat
  BY <1>1, AccessSizes
<1>3. other \in Nat /\ LenAfter(Len(grown), stack[1], stack[3]) \in Nat
  BY <1>1, <1>2, ExpansionCostNat
<1>4. PICK bytes : memory' = Written(grown, stack[1], stack[3], bytes)
  BY DEF MCopy
<1>5. Len(memory') = LenAfter(Len(grown), stack[1], stack[3])
  BY <1>1, <1>2, <1>4, BufferLengths
<1>6. Len(grown) = LenAfter(Len(memory), stack[2], stack[3])
  BY <1>1, BufferLengths DEF BuffersOK
<1>7. /\ MemoryCost(Len(memory)) \in Nat /\ MemoryCost(Len(grown)) \in Nat
      /\ MemoryCost(Len(memory')) \in Nat
  BY <1>2, <1>3, <1>5, MemoryCostMonotone DEF BuffersOK
<1>8. /\ first = MemoryCost(Len(grown)) - MemoryCost(Len(memory))
      /\ other = MemoryCost(Len(memory')) - MemoryCost(Len(grown))
  BY <1>5, <1>6 DEF Expansion, ExpansionCost
<1>9. Settle(accounts, 3 + 3 * Words(stack[3]) + first + other, pc + 1) /\ UNCHANGED storage
  BY DEF MCopy
<1> HIDE DEF grown, first, other
<1>10. Growth = first + other
  BY <1>7, <1>8 DEF Growth
<1>11. /\ Growth \in Nat
       /\ 3 + 3 * Words(stack[3]) + first + other \in Nat
       /\ 3 + 3 * Words(stack[3]) + first + other >= Growth
  BY <1>2, <1>3, <1>10
<1> QED
  BY <1>3, <1>5, <1>9, <1>11, PlainPriced

\* The instructions that leave memory, accounts and slots alone have any price.
LEMMA PurePriced ==
    ASSUME BuffersOK, gas \in Nat,
           \/ ComputeAlu \/ PushContext \/ Dup \/ CallDataLoad
           \/ \E n \in 0 .. 32 : Push(n)
           \/ TLoad \/ Swap \/ Pop \/ TStore \/ Jump \/ JumpDest \/ Stop \/ Invalid
    PROVE  Priced
<1>1. ASSUME UNCHANGED <<memory, storage>>, NEW cost \in Nat, NEW next,
             Settle(accounts, cost, next)
      PROVE  Priced
  BY <1>1, GrowthNone, PlainPriced
<1>2. ASSUME NEW n, NEW w, NEW cost \in Nat, NEW next, Compute(n, w, accounts, cost, next),
             UNCHANGED storage
      PROVE  Priced
  BY <1>1, <1>2 DEF Compute
<1>3. CASE ComputeAlu
  BY <1>2, <1>3, AluCostNat DEF ComputeAlu
<1>4. CASE PushContext
  BY <1>2, <1>4, 2 \in Nat DEF PushContext
<1>5. CASE Dup
  BY <1>2, <1>5, 3 \in Nat DEF Dup
<1>6. CASE CallDataLoad
  BY <1>2, <1>6, 3 \in Nat DEF CallDataLoad
<1>7. ASSUME NEW n \in 0 .. 32, Push(n)
      PROVE  Priced
  BY <1>2, <1>7, (IF n = 0 THEN 2 ELSE 3) \in Nat DEF Push
<1>8. CASE TLoad
  BY <1>2, <1>8, 100 \in Nat DEF TLoad
<1>9. CASE Swap
  BY <1>1, <1>9, 3 \in Nat DEF Swap
<1>10. CASE Pop
  BY <1>1, <1>10, 2 \in Nat DEF Pop
<1>11. CASE TStore
  BY <1>1, <1>11, 100 \in Nat DEF TStore
<1>12. CASE Jump
  BY <1>1, <1>12, (IF Opcode = "JUMP" THEN 8 ELSE 10) \in Nat DEF Jump
<1>13. CASE JumpDest
  BY <1>1, <1>13, 1 \in Nat DEF JumpDest, effects
<1>14. CASE Stop
  BY <1>1, <1>14, 0 \in Nat DEF Stop
<1>15. CASE Invalid
  BY <1>1, <1>15 DEF Invalid
<1> QED
  BY <1>3, <1>4, <1>5, <1>6, <1>7, <1>8, <1>9, <1>10, <1>11, <1>12, <1>13, <1>14, <1>15

\* The instructions that read an account pay for loading it, the contract's own apart.
LEMMA QueryPriced ==
    ASSUME BuffersOK, QueryAccount \/ SelfBalance
    PROVE  Priced
<1>1. Len(memory') \in Nat /\ Growth = 0
  BY GrowthNone DEF QueryAccount, SelfBalance, Compute
<1>2. Writing(0)
  BY DEF Writing, QueryAccount, SelfBalance
<1>3. ASSUME NEW a, NEW cost \in Nat, NEW next, Settle(Touched(accounts, a), cost, next),
             cost >= AccountToll(a)
      PROVE  Priced
  <2>1. Loading(Touched(accounts, a), AccountToll(a)) /\ AccountToll(a) \in Nat
    BY TollsNat DEF Loading
  <2>2. cost >= AccountToll(a) + 0 + Growth
    BY <1>1, <1>3, <2>1
  <2> QED
    BY <1>1, <1>2, <1>3, <2>1, <2>2, PricedHow
<1>4. CASE QueryAccount
  <2>1. /\ AccessCost(accounts, stack[1]) \in Nat
        /\ AccessCost(accounts, stack[1]) >= AccountToll(stack[1])
    BY DEF AccessCost, AccountToll
  <2> QED
    BY <1>3, <1>4, <2>1 DEF QueryAccount, Compute
<1>5. CASE SelfBalance
  <2>1. AccountToll(address) = 0
    BY DEF AccountToll, FreeAccounts
  <2> QED
    BY <1>3, <1>5, <2>1 DEF SelfBalance, Compute
<1> QED
  BY <1>4, <1>5

\* SLOAD and SSTORE pay for the slot.
LEMMA SlotsPriced ==
    ASSUME BuffersOK, SLoad \/ SStore
    PROVE  Priced
<1>1. Len(memory') \in Nat /\ Growth = 0
  BY GrowthNone DEF SLoad, SStore, Compute
<1>2. ASSUME NEW k, NEW v, NEW cost \in Nat, NEW next, Settle(accounts, cost, next),
             storage' = Put(storage, address, AfterStore(SlotsOf(address), k, v, 0)),
             cost >= WarmToll(k) + WriteToll(k, v)
      PROVE  Priced
  <2>1. WarmToll(k) \in Nat /\ WriteToll(k, v) \in Nat
    BY TollsNat
  <2>2. Loading(accounts, 0) /\ Writing(WarmToll(k) + WriteToll(k, v))
    BY <1>2 DEF Loading, Writing
  <2>3. cost >= 0 + (WarmToll(k) + WriteToll(k, v)) + Growth
    BY <1>1, <1>2, <2>1
  <2> QED
    BY <1>1, <1>2, <2>2, <2>3, PricedHow
<1>3. CASE SLoad
  <2> DEFINE slot == Loaded(SlotsOf(address), stack[1], 0)
  <2>1. AfterLoad(SlotsOf(address), stack[1], 0) =
            AfterStore(SlotsOf(address), stack[1], slot.value, 0)
    BY DEF AfterLoad, AfterStore
  <2>2. WriteToll(stack[1], slot.value) = 0
    BY DEF WriteToll
  <2>3. SLoadCost(slot) \in Nat /\ SLoadCost(slot) >= WarmToll(stack[1]) + 0
    BY DEF SLoadCost, WarmToll
  <2> QED
    BY <1>2, <1>3, <2>1, <2>2, <2>3 DEF SLoad, Compute
<1>4. CASE SStore
  <2> DEFINE slot == Loaded(SlotsOf(address), stack[1], 0)
  <2>1. /\ SStoreCost(slot, stack[2]) \in Nat
        /\ SStoreCost(slot, stack[2]) >= WarmToll(stack[1]) + WriteToll(stack[1], stack[2])
    BY DEF SStoreCost, WarmToll, WriteToll
  <2> QED
    BY <1>2, <1>4, <2>1 DEF SStore
<1> QED
  BY <1>3, <1>4

\* Every instruction that does not fail is charged at least for what it adds.
LEMMA ExecutePriced ==
    ASSUME BuffersOK, gas \in Nat, Execute
    PROVE  Priced \/ Failed \/ Finish
BY MemoryPriced, CopyPriced, MCopyPriced, PurePriced, QueryPriced, SlotsPriced, FailingSteps
   DEF Execute

-------------------------------------------------------------------------------
(* The invariant: the bill is paid, with the sets that it counts finite.       *)

\* What the run owes for what it has accumulated, its deployed code apart.
Bill ==
    IntrinsicGas(tx) + MemoryCost(Len(memory))
        + AccountsDue(accounts) + SlotsDue(SlotsOf(address))

\* What it owes for the code it has deployed.
Deposit == IF phase = "idle" /\ IsCreation(tx) THEN 200 * Len(output) ELSE 0

\* The invariant: it has been paid, and everything can be counted.
Paid ==
    Accountable =>
        /\ FiniteAccounts(accounts) /\ FiniteSlots(SlotsOf(address))
        /\ tx.gas - gas >= Bill + Deposit

\* A run that is accountable runs one of Transactions.
LEMMA AccountableTransaction ==
    ASSUME Control, Accountable
    PROVE  /\ tx \in Transactions /\ IntrinsicGas(tx) \in Nat
           /\ tx.gas \in Nat /\ gas \in Nat /\ MemoryCost(Len(memory)) \in Nat
<1>1. result.status # "none"
  BY RunningTransaction DEF Accountable
<1>2. tx \in Transactions /\ gas \in 0 .. tx.gas
  BY <1>1 DEF Control, ControlTypeOK
<1>3. tx.gas \in Nat
  BY <1>2, TransactionsAssumption DEF Usize
<1>4. MemoryCost(Len(memory)) \in Nat
  BY MemoryCostMonotone DEF Control, BuffersOK
<1> QED
  BY <1>2, <1>3, <1>4, IntrinsicGasNat

\* Under it, everything is paid for.
LEMMA PaidImplies ==
    ASSUME Control, Paid
    PROVE  EverythingPaidFor
<1> SUFFICES ASSUME Accountable
             PROVE  EverythingPaidFor
  BY DEF EverythingPaidFor
<1> DEFINE a == Cardinality(NewAccounts(accounts))
           b == Cardinality(NewSlots(SlotsOf(address)))
           c == Cardinality(Rewritten(SlotsOf(address)))
           d == Cardinality(Filled(SlotsOf(address)))
           i == IntrinsicGas(tx)
           m == MemoryCost(Len(memory))
           e == Deposit
<1>1. a \in Nat /\ b \in Nat /\ c \in Nat /\ d \in Nat
  BY FS_CardinalityType DEF Paid, FiniteAccounts, FiniteSlots
<1>2. i \in Nat /\ m \in Nat /\ tx.gas \in Nat /\ gas \in Nat
  BY AccountableTransaction
<1>3. e \in Nat
  BY DEF Deposit, Control, BuffersOK
<1>4. tx.gas - gas >= i + m + (2600 * a) + (2100 * b + 2900 * c + 20000 * d) + e
  BY DEF Paid, Bill, AccountsDue, SlotsDue
<1> HIDE DEF a, b, c, d, i, m, e
<1>5. tx.gas - gas >= i + m + 2600 * a + 2100 * b + 2900 * c + 20000 * d + e
  BY <1>1, <1>2, <1>3, <1>4
<1>6. /\ Cardinality(Warmed(accounts, opening.accounts) \ FreeAccounts) = a
      /\ Cardinality(Warmed(SlotsOf(address), OwnSlotsBefore)) = b
      /\ Cardinality(Dirtied \ Fresh(Dirtied)) = c
      /\ Cardinality(Fresh(Dirtied)) = d
  BY DueTerms DEF a, b, c, d
<1>7. /\ IntrinsicGas(tx) = i /\ MemoryCost(Len(memory)) = m
      /\ (IF phase = "idle" /\ IsCreation(tx) THEN 200 * Len(output) ELSE 0) = e
  BY DEF i, m, e, Deposit
<1> QED
  BY <1>5, <1>6, <1>7 DEF EverythingPaidFor

\* What pay_gas_cost does when it succeeds.
LEMMA PayGasOk ==
    ASSUME NEW acc, NEW t, NEW g, NEW cost, NEW r, r = PayGas(acc, t, g, cost),
           r.status = "ok"
    PROVE  ~(g < cost) /\ r = Receipt("ok", g - cost, Debited(acc, t.from, Fee(t, cost)))
BY DEF PayGas, DecreaseBalance, Receipt

\* While the transaction and its opening stay the same, the bill only depends on
\* the accounts and the slots.
LEMMA SameTerms ==
    ASSUME UNCHANGED <<tx, address, opening>>
    PROVE  /\ FiniteAccounts(accounts)' <=> FiniteAccounts(accounts')
           /\ AccountsDue(accounts)' = AccountsDue(accounts')
           /\ FiniteSlots(SlotsOf(address))' <=> FiniteSlots(SlotsOf(address)')
           /\ SlotsDue(SlotsOf(address))' = SlotsDue(SlotsOf(address)')
<1>1. NewAccounts(accounts)' = NewAccounts(accounts')
  BY DEF NewAccounts, Warmed, FreeAccounts
<1>2. OwnSlotsBefore' = OwnSlotsBefore
  BY DEF OwnSlotsBefore
<1>3. /\ NewSlots(SlotsOf(address))' = NewSlots(SlotsOf(address)')
      /\ Rewritten(SlotsOf(address))' = Rewritten(SlotsOf(address)')
      /\ Filled(SlotsOf(address))' = Filled(SlotsOf(address)')
  BY <1>2 DEF NewSlots, Rewritten, Filled, Warmed, Before
<1> QED
  BY <1>1, <1>3 DEF FiniteAccounts, AccountsDue, FiniteSlots, SlotsDue

\* While the transaction runs there is no deposit to pay yet.
LEMMA PaidRunning ==
    ASSUME Control, Paid, phase = "running"
    PROVE  /\ FiniteAccounts(accounts) /\ FiniteSlots(SlotsOf(address))
           /\ tx.gas - gas >= Bill /\ Bill \in Nat
<1>1. Accountable /\ Deposit = 0
  BY DEF Accountable, Deposit
<1>2. FiniteAccounts(accounts) /\ FiniteSlots(SlotsOf(address))
  BY <1>1 DEF Paid
<1>3. Bill \in Nat
  BY <1>1, <1>2, AccountableTransaction, DueNat DEF Bill
<1>4. tx.gas - gas >= Bill + Deposit
  BY <1>1 DEF Paid
<1> QED
  BY <1>1, <1>2, <1>3, <1>4

\* The accounts that a charged instruction leaves add its toll to the bill ...
LEMMA LoadingDue ==
    ASSUME FiniteAccounts(accounts), NEW acc, NEW toll, Loading(acc, toll), NEW cost
    PROVE  /\ FiniteAccounts(Debited(acc, tx.from, cost))
           /\ AccountsDue(Debited(acc, tx.from, cost)) <= AccountsDue(accounts) + toll
           /\ toll \in Nat
<1>1. CASE acc = accounts /\ toll = 0
  <2>1. /\ FiniteAccounts(Debited(acc, tx.from, cost))
        /\ AccountsDue(Debited(acc, tx.from, cost)) <= AccountsDue(accounts)
    BY <1>1, DebitedDue
  <2>2. AccountsDue(accounts) \in Nat
    BY DueNat
  <2> QED
    BY <1>1, <2>1, <2>2
<1>2. ASSUME NEW a, acc = Touched(accounts, a), toll = AccountToll(a)
      PROVE  /\ FiniteAccounts(Debited(acc, tx.from, cost))
             /\ AccountsDue(Debited(acc, tx.from, cost)) <= AccountsDue(accounts) + toll
             /\ toll \in Nat
  BY <1>2, TouchedDue, TollsNat
<1> QED
  BY <1>1, <1>2 DEF Loading

\* ... and so do the slots.
LEMMA WritingDue ==
    ASSUME Since, phase = "running", FiniteSlots(SlotsOf(address)), UNCHANGED address,
           NEW toll, Writing(toll)
    PROVE  /\ FiniteSlots(SlotsOf(address)')
           /\ SlotsDue(SlotsOf(address)') <= SlotsDue(SlotsOf(address)) + toll
           /\ toll \in Nat
<1>1. CASE UNCHANGED storage /\ toll = 0
  <2>1. SlotsOf(address)' = SlotsOf(address)
    BY <1>1 DEF SlotsOf
  <2>2. SlotsDue(SlotsOf(address)) \in Nat
    BY DueNat
  <2> QED
    BY <1>1, <2>1, <2>2
<1>2. ASSUME NEW k, NEW v, toll = WarmToll(k) + WriteToll(k, v),
             storage' = Put(storage, address, AfterStore(SlotsOf(address), k, v, 0))
      PROVE  /\ FiniteSlots(SlotsOf(address)')
             /\ SlotsDue(SlotsOf(address)') <= SlotsDue(SlotsOf(address)) + toll
             /\ toll \in Nat
  <2> DEFINE slots == AfterStore(SlotsOf(address), k, v, 0)
  <2>1. SlotsOf(address)' = slots
    BY <1>2 DEF SlotsOf, Put
  <2>2. /\ FiniteSlots(slots)
        /\ SlotsDue(slots) <= SlotsDue(SlotsOf(address)) + WarmToll(k) + WriteToll(k, v)
    BY AccessDue
  <2>3. WarmToll(k) \in Nat /\ WriteToll(k, v) \in Nat /\ SlotsDue(SlotsOf(address)) \in Nat
    BY TollsNat, DueNat
  <2> HIDE DEF slots
  <2> QED
    BY <1>2, <2>1, <2>2, <2>3
<1> QED
  BY <1>1, <1>2 DEF Writing

\* An instruction that is charged keeps the bill paid ...
LEMMA PricedPaid ==
    ASSUME Control, Since, Paid, phase = "running", Priced
    PROVE  Paid'
<1>1. /\ FiniteAccounts(accounts) /\ FiniteSlots(SlotsOf(address))
      /\ tx.gas - gas >= Bill
  BY PaidRunning
<1>2. PICK acc, cost, next, tollA, tollS :
          /\ cost \in Nat /\ Settle(acc, cost, next)
          /\ Loading(acc, tollA) /\ Writing(tollS)
          /\ cost >= tollA + tollS + Growth
  BY DEF Priced
<1> DEFINE r == PayGas(acc, tx, gas, cost)
           now == Debited(acc, tx.from, Fee(tx, cost))
<1>3. /\ accounts' = r.accounts /\ gas' = r.gas /\ UNCHANGED <<tx, address, opening>>
      /\ IF r.status = "ok" THEN UNCHANGED phase ELSE Ends(r.status)
  BY <1>2 DEF Settle, contract
<1>4. CASE r.status # "ok"
  <2> HIDE DEF r
  <2>1. ~Accountable'
    BY <1>3, <1>4 DEF Accountable, Ends, Failure, Outcome
  <2> QED
    BY <2>1 DEF Paid
<1>5. CASE r.status = "ok"
  <2>1. accounts' = now /\ gas' = gas - cost /\ UNCHANGED phase
    BY <1>3, <1>5, PayGasOk DEF Receipt
  <2>2. /\ FiniteAccounts(accounts') /\ AccountsDue(accounts') <= AccountsDue(accounts) + tollA
        /\ tollA \in Nat
    BY <1>1, <1>2, <2>1, LoadingDue
  <2>3. /\ FiniteSlots(SlotsOf(address)')
        /\ SlotsDue(SlotsOf(address)') <= SlotsDue(SlotsOf(address)) + tollS
        /\ tollS \in Nat
    BY <1>1, <1>2, <1>3, WritingDue
  <2>4. /\ IntrinsicGas(tx) \in Nat /\ tx.gas \in Nat /\ gas \in Nat
        /\ MemoryCost(Len(memory)) \in Nat
    BY AccountableTransaction DEF Accountable
  <2>5. MemoryCost(Len(memory')) \in Nat
    BY MemoryCostMonotone DEF Priced
  <2>6. /\ AccountsDue(accounts) \in Nat /\ AccountsDue(accounts') \in Nat
        /\ SlotsDue(SlotsOf(address)) \in Nat /\ SlotsDue(SlotsOf(address)') \in Nat
    BY <1>1, <2>2, <2>3, DueNat
  <2>7. tx.gas - (gas - cost) >=
            IntrinsicGas(tx) + MemoryCost(Len(memory')) + AccountsDue(accounts')
                + SlotsDue(SlotsOf(address)')
    <3> DEFINE a0 == AccountsDue(accounts)
               a1 == AccountsDue(accounts')
               s0 == SlotsDue(SlotsOf(address))
               s1 == SlotsDue(SlotsOf(address)')
               m0 == MemoryCost(Len(memory))
               m1 == MemoryCost(Len(memory'))
               i  == IntrinsicGas(tx)
    <3>1. /\ tx.gas - gas >= i + m0 + a0 + s0 /\ cost >= tollA + tollS + (m1 - m0)
          /\ a1 <= a0 + tollA /\ s1 <= s0 + tollS
      BY <1>1, <1>2, <2>2, <2>3 DEF Bill, Growth
    <3>2. /\ a0 \in Nat /\ a1 \in Nat /\ s0 \in Nat /\ s1 \in Nat /\ m0 \in Nat /\ m1 \in Nat
          /\ i \in Nat
      BY <2>4, <2>5, <2>6
    <3> HIDE DEF a0, a1, s0, s1, m0, m1, i
    <3>3. tx.gas - (gas - cost) >= i + m1 + a1 + s1
      BY <1>2, <2>2, <2>3, <2>4, <3>1, <3>2
    <3> QED
      BY <3>3 DEF a1, s1, m1, i
  <2>8. Deposit' = 0
    BY <2>1 DEF Deposit
  <2>9. Bill' = IntrinsicGas(tx) + MemoryCost(Len(memory')) + AccountsDue(accounts')
                    + SlotsDue(SlotsOf(address)')
    BY <1>3, SameTerms DEF Bill
  <2>10. Bill' \in Nat
    BY <2>4, <2>5, <2>6, <2>9
  <2>11. tx'.gas - gas' >= Bill' + Deposit'
    BY <1>3, <2>1, <2>7, <2>8, <2>9, <2>10
  <2> QED
    BY <1>3, <2>2, <2>3, <2>11, SameTerms DEF Paid
<1> QED
  BY <1>4, <1>5

\* ... one that fails leaves nothing to account for ...
LEMMA FailedPaid ==
    ASSUME Failed
    PROVE  Paid'
<1>1. ~Accountable'
  BY DEF Failed, Failures, Abort, Ends, Failure, Outcome, Accountable
<1> QED
  BY <1>1 DEF Paid

\* ... the epilogue pays for the code it deploys and loads no account that is not
\* free ...
LEMMA FinishPaid ==
    ASSUME Control, Paid, phase = "running", Finish
    PROVE  Paid'
<1>1. /\ FiniteAccounts(accounts) /\ FiniteSlots(SlotsOf(address))
      /\ tx.gas - gas >= Bill /\ Bill \in Nat
  BY PaidRunning
<1>2. /\ UNCHANGED <<tx, address, opening, storage, memory, output>>
      /\ accounts' = Epilogue.accounts /\ gas' = Epilogue.gas
      /\ Epilogue.status # "ok" => Ends(Epilogue.status)
      /\ Epilogue.status = "ok" => phase' = "idle"
  BY DEF Finish, contract, effects
<1>3. /\ SlotsOf(address)' = SlotsOf(address) /\ Len(memory') = Len(memory)
      /\ IntrinsicGas(tx)' = IntrinsicGas(tx)
  BY <1>2 DEF SlotsOf
<1>4. /\ IntrinsicGas(tx) \in Nat /\ tx.gas \in Nat /\ gas \in Nat
      /\ MemoryCost(Len(memory)) \in Nat
  BY AccountableTransaction DEF Accountable
<1>5. CASE Epilogue.status # "ok"
  <2>1. ~Accountable'
    BY <1>2, <1>5 DEF Accountable, Ends, Failure, Outcome
  <2> QED
    BY <2>1 DEF Paid
<1>6. CASE Epilogue.status = "ok" /\ ~IsCreation(tx)
  <2>1. accounts' = accounts /\ gas' = gas
    BY <1>2, <1>6 DEF Epilogue, Receipt
  <2>2. Deposit' = 0
    BY <1>2, <1>6 DEF Deposit
  <2>3. Bill' = Bill
    BY <1>2, <1>3, <2>1, SameTerms DEF Bill
  <2>4. tx'.gas - gas' >= Bill' + Deposit'
    BY <1>1, <1>2, <2>1, <2>2, <2>3
  <2> QED
    BY <1>1, <1>2, <1>3, <2>1, <2>4, SameTerms DEF Paid
<1>7. CASE Epilogue.status = "ok" /\ IsCreation(tx)
  <2> DEFINE cost == 200 * Len(output)
             paid == PayGas(accounts, tx, gas, cost)
             rest == DecreaseBalance(Created(paid.accounts), tx.from, tx.value, paid.gas)
  <2>1. paid.status = "ok" /\ Epilogue = rest
    BY <1>7 DEF Epilogue
  <2>2. paid.gas = gas - cost /\ paid.accounts = Debited(accounts, tx.from, Fee(tx, cost))
    BY <2>1, PayGasOk DEF Receipt
  <2>3. rest.status = "ok"
    BY <1>7, <2>1
  <2>4. rest.gas = paid.gas
        /\ rest.accounts = Debited(Created(paid.accounts), tx.from, tx.value)
    BY <2>3 DEF DecreaseBalance, Receipt
  <2>5. /\ gas' = gas - cost
        /\ accounts' = Debited(Created(Debited(accounts, tx.from, Fee(tx, cost))),
                               tx.from, tx.value)
    BY <1>2, <2>1, <2>2, <2>4
  <2> HIDE DEF paid, rest
  <2>6. \A k \in DOMAIN accounts' : accounts'[k].warm =>
            k \in FreeAccounts \/ (k \in DOMAIN accounts /\ accounts[k].warm)
    <3> DEFINE first == Debited(accounts, tx.from, Fee(tx, cost))
               made  == Created(first)
    <3>1. \A k \in DOMAIN first : first[k].warm =>
              k = tx.from \/ (k \in DOMAIN accounts /\ accounts[k].warm)
      BY DEF Debited, Touched, AfterStore, AfterLoad, Loaded, Put, Entry
    <3> HIDE DEF first
    <3>2. \A k \in DOMAIN made : made[k].warm =>
              k = address \/ (k \in DOMAIN first /\ first[k].warm)
      BY DEF Created, AfterStore, Put, Entry
    <3> HIDE DEF made
    <3>3. \A k \in DOMAIN Debited(made, tx.from, tx.value) :
              Debited(made, tx.from, tx.value)[k].warm =>
                  k = tx.from \/ (k \in DOMAIN made /\ made[k].warm)
      BY DEF Debited, Touched, AfterStore, AfterLoad, Loaded, Put, Entry
    <3>4. accounts' = Debited(made, tx.from, tx.value)
      BY <2>5 DEF made, first
    <3> QED
      BY <3>1, <3>2, <3>3, <3>4 DEF FreeAccounts
  <2>7. NewAccounts(accounts') \subseteq NewAccounts(accounts)
    BY <2>6 DEF NewAccounts, Warmed
  <2>8. /\ FiniteAccounts(accounts') /\ AccountsDue(accounts') <= AccountsDue(accounts)
        /\ AccountsDue(accounts') \in Nat /\ AccountsDue(accounts) \in Nat
    BY <1>1, <2>7, CountLess DEF FiniteAccounts, AccountsDue
  <2>9. cost \in Nat /\ Deposit' = cost
    BY <1>2, <1>7 DEF Deposit, Control, BuffersOK
  <2>10. SlotsDue(SlotsOf(address)) \in Nat
    BY <1>1, DueNat
  <2>11. /\ Bill = IntrinsicGas(tx) + MemoryCost(Len(memory)) + AccountsDue(accounts)
                       + SlotsDue(SlotsOf(address))
         /\ Bill' = IntrinsicGas(tx) + MemoryCost(Len(memory)) + AccountsDue(accounts')
                        + SlotsDue(SlotsOf(address))
    BY <1>2, <1>3, SameTerms DEF Bill
  <2>12. Bill' \in Nat /\ Bill' <= Bill
    BY <1>4, <2>8, <2>10, <2>11
  <2> HIDE DEF cost
  <2>13. tx'.gas - gas' >= Bill' + Deposit'
    BY <1>1, <1>2, <1>4, <2>5, <2>9, <2>12
  <2> QED
    BY <1>1, <1>2, <1>3, <2>8, <2>13, SameTerms DEF Paid
<1> QED
  BY <1>5, <1>6, <1>7

\* An empty memory is free.
LEMMA NoMemoryFree == MemoryCost(0) = 0
<1> DEFINE q == Words(0)
<1>1. WordBytes \in Nat \ {0} /\ 0 + WordBytes - 1 \in Nat
  BY WordBytesAssumption
<1>2. q \in Nat /\ WordBytes * q <= WordBytes - 1
  BY <1>1, Division DEF Words
<1> HIDE DEF q
<1>3. q >= 1 => WordBytes * q >= WordBytes
  BY <1>1, <1>2
<1>4. q = 0
  BY <1>1, <1>2, <1>3
<1> QED
  BY <1>4 DEF MemoryCost, q

\* ... and the prologue pays for itself: it loads the accounts that are free.
LEMMA RunPaid ==
    ASSUME Control, NEW t \in Transactions, Run(t)
    PROVE  Paid'
<1> DEFINE called == IF IsCreation(t) THEN accounts ELSE Touched(accounts, ContractAddress(t))
           acc == Touched(called, t.from)
           r   == Admission(acc, t)
<1>1. /\ accounts' = r.accounts /\ gas' = r.gas /\ tx' = t /\ address' = ContractAddress(t)
      /\ opening' = [accounts |-> accounts, storage |-> storage]
      /\ memory' = <<>> /\ UNCHANGED storage
      /\ IF r.status = "ok" THEN phase' = "running" ELSE Ends(r.status)
  BY DEF Run
<1>2. CASE r.status # "ok"
  <2> HIDE DEF r
  <2>1. ~Accountable'
    BY <1>1, <1>2 DEF Accountable, Ends, Failure, Outcome
  <2> QED
    BY <2>1 DEF Paid
<1>3. CASE r.status = "ok"
  <2> DEFINE now == Debited(acc, t.from, Fee(t, IntrinsicGas(t)))
  <2>1. r = PayGas(acc, t, t.gas, IntrinsicGas(t))
    BY <1>3 DEF Admission, Receipt
  <2>2. accounts' = now /\ gas' = t.gas - IntrinsicGas(t) /\ phase' = "running"
    BY <1>1, <1>3, <2>1, PayGasOk DEF Receipt
  <2>3. \A k \in DOMAIN now : now[k].warm =>
            k \in {t.from, ContractAddress(t)} \/ (k \in DOMAIN accounts /\ accounts[k].warm)
    <3>1. \A k \in DOMAIN called : called[k].warm =>
              k = ContractAddress(t) \/ (k \in DOMAIN accounts /\ accounts[k].warm)
      BY DEF Touched, AfterLoad, Loaded, Put, Entry
    <3> HIDE DEF called
    <3>2. \A k \in DOMAIN acc : acc[k].warm =>
              k = t.from \/ (k \in DOMAIN called /\ called[k].warm)
      BY DEF Touched, AfterLoad, Loaded, Put, Entry
    <3> HIDE DEF acc
    <3>3. \A k \in DOMAIN now : now[k].warm =>
              k = t.from \/ (k \in DOMAIN acc /\ acc[k].warm)
      BY DEF Debited, Touched, AfterStore, AfterLoad, Loaded, Put, Entry
    <3> QED
      BY <3>1, <3>2, <3>3
  <2> HIDE DEF now, r
  <2>4. NewAccounts(accounts)' = {}
    <3>1. opening'.accounts = accounts
      BY <1>1
    <3>2. FreeAccounts' = {t.from, ContractAddress(t)}
      BY <1>1 DEF FreeAccounts
    <3> QED
      BY <2>2, <2>3, <3>1, <3>2 DEF NewAccounts, Warmed
  <2>5. OwnSlotsBefore' = SlotsOf(address)'
    BY <1>1 DEF OwnSlotsBefore, SlotsOf
  <2>6. /\ NewSlots(SlotsOf(address))' = {}
        /\ Rewritten(SlotsOf(address))' = {} /\ Filled(SlotsOf(address))' = {}
    BY <2>5 DEF NewSlots, Warmed, Rewritten, Filled, Before, Loaded
  <2>7. /\ FiniteAccounts(accounts)' /\ FiniteSlots(SlotsOf(address))'
        /\ AccountsDue(accounts)' = 0 /\ SlotsDue(SlotsOf(address))' = 0
    BY <2>4, <2>6, FS_EmptySet
       DEF FiniteAccounts, FiniteSlots, AccountsDue, SlotsDue
  <2>8. Len(memory') = 0 /\ IntrinsicGas(tx)' = IntrinsicGas(t)
    BY <1>1
  <2>9. IntrinsicGas(t) \in Nat /\ t.gas \in Nat
    BY IntrinsicGasNat, TransactionsAssumption DEF Usize
  <2>10. Bill' = IntrinsicGas(t) /\ Deposit' = 0
    BY <2>2, <2>7, <2>8, <2>9, NoMemoryFree DEF Bill, Deposit
  <2>11. tx'.gas - gas' >= Bill' + Deposit'
    BY <1>1, <2>2, <2>9, <2>10
  <2> QED
    BY <2>7, <2>11 DEF Paid
<1> QED
  BY <1>2, <1>3

\* Nothing has run in the world that Evm::new builds.
LEMMA InitPaid ==
    ASSUME Init
    PROVE  Paid
BY DEF Init, Paid, Accountable, Failure, Outcome

\* Every step keeps the run paid.
LEMMA NextPaid ==
    ASSUME Control, Since, Paid, [Next]_vars
    PROVE  Paid'
<1>1. CASE UNCHANGED vars
  <2>1. UNCHANGED <<accounts, storage, phase, tx, address, opening, gas, memory, output, result>>
    BY <1>1 DEF vars, contract, effects
  <2> QED
    BY <2>1, SameTerms
       DEF Paid, Accountable, Bill, Deposit, SlotsOf
<1>2. ASSUME NEW t \in Transactions, Run(t)
      PROVE  Paid'
  BY <1>2, RunPaid
<1>3. CASE Execute
  <2>1. phase = "running" /\ gas \in Nat /\ BuffersOK
    BY <1>3, ExecuteRuns, RunningTransaction DEF Control
  <2> QED
    BY <1>3, <2>1, ExecutePriced, PricedPaid, FailedPaid, FinishPaid
<1> QED
  BY <1>1, <1>2, <1>3 DEF Next

\* In either build, whatever its program, a run has paid at any time, and when it
\* succeeds, for all the memory it grew, every account and slot that it was first to
\* access, every clean slot that it changed and the code that it deployed: no order
\* of accesses or extensions escapes its price.
THEOREM EverythingAlwaysPaidFor == Spec => []EverythingPaidFor
<1>1. Init => Control /\ Since /\ Paid
  BY InitControl, InitPaid DEF Init, Since
<1>2. Control /\ Since /\ Paid /\ [Next]_vars => (Control /\ Since /\ Paid)'
  BY NextControl, NextSince, NextPaid
<1>3. Control /\ Paid => EverythingPaidFor
  BY PaidImplies
<1> QED
  BY <1>1, <1>2, <1>3, PTL DEF Spec

===============================================================================
