-------------------------- MODULE InstructionProofs ---------------------------
(***************************************************************************)
(* What every instruction does to the program counter, the stack, the gas  *)
(* and the memory.                                                         *)
(***************************************************************************)
EXTENDS TypeProofs, SequenceTheorems

-------------------------------------------------------------------------------
(* The boundaries of instructions.                                             *)

\* An instruction begins at i of a program when `begins' tells where others do.
Begins(program, begins, i) ==
    \/ i = 0
    \/ i < Len(program) /\ program[i + 1] = 91
    \/ \E j \in 0 .. i - 1 : j + Width(program[j + 1]) = i /\ begins[j]

\* The recursion that defines Boundary has a solution: the least set of places that
\* holds 0, every byte 0x5B and what follows an instruction at one of its places.
LEMMA BoundaryRecursion ==
    ASSUME NEW program, Len(program) \in Nat
    PROVE  \A i \in 0 .. Len(program) :
              Boundary(program)[i] <=> Begins(program, Boundary(program), i)
<1> DEFINE places == 0 .. Len(program)
           Closed(T) ==
               /\ 0 \in T
               /\ \A i \in places : i < Len(program) /\ program[i + 1] = 91 => i \in T
               /\ \A i \in places : \A j \in 0 .. i - 1 :
                     j \in T /\ j + Width(program[j + 1]) = i => i \in T
           B == {i \in places : \A T \in SUBSET places : Closed(T) => i \in T}
           f == [i \in places |-> i \in B]
<1>1. Closed(B)
  OBVIOUS
<1>2. ASSUME NEW i \in B
      PROVE  Begins(program, f, i)
  <2>1. SUFFICES ASSUME ~Begins(program, f, i)
                 PROVE  FALSE
    OBVIOUS
  <2> DEFINE T == B \ {i}
  <2>2. T \in SUBSET places /\ i \notin T /\ i \in places
    OBVIOUS
  <2>3. Closed(T)
    <3>1. 0 \in T
      BY <1>1, <2>1 DEF Begins
    <3>2. ASSUME NEW k \in places, k < Len(program), program[k + 1] = 91
          PROVE  k \in T
      BY <1>1, <2>1, <3>2 DEF Begins
    <3>3. ASSUME NEW k \in places, NEW j \in 0 .. k - 1, j \in T,
                 j + Width(program[j + 1]) = k
          PROVE  k \in T
      <4>1. k \in B /\ f[j]
        BY <1>1, <3>3
      <4> QED
        BY <2>1, <3>3, <4>1 DEF Begins
    <3> QED
      BY <3>1, <3>2, <3>3
  <2> QED
    BY <2>2, <2>3
<1>3. ASSUME NEW i \in places, Begins(program, f, i)
      PROVE  i \in B
  <2>1. 0 \in B /\ (i < Len(program) /\ program[i + 1] = 91 => i \in B)
    BY <1>1
  <2>2. ASSUME NEW j \in 0 .. i - 1, j + Width(program[j + 1]) = i, f[j]
        PROVE  i \in B
    <3>1. j \in places
      BY <1>3, <2>2
    <3>2. j \in B
      BY <2>2, <3>1
    <3> QED
      BY <1>1, <2>2, <3>2
  <2> QED
    BY <1>3, <2>1, <2>2 DEF Begins
<1>4. f = [i \in places |-> Begins(program, f, i)]
  <2>1. \A i \in places : i \in B <=> Begins(program, f, i)
    BY <1>2, <1>3
  <2>2. \A i \in places : Begins(program, f, i) \in BOOLEAN
    BY DEF Begins
  <2> HIDE DEF B
  <2>3. \A i \in places : (i \in B) = Begins(program, f, i)
    BY <2>1, <2>2
  <2> QED
    BY <2>3
<1> HIDE DEF f
<1>5. Boundary(program) = [i \in places |-> Begins(program, Boundary(program), i)]
  BY <1>4 DEF Boundary, Begins
<1> QED
  BY <1>5

\* What the proof of Aligned needs of it: the places where an instruction begins.
LEMMA Beginnings ==
    ASSUME NEW program, Len(program) \in Nat
    PROVE  /\ Boundary(program)[0]
           /\ \A dest \in Nat : dest < Len(program) /\ program[dest + 1] = 91 =>
                 Boundary(program)[dest]
           /\ \A i \in Nat : \A n \in Nat \ {0} :
                 /\ i + n <= Len(program) /\ Width(program[i + 1]) = n
                 /\ Boundary(program)[i]
                 => Boundary(program)[i + n]
<1>1. \A i \in 0 .. Len(program) :
          Boundary(program)[i] <=> Begins(program, Boundary(program), i)
  BY BoundaryRecursion
<1>2. ASSUME NEW i \in Nat, NEW n \in Nat \ {0}, i + n <= Len(program),
             Width(program[i + 1]) = n, Boundary(program)[i]
      PROVE  Boundary(program)[i + n]
  <2>1. i + n \in 0 .. Len(program) /\ i \in 0 .. (i + n) - 1
    BY <1>2
  <2> QED
    BY <1>1, <1>2, <2>1 DEF Begins
<1> QED
  BY <1>1, <1>2 DEF Begins

-------------------------------------------------------------------------------
(* Alignment.                                                                  *)

\* The code of every account has a length, and so does the code that runs: what
\* the epilogue deploys is an output.
Lengths ==
    /\ \A a : Len(AccountIn(accounts, a).code) \in Nat
    /\ Len(code) \in Nat

\* The invariant: the program counter is aligned.
AlignedCounter == pc \in Nat /\ Aligned

\* The codes of the world Evm::new builds have lengths ...
LEMMA InitLengths ==
    ASSUME Init
    PROVE  Lengths
<1>1. ASSUME NEW a
      PROVE  Len(AccountIn(accounts, a).code) \in Nat
  <2>1. CASE a \in DOMAIN GenesisAccounts
    <3>1. AccountIn(accounts, a) = GenesisAccounts[a]
      BY <2>1 DEF Init, AccountIn, Loaded, NewStorage, Entry
    <3>2. GenesisAccounts[a].code \in Seq(Byte)
      BY <2>1, GenesisAssumption DEF Accounts
    <3> QED
      BY <3>1, <3>2
  <2>2. CASE a \notin DOMAIN GenesisAccounts
    <3>1. AccountIn(accounts, a) = NoAccount
      BY <2>2 DEF Init, AccountIn, Loaded, NewStorage, Entry
    <3> QED
      BY <3>1 DEF NoAccount
  <2> QED
    BY <2>1, <2>2
<1> QED
  BY <1>1 DEF Init, Lengths

\* ... loading and debiting accounts changes none ...
LEMMA VisitedLengths ==
    ASSUME NEW before, NEW now, NEW payer, Visited(before, now, payer),
           \A a : Len(AccountIn(before, a).code) \in Nat
    PROVE  \A a : Len(AccountIn(now, a).code) \in Nat
BY DEF Visited

\* ... and what a creation deploys has one.
LEMMA NextLengths ==
    ASSUME Control, Lengths, [Next]_vars
    PROVE  Lengths'
<1>1. CASE UNCHANGED vars
  BY <1>1 DEF vars, contract, Lengths
<1>2. ASSUME NEW t \in Transactions, Run(t)
      PROVE  Lengths'
  <2>1. \A a : Len(AccountIn(accounts', a).code) \in Nat
    BY <1>2, RunVisits, VisitedOrder, VisitedLengths DEF Lengths
  <2>2. t.data \in Seq(Byte)
    BY TransactionsAssumption
  <2>3. code' = t.data \/ code' = AccountIn(accounts, ContractAddress(t)).code
    BY <1>2 DEF Run
  <2>4. Len(code') \in Nat
    BY <2>2, <2>3 DEF Lengths
  <2> QED
    BY <2>1, <2>4 DEF Lengths
<1>3. CASE Finish
  <2>1. UNCHANGED code
    BY <1>3 DEF Finish, contract
  <2>2. ASSUME NEW paid, Visited(accounts, paid, tx.from),
               Visited(Created(paid), accounts', tx.from)
        PROVE  \A a : Len(AccountIn(accounts', a).code) \in Nat
    <3>1. \A a : Len(AccountIn(paid, a).code) \in Nat
      BY <2>2, VisitedLengths DEF Lengths
    <3>2. \A a : AccountIn(Created(paid), a) =
              IF a = address THEN [balance |-> tx.value, code |-> output]
              ELSE AccountIn(paid, a)
      BY ValueAfterStore DEF Created, AccountIn
    <3>3. Len(output) \in Nat
      BY DEF Control, BuffersOK
    <3>4. \A a : Len(AccountIn(Created(paid), a).code) \in Nat
      BY <3>1, <3>2, <3>3
    <3> QED
      BY <2>2, <3>4, VisitedLengths
  <2>3. \A a : Len(AccountIn(accounts', a).code) \in Nat
    BY <1>3, <2>2, FinishVisits, VisitedLengths DEF Lengths
  <2> QED
    BY <2>1, <2>3 DEF Lengths
<1>4. CASE Confined
  BY <1>4, VisitedLengths DEF Confined, contract, Lengths
<1> QED
  BY <1>1, <1>2, <1>3, <1>4, ExecuteConfined DEF Next

\* The prologue starts at 0, every instruction goes on to the next one or to a
\* byte 0x5B, and nothing changes the code that runs.
LEMMA NextAligned ==
    ASSUME Lengths, AlignedCounter, [Next]_vars, Lengths'
    PROVE  AlignedCounter'
<1>1. CASE UNCHANGED vars
  BY <1>1 DEF vars, contract, AlignedCounter, Aligned
<1>2. ASSUME NEW t \in Transactions, Run(t)
      PROVE  AlignedCounter'
  <2>1. pc' = 0 /\ Len(code') \in Nat
    BY <1>2 DEF Run, Lengths
  <2>2. Boundary(code')[pc']
    BY <2>1, Beginnings
  <2> QED
    BY <2>1, <2>2 DEF AlignedCounter, Aligned
<1>3. CASE Execute
  <2>1. phase = "running" /\ pc \in Nat /\ Len(code) \in Nat
    BY <1>3, ExecuteRuns DEF AlignedCounter, Lengths
  <2>2. pc > Len(code) \/ Boundary(code)[pc]
    BY <2>1 DEF AlignedCounter, Aligned
  <2>3. Advances(pc') /\ UNCHANGED code
    BY <1>3, <2>1, ExecuteMoves DEF Moves
  <2>4. pc' \in Nat /\ (pc' > Len(code) \/ Boundary(code)[pc'])
    <3>1. CASE pc' = pc
      BY <2>1, <2>2, <3>1
    <3>2. ASSUME pc < Len(code), NEW n \in Nat \ {0}, Width(code[pc + 1]) = n, pc' = pc + n
          PROVE  pc' \in Nat /\ (pc' > Len(code) \/ Boundary(code)[pc'])
      <4>1. Boundary(code)[pc]
        BY <2>1, <2>2, <3>2
      <4>2. CASE pc + n <= Len(code)
        BY <2>1, <3>2, <4>1, <4>2, Beginnings
      <4>3. CASE ~(pc + n <= Len(code))
        BY <2>1, <3>2, <4>3
      <4> QED
        BY <4>2, <4>3
    <3>3. CASE JumpTarget(pc')
      BY <2>1, <3>3, Beginnings, UsizeAssumption DEF JumpTarget, Usize
    <3> QED
      BY <2>3, <3>1, <3>2, <3>3 DEF Advances
  <2> QED
    BY <2>3, <2>4 DEF AlignedCounter, Aligned
<1> QED
  BY <1>1, <1>2, <1>3 DEF Next

\* Whatever the program and its jumps, execution begins no instruction in the data
\* of a PUSH, unless it jumps to a byte 0x5B there, after which it stays on the
\* boundaries that decoding from that byte gives.
THEOREM AlwaysAligned == Spec => []Aligned
<1>1. Init => Control /\ Lengths /\ AlignedCounter
  <2>1. Init => phase = "idle" /\ pc = 0
    BY DEF Init
  <2>2. Init => AlignedCounter
    BY <2>1 DEF AlignedCounter, Aligned
  <2> QED
    BY <2>2, InitControl, InitLengths
<1>2. Control /\ Lengths /\ AlignedCounter /\ [Next]_vars =>
          (Control /\ Lengths /\ AlignedCounter)'
  BY NextControl, NextLengths, NextAligned
<1>3. AlignedCounter => Aligned
  BY DEF AlignedCounter
<1> QED
  BY <1>1, <1>2, <1>3, PTL DEF Spec

-------------------------------------------------------------------------------
(* The instructions that are paid for.                                         *)

\* The instructions that are paid for.
Completed ==
    \/ ComputeAlu \/ PushContext \/ Dup \/ Swap \/ Pop
    \/ \E n \in 0 .. 32 : Push(n)
    \/ CallDataLoad
    \/ QueryAccount \/ SelfBalance
    \/ MLoad \/ MStore \/ MStore8 \/ Copy \/ MCopy \/ Keccak256
    \/ \E n \in 0 .. 4 : Log(n)
    \/ Return \/ Revert
    \/ SLoad \/ SStore \/ TLoad \/ TStore
    \/ Jump \/ JumpDest \/ Stop \/ Invalid

\* A step of a transaction that is still under way after it is one of those.
LEMMA GoesOn ==
    ASSUME Decoding, phase' = "running", Next
    PROVE  Completed
<1>1. \A status, acc : ~Abort(status, acc)
  BY DEF Abort, Ends
<1>2. ~Finish /\ \A t : ~Run(t)
  BY DEF Finish, Run, Decoding
<1>3. ~ \/ StackUnderflow \/ StackOverflow \/ Unimplemented \/ CallDataOverflow
        \/ InvalidAddress \/ AccessFails \/ InvalidJump
  BY <1>1 DEF StackUnderflow, StackOverflow, Unimplemented, CallDataOverflow,
              InvalidAddress, AccessFails, InvalidJump
<1> QED
  BY <1>2, <1>3 DEF Next, Execute, Completed

\* Such an instruction has been paid for, and the program counter is where it says.
LEMMA PaidFor ==
    ASSUME phase' = "running", phase = "running",
           NEW acc, NEW cost, NEW next, Settle(acc, cost, next)
    PROVE  /\ pc' = next /\ gas' = gas - cost /\ ~(gas < cost)
           /\ UNCHANGED contract
<1> DEFINE r == PayGas(acc, tx, gas, cost)
<1>1. r.status = "ok" /\ pc' = next /\ gas' = r.gas /\ UNCHANGED contract
  BY DEF Settle, Ends
<1>2. ~(gas < cost)
  BY <1>1 DEF PayGas, Receipt
<1>3. r.gas = gas - cost
  BY <1>1, <1>2 DEF PayGas, Receipt, DecreaseBalance
<1> QED
  BY <1>1, <1>2, <1>3

\* GAS answers what pay_gas_cost will leave once GAS itself is paid for.
LEMMA GasStep ==
    ASSUME Typed, Next, Fetch({"GAS"}), phase' = "running"
    PROVE  stack'[1] = gas'
<1>1. Opcode = "GAS" /\ Decoding
  BY DEF Fetch
<1>2. Completed
  BY <1>1, GoesOn
<1>3. "GAS" \notin AluOps
  BY AluNames
<1>4. PushContext
  BY <1>1, <1>2, <1>3
     DEF Completed, ComputeAlu, Dup, Swap, Pop, Push, CallDataLoad, QueryAccount,
         SelfBalance, MLoad, MStore, MStore8, StoreBytes, Copy, MCopy, Keccak256, Log,
         Return, Revert, Halt, SLoad, SStore, TLoad, TStore, Jump, JumpDest, Stop,
         Invalid, AccessMemory, FetchAccess, Fetch, CopyOps
<1>5. Compute(0, ContextValue("GAS"), accounts, 2, pc + 1)
  BY <1>1, <1>4 DEF PushContext
<1>6. stack' = Replace(0, ContextValue("GAS")) /\ Settle(accounts, 2, pc + 1)
  BY <1>5 DEF Compute
<1>7. phase = "running" /\ gas \in Nat /\ Len(stack) \in Nat
  BY <1>1, RunningTransaction DEF Decoding, Typed, StackTyped
<1>8. gas' = gas - 2 /\ ~(gas < 2)
  BY <1>6, <1>7, PaidFor
<1>9. ContextValue("GAS") = IF gas < 2 THEN 0 ELSE gas - 2
  BY DEF ContextValue, Progress, TransactionOps, SizeOps, BlockOps, ProgressOps
<1>10. Replace(0, ContextValue("GAS"))[1] = ContextValue("GAS")
  BY <1>7 DEF Replace
<1> QED
  BY <1>6, <1>8, <1>9, <1>10

-------------------------------------------------------------------------------
(* The stack.                                                                  *)

\* The instructions that leave no word on the stack, by name.
LEMMA TakeNames ==
    TakeOps = {"CALLDATACOPY", "CODECOPY", "RETURNDATACOPY", "EXTCODECOPY",
               "BLOCKHASH", "BASEFEE", "BLOBHASH", "BLOBBASEFEE", "CREATE", "CALL",
               "CALLCODE", "DELEGATECALL", "CREATE2", "STATICCALL", "SELFDESTRUCT",
               "POP", "MSTORE", "MSTORE8", "MCOPY", "LOG", "SSTORE", "TSTORE", "JUMP",
               "JUMPI", "JUMPDEST", "STOP", "RETURN", "REVERT", "INVALID"}
BY DEF TakeOps, CopyOps, TodoOps, TodoBlockOps, TodoFrameOps

\* What a completed instruction does to the stack: it takes its operands, or puts
\* one word in their place, or copies a word, or exchanges two.
LEMMA StackEffect ==
    ASSUME Typed, Completed, Decoding
    PROVE  \/ /\ Opcode \in TakeOps
              /\ stack' = Drop(Pops[CodeByte]) \/ (UNCHANGED stack /\ Pops[CodeByte] = 0)
           \/ /\ Opcode \notin TakeOps \cup {"DUP", "SWAP"}
              /\ \E w : stack' = Replace(Pops[CodeByte], w)
           \/ /\ Opcode = "DUP"
              /\ stack' = Replace(0, stack[Arg[CodeByte]])
           \/ /\ Opcode = "SWAP"
              /\ stack' = [stack EXCEPT ![1] = stack[Arg[CodeByte]],
                                        ![Arg[CodeByte]] = stack[1]]
<1> DEFINE n == Pops[CodeByte]
           Takes == Opcode \in TakeOps /\ (stack' = Drop(n) \/ (UNCHANGED stack /\ n = 0))
           Leaves == /\ Opcode \notin TakeOps \cup {"DUP", "SWAP"}
                     /\ \E w : stack' = Replace(n, w)
<1>1. CodeByte \in Byte /\ Opcode = Mnemonic[CodeByte]
  BY OpcodeByte DEF Opcode, Typed
<1>2. /\ Opcode \in UnaryOps => n = 1
      /\ Opcode \in BinaryOps => n = 2
      /\ Opcode \in TernaryOps => n = 3
      /\ Opcode = "LOG" => n = 2 + Arg[CodeByte]
      /\ Opcode \in ContextOps \cup {"SELFBALANCE", "PUSH", "JUMPDEST", "STOP", "INVALID"}
            => n = 0
  BY <1>1, PopsTable
<1> HIDE DEF n
<1> USE DEF Compute
<1>3. ASSUME ComputeAlu
      PROVE  Leaves
  <2>1. Opcode \notin TakeOps \cup {"DUP", "SWAP"}
    BY <1>3, AluNames, TakeNames DEF ComputeAlu, Fetch
  <2> QED
    BY <1>3, <2>1 DEF ComputeAlu, n
<1>4. ASSUME PushContext
      PROVE  Leaves
  <2>1. Opcode \in ContextOps /\ Opcode \notin TakeOps \cup {"DUP", "SWAP"}
    BY <1>4, TakeNames
       DEF PushContext, Fetch, ContextOps, TransactionOps, SizeOps, BlockOps, ProgressOps
  <2> QED
    BY <1>2, <1>4, <2>1 DEF PushContext
<1>5. CASE Dup \/ Swap
  BY <1>5 DEF Dup, Swap, Fetch
<1>6. ASSUME SelfBalance \/ \E i \in 0 .. 32 : Push(i)
      PROVE  Leaves
  <2>1. Opcode \in {"SELFBALANCE", "PUSH"}
    BY <1>6 DEF SelfBalance, Push, Fetch
  <2>2. \E w : stack' = Replace(n, w)
    BY <1>2, <1>6, <2>1 DEF SelfBalance, Push
  <2> QED
    BY <2>1, <2>2, TakeNames
<1>7. ASSUME CallDataLoad \/ QueryAccount \/ MLoad \/ SLoad \/ TLoad
      PROVE  Leaves
  <2>1. Opcode \in {"CALLDATALOAD", "BALANCE", "EXTCODESIZE", "EXTCODEHASH", "MLOAD",
                    "SLOAD", "TLOAD"}
    BY <1>7 DEF CallDataLoad, QueryAccount, MLoad, SLoad, TLoad, AccessMemory,
                FetchAccess, Fetch
  <2>2. n = 1
    BY <1>2, <2>1 DEF UnaryOps
  <2>3. \E w : stack' = Replace(1, w)
    BY <1>7 DEF CallDataLoad, QueryAccount, MLoad, SLoad, TLoad
  <2> QED
    BY <2>1, <2>2, <2>3, TakeNames
<1>8. ASSUME Pop
      PROVE  Takes
  BY <1>2, <1>8, TakeNames DEF Pop, Fetch, UnaryOps
<1>9. ASSUME Keccak256
      PROVE  Leaves
  <2>1. Opcode = "KECCAK256"
    BY <1>9 DEF Keccak256, AccessMemory, FetchAccess, Fetch
  <2>2. n = 2
    BY <1>2, <2>1 DEF BinaryOps
  <2>3. \E w : stack' = Replace(2, w)
    BY <1>9 DEF Keccak256
  <2> QED
    BY <2>1, <2>2, <2>3, TakeNames
<1>10. ASSUME MStore \/ MStore8 \/ Return \/ Revert \/ SStore \/ TStore
       PROVE  Takes
  <2>1. Opcode \in {"MSTORE", "MSTORE8", "RETURN", "REVERT", "SSTORE", "TSTORE"}
    BY <1>10 DEF MStore, MStore8, StoreBytes, Return, Revert, Halt, SStore, TStore,
                 AccessMemory, FetchAccess, Fetch
  <2>2. n = 2
    BY <1>2, <2>1 DEF BinaryOps
  <2>3. stack' = Drop(2)
    BY <1>10 DEF MStore, MStore8, StoreBytes, Return, Revert, Halt, SStore, TStore
  <2> QED
    BY <2>1, <2>2, <2>3, TakeNames
<1>11. ASSUME MCopy
       PROVE  Takes
  <2>1. Opcode = "MCOPY"
    BY <1>11 DEF MCopy, AccessMemory, FetchAccess, Fetch
  <2>2. n = 3
    BY <1>2, <2>1 DEF TernaryOps
  <2> QED
    BY <1>11, <2>1, <2>2, TakeNames DEF MCopy
<1>12. ASSUME Copy \/ Jump
       PROVE  Takes
  <2>1. Opcode \in CopyOps \cup {"JUMP", "JUMPI"}
    BY <1>12 DEF Copy, Jump, AccessMemory, FetchAccess, Fetch
  <2>2. stack' = Drop(n)
    BY <1>12 DEF Copy, Jump, n
  <2> QED
    BY <2>1, <2>2, TakeNames DEF CopyOps
<1>13. ASSUME NEW i \in 0 .. 4, Log(i)
       PROVE  Takes
  BY <1>2, <1>13, TakeNames DEF Log, AccessMemory, FetchAccess, Fetch
<1>14. ASSUME JumpDest \/ Stop \/ Invalid
       PROVE  Takes
  <2>1. Opcode \in {"JUMPDEST", "STOP", "INVALID"} /\ UNCHANGED stack
    BY <1>14 DEF JumpDest, Stop, Invalid, Fetch, effects
  <2> QED
    BY <1>2, <2>1, TakeNames
<1> HIDE DEF Takes, Leaves
<1>15. Takes \/ Leaves \/ Dup \/ Swap
  BY <1>3, <1>4, <1>6, <1>7, <1>8, <1>9, <1>10, <1>11, <1>12, <1>13, <1>14 DEF Completed
<1> QED
  BY <1>5, <1>15 DEF Takes, Leaves, n

\* The operands of a completed instruction were there, and so was room for a word
\* that takes the place of none.
LEMMA CompletedFetched ==
    ASSUME Completed
    PROVE  /\ Len(stack) >= Pops[CodeByte]
           /\ Opcode \in Growing => Len(stack) < StackSize
BY DEF Completed, ComputeAlu, PushContext, Dup, Swap, Pop, Push, CallDataLoad, QueryAccount,
       SelfBalance, MLoad, MStore, MStore8, StoreBytes, Copy, MCopy, Keccak256, Log,
       Return, Revert, Halt, SLoad, SStore, TLoad, TStore, Jump, JumpDest, Stop,
       Invalid, AccessMemory, FetchAccess, Fetch

\* An instruction that is paid for leaves the words below its operands as they were,
\* below whatever it puts on top of them.
LEMMA StackKept ==
    ASSUME Typed, Next, Decoding, phase' = "running", NEW kept, kept = Len(stack) - Pops[CodeByte]
    PROVE  /\ Len(stack') >= kept
           /\ \A i \in 1 .. kept :
                  stack'[Len(stack') - kept + i] = stack[Len(stack) - kept + i]
<1> DEFINE n == Pops[CodeByte]
           len == Len(stack)
           \* d words on top of what is kept
           Above(d) == Len(stack') = kept + d /\ \A i \in 1 .. kept : stack'[d + i] = stack[n + i]
<1>1. Completed
  BY GoesOn
<1>2. CodeByte \in Byte /\ Opcode = Mnemonic[CodeByte] /\ n \in 0 .. 17
  BY OpcodeByte, PopsTable DEF Opcode, Typed
<1>3. StackTyped /\ stack \in Seq(Word) /\ len \in Nat /\ n <= len
  BY <1>1, CompletedFetched DEF Typed, StackTyped
<1>4. kept \in Nat /\ kept = len - n /\ n \in Nat
  <2>1. kept = len - n
    OBVIOUS
  <2> HIDE DEF n, len
  <2> QED
    BY <1>2, <1>3, <2>1
<1>5. ASSUME stack' = Drop(n)
      PROVE  Above(0)
  <2>1. Len(Drop(n)) = len - n /\ \A i \in 1 .. len - n : Drop(n)[i] = stack[i + n]
    <3>1. StackTyped /\ n \in Nat /\ n <= Len(stack)
      BY <1>3, <1>4
    <3> HIDE DEF n
    <3> QED
      BY <3>1, DropTyped
  <2> HIDE DEF n, len
  <2>2. \A i \in 1 .. kept : 0 + i = i /\ n + i = i + n
    BY <1>2, <1>4
  <2> QED
    BY <1>4, <1>5, <2>1, <2>2
<1>6. ASSUME NEW w, stack' = Replace(n, w)
      PROVE  Above(1)
  <2>1. stack' = [i \in 1 .. len - n + 1 |-> IF i = 1 THEN w ELSE stack[i + n - 1]]
    BY <1>6 DEF Replace
  <2> HIDE DEF n, len
  <2>2. len - n + 1 \in Nat /\ len - n + 1 = kept + 1
    BY <1>2, <1>3, <1>4
  <2>3. Len(stack') = kept + 1
    BY <2>1, <2>2
  <2>4. \A i \in 1 .. kept : stack'[1 + i] = stack[n + i]
    BY <1>2, <1>3, <1>4, <2>1
  <2> QED
    BY <2>3, <2>4
<1>7. ASSUME UNCHANGED stack, n = 0
      PROVE  Above(0)
  BY <1>2, <1>3, <1>4, <1>7
<1>8. ASSUME Opcode = "DUP", stack' = Replace(0, stack[Arg[CodeByte]])
      PROVE  Above(n + 1)
  <2> DEFINE w == stack[Arg[CodeByte]]
  <2>1. stack' = [i \in 1 .. len + 1 |-> IF i = 1 THEN w ELSE stack[i - 1]]
    <3>1. stack' = Replace(0, w)
      BY <1>8
    <3> HIDE DEF w
    <3>2. /\ len - 0 + 1 = len + 1
          /\ \A i \in 1 .. len + 1 : i + 0 - 1 = i - 1
      BY <1>3
    <3> QED
      BY <3>1, <3>2 DEF Replace
  <2> HIDE DEF n, len, w
  <2>2. Len(stack') = len + 1
    BY <1>3, <2>1
  <2>3. \A i \in 1 .. kept : /\ n + 1 + i \in 1 .. len + 1 /\ n + 1 + i # 1
                             /\ n + 1 + i - 1 = n + i
    BY <1>2, <1>3, <1>4
  <2>4. \A i \in 1 .. kept : stack'[n + 1 + i] = stack[n + i]
    <3>1. ASSUME NEW i \in 1 .. kept
          PROVE  stack'[n + 1 + i] = stack[n + i]
      <4> DEFINE j == n + 1 + i
      <4>1. j \in 1 .. len + 1 /\ j # 1 /\ j - 1 = n + i
        BY <1>3, <1>4, <2>3, <3>1
      <4> HIDE DEF j
      <4>2. stack'[j] = stack[j - 1]
        BY <2>1, <4>1
      <4> QED
        BY <4>1, <4>2 DEF j
    <3> QED
      BY <3>1
  <2>5. len + 1 = kept + (n + 1)
    BY <1>2, <1>3, <1>4
  <2> QED
    BY <2>2, <2>4, <2>5
<1>9. ASSUME Opcode = "SWAP",
             stack' = [stack EXCEPT ![1] = stack[Arg[CodeByte]],
                                    ![Arg[CodeByte]] = stack[1]]
      PROVE  Above(n)
  <2> DEFINE a == Arg[CodeByte]
  <2>1. a \in 2 .. 17 /\ n = a
    BY <1>2, <1>9, Numbers, PopsTable
  <2>2. stack' = [stack EXCEPT ![1] = stack[a], ![a] = stack[1]]
    BY <1>9
  <2> HIDE DEF n, len, a
  <2>3. Len(stack') = len /\ \A j \in 1 .. len : j # 1 /\ j # a => stack'[j] = stack[j]
    BY <1>3, <2>1, <2>2 DEF len
  <2>4. \A i \in 1 .. kept : n + i \in 1 .. len /\ n + i # 1 /\ n + i # a
    BY <1>2, <1>3, <1>4, <2>1
  <2> QED
    BY <1>2, <1>3, <1>4, <2>3, <2>4
<1>10. \E d \in Nat : Above(d)
  <2>1. 0 \in Nat /\ 1 \in Nat /\ n \in Nat /\ n + 1 \in Nat
    BY <1>4
  <2> HIDE DEF Above
  <2> QED
    BY <1>1, <1>5, <1>6, <1>7, <1>8, <1>9, <2>1, StackEffect DEF n
<1>11. PICK d \in Nat : Above(d)
  BY <1>10
<1> HIDE DEF n, len
<1>12. \A i \in 1 .. kept : /\ (kept + d) - kept + i = d + i
                            /\ len - kept + i = n + i
  <2>1. len \in Nat /\ n \in Nat /\ d \in Nat /\ kept \in Nat /\ kept = len - n
    BY <1>3, <1>4, <1>11
  <2>2. (kept + d) - kept = d /\ len - kept = n
    BY <2>1
  <2> QED
    BY <2>2
<1>13. kept + d >= kept
  BY <1>4
<1> QED
  BY <1>11, <1>12, <1>13 DEF len

\* While a transaction runs, no error has been reported.
Unreported == phase = "running" => result = Pending

\* Every one of those instructions settles its cost last.
LEMMA CompletedSettles ==
    ASSUME Completed
    PROVE  \E acc, cost, next : Settle(acc, cost, next)
BY DEF Completed, ComputeAlu, PushContext, Dup, Swap, Pop, Push, CallDataLoad, QueryAccount,
       SelfBalance, MLoad, MStore, MStore8, StoreBytes, Copy, MCopy, Keccak256, Log,
       Return, Revert, Halt, SLoad, SStore, TLoad, TStore, Jump, JumpDest, Stop,
       Invalid, Compute

\* The errors that the stack itself reports.
StackErrors == {"EmptyStack", "StackOverflow"}

\* The tail of a sequence, as a function.
LEMMA TailIs ==
    ASSUME NEW S, NEW s \in Seq(S), NEW m \in Nat, Len(s) = m + 1
    PROVE  Tail(s) = [i \in 1 .. m |-> s[i + 1]]
<1>1. s # <<>>
  OBVIOUS
<1>2. Tail(s) \in Seq(S) /\ Len(Tail(s)) = m /\ \A i \in 1 .. m : Tail(s)[i] = s[i + 1]
  BY <1>1, HeadTailProperties
<1> DEFINE u == Tail(s)
<1>3. u \in Seq(S) /\ Len(u) = m /\ \A i \in 1 .. m : u[i] = s[i + 1]
  BY <1>2
<1> HIDE DEF u
<1>4. u = [i \in 1 .. m |-> s[i + 1]]
  BY <1>3
<1> QED
  BY <1>4 DEF u

\* A word that replaces none goes on top.
LEMMA ReplaceNone ==
    ASSUME stack \in Seq(Word), NEW w
    PROVE  Len(Replace(0, w)) = Len(stack) + 1 /\ Replace(0, w) = <<w>> \o stack
<1> DEFINE len == Len(stack)
           s == Replace(0, w)
           u == <<w>> \o stack
<1>1. len \in Nat /\ s = [i \in 1 .. len - 0 + 1 |-> IF i = 1 THEN w ELSE stack[i + 0 - 1]]
  BY DEF Replace
<1> HIDE DEF s
<1>2. /\ Len(s) = len + 1 /\ DOMAIN s = 1 .. len + 1 /\ s[1] = w
      /\ \A i \in 2 .. len + 1 : s[i] = stack[i - 1]
      /\ s = [i \in 1 .. len + 1 |-> s[i]]
  BY <1>1
<1>3. /\ Len(u) = len + 1 /\ DOMAIN u = 1 .. len + 1 /\ u[1] = w
      /\ \A i \in 2 .. len + 1 : u[i] = stack[i - 1]
      /\ u = [i \in 1 .. len + 1 |-> u[i]]
  BY <1>1
<1> HIDE DEF u
<1> HIDE DEF len
<1>4. \A i \in 1 .. len + 1 : s[i] = u[i]
  <2>1. \A i \in 1 .. len + 1 : i = 1 \/ i \in 2 .. len + 1
    BY <1>1
  <2> QED
    BY <1>2, <1>3, <2>1
<1>5. s = u
  BY <1>2, <1>3, <1>4
<1> QED
  BY <1>2, <1>5 DEF s, u, len

\* What the contract sees of the instruction of byte b.
LEMMA OperationIs ==
    ASSUME NEW b \in Byte, NEW op, op = Mnemonic[b]
    PROVE  /\ Operation(b).arity = Pops[b]
           /\ op = "DUP" => Operation(b).shape = "dup"
           /\ op = "SWAP" => Operation(b).shape = "swap"
           /\ op \in TakeOps => Operation(b).shape = "take"
           /\ op \notin TakeOps \cup {"DUP", "SWAP"} => Operation(b).shape = "compute"
<1>1. "DUP" \notin TakeOps /\ "SWAP" \notin TakeOps
  BY TakeNames
<1> QED
  BY <1>1 DEF Operation

\* Whatever the place, there is a byte to decode.
LEMMA ByteAt ==
    ASSUME NEW program \in Seq(Byte), NEW i \in Nat
    PROVE  (IF i < Len(program) THEN program[i + 1] ELSE 0) \in Byte
<1>1. i < Len(program) => i + 1 \in 1 .. Len(program)
  OBVIOUS
<1>2. 0 \in Byte
  BY DEF Byte
<1> QED
  BY <1>1, <1>2

\* The instruction that a step comes to is one of the contract's.
LEMMA NextOperation ==
    ASSUME Typed'
    PROVE  Operation(CodeByte)' \in {Operation(b) : b \in Byte}
<1>1. pc' \in Nat /\ code' \in Seq(Byte)
  BY DEF Typed, ContextTyped, Usize
<1> DEFINE next == IF pc' < Len(code') THEN code'[pc' + 1] ELSE 0
<1>2. next \in Byte
  BY <1>1, ByteAt
<1>3. Operation(CodeByte)' = Operation(next)
  BY DEF Operation, CodeByte
<1> HIDE DEF next
<1> QED
  BY <1>2, <1>3

\* A completed instruction that is paid for is one of the contract's.
LEMMA SuccessSimulates ==
    ASSUME Typed, Typed', Unreported, Decoding, phase' = "running", Next
    PROVE  Unreported' /\ StackUse!ContractNext
<1> DEFINE n == Pops[CodeByte]
           len == Len(stack)
           shape == Operation(CodeByte).shape
           rest == SubSeq(stack, n + 1, len)
<1>1. Completed /\ phase = "running"
  BY GoesOn DEF Decoding
<1>2. CodeByte \in Byte /\ Opcode = Mnemonic[CodeByte] /\ n \in 0 .. 17
  BY OpcodeByte, PopsTable DEF Opcode, Typed
<1>3. StackTyped /\ stack \in Seq(Word) /\ len \in Nat /\ n <= len /\ len <= StackSize
  BY <1>1, CompletedFetched DEF Typed, StackTyped
<1>4. stack' \in Seq(Word) /\ Len(stack') <= StackSize /\ StackSize \in Nat
  BY SizesAssumption DEF Typed, StackTyped
<1>5. UNCHANGED result
  BY <1>1, CompletedSettles DEF Settle, Ends
<1>6. result = Pending /\ Pending.status = "pending"
  BY <1>1, PendingStatus DEF Unreported
<1>7. n \in Nat
  BY <1>2
<1>8. Operation(CodeByte)' \in {Operation(b) : b \in Byte}
  BY NextOperation
<1>9. /\ \/ Opcode \in TakeOps /\ (stack' = Drop(n) \/ (UNCHANGED stack /\ n = 0))
         \/ /\ Opcode \notin TakeOps \cup {"DUP", "SWAP"}
            /\ \E w : stack' = Replace(n, w)
         \/ Opcode = "DUP" /\ stack' = Replace(0, stack[Arg[CodeByte]])
         \/ Opcode = "SWAP" /\ stack' = [stack EXCEPT ![1] = stack[Arg[CodeByte]],
                                                 ![Arg[CodeByte]] = stack[1]]
      /\ Opcode \in {"DUP", "SWAP"} => Arg[CodeByte] = n
  BY <1>1, <1>2, StackEffect, PopsTable
<1>10. /\ Operation(CodeByte).arity = n
       /\ Opcode = "DUP" => shape = "dup"
       /\ Opcode = "SWAP" => shape = "swap"
       /\ Opcode \in TakeOps => shape = "take"
       /\ Opcode \notin TakeOps \cup {"DUP", "SWAP"} => shape = "compute"
  BY <1>2, OperationIs
<1>11. rest = [i \in 1 .. len - n |-> stack[i + n]]
  <2> HIDE DEF n
  <2>1. n + 1 \in Nat /\ \A i \in 1 .. len - n : n + 1 + i - 1 = i + n
    BY <1>3, <1>7
  <2> QED
    BY <1>3, <1>7, <2>1
<1> HIDE DEF n, len, shape, rest
<1>12. StackUse!Rest = rest
  BY <1>1, <1>10 DEF StackUse!Rest, rest, len
<1>13. ASSUME StackUse!Take \/ StackUse!Compute \/ StackUse!Dup \/ StackUse!Swap
       PROVE  StackUse!ContractNext
  <2>1. (IF phase = "running" THEN Operation(CodeByte) ELSE [shape |-> "none", arity |-> 0])
            = Operation(CodeByte)
    BY <1>1
  <2>2. shape # "none"
    BY <1>9, <1>10
  <2>3. Operation(CodeByte) # StackUse!None
    BY <2>2 DEF StackUse!None, shape
  <2>4. StackUse!Succeeds
    BY <1>1, <1>3, <1>5, <1>6, <1>8, <1>10, <1>13, <2>1 DEF StackUse!Succeeds, len
  <2> QED
    BY <2>1, <2>3, <2>4 DEF StackUse!ContractNext
<1>14. ASSUME Opcode \in TakeOps, stack' = rest
       PROVE  StackUse!Take
  BY <1>1, <1>10, <1>12, <1>14 DEF StackUse!Take, shape
<1>15. ASSUME Opcode \in TakeOps, UNCHANGED stack, n = 0
       PROVE  stack' = rest
  BY <1>3, <1>15 DEF len, rest
<1>16. ASSUME NEW w, stack' = Replace(n, w), Opcode \notin TakeOps \cup {"DUP", "SWAP"}
       PROVE  StackUse!Compute
  <2>1. stack' = [i \in 1 .. len - n + 1 |-> IF i = 1 THEN w ELSE stack[i + n - 1]]
    BY <1>16 DEF Replace, len
  <2>2. len - n + 1 \in Nat /\ Len(stack') = len - n + 1 /\ stack' # <<>>
    BY <1>3, <1>7, <2>1
  <2>3. stack'[1] \in Word
    BY <1>4, <2>2
  <2>4. Tail(stack') = rest
    <3>1. Tail(stack') = [i \in 1 .. len - n |-> stack'[i + 1]]
      <4>1. len - n \in Nat /\ Len(stack') = (len - n) + 1
        BY <1>3, <1>7, <2>2
      <4> QED
        BY <1>4, <4>1, TailIs
    <3>2. \A i \in 1 .. len - n : stack'[i + 1] = stack[i + n]
      BY <1>3, <1>7, <2>1
    <3> QED
      BY <1>11, <3>1, <3>2
  <2>5. len - n < StackSize
    BY <1>3, <1>4, <1>7, <2>2
  <2> QED
    BY <1>1, <1>10, <1>12, <1>16, <2>2, <2>3, <2>4, <2>5 DEF StackUse!Compute, len, shape
<1>17. ASSUME Opcode = "DUP", stack' = Replace(0, stack[Arg[CodeByte]])
       PROVE  StackUse!Dup
  <2>1. stack' = Replace(0, stack[n])
    BY <1>9, <1>17
  <2>2. Len(stack') = len + 1 /\ stack' = <<stack[n]>> \o stack
    BY <1>3, <2>1, ReplaceNone DEF len
  <2>3. len < StackSize
    BY <1>3, <1>4, <2>2
  <2> QED
    BY <1>1, <1>10, <1>17, <2>2, <2>3 DEF StackUse!Dup, len, shape
<1>18. ASSUME Opcode = "SWAP",
              stack' = [stack EXCEPT ![1] = stack[Arg[CodeByte]],
                                     ![Arg[CodeByte]] = stack[1]]
       PROVE  StackUse!Swap
  <2>1. stack' = [stack EXCEPT ![1] = stack[n], ![n] = stack[1]]
    BY <1>9, <1>18
  <2> QED
    BY <1>1, <1>10, <1>18, <2>1 DEF StackUse!Swap, shape
<1>19. ASSUME stack' = Drop(n)
       PROVE  stack' = rest
  BY <1>11, <1>19 DEF Drop, len
<1>20. Unreported'
  BY <1>5, <1>6 DEF Unreported
<1> QED
  BY <1>9, <1>13, <1>14, <1>15, <1>16, <1>17, <1>18, <1>19, <1>20

\* How pay_gas_cost may end.
LEMMA PayGasStatuses ==
    \A acc, t, g, cost :
        PayGas(acc, t, g, cost).status \in {"ok", "OutOfGas", "InsufficientFunds", "panic"}
BY DEF PayGas, DecreaseBalance, Receipt

\* Only an instruction that is decoded executes, and else the epilogue.
LEMMA ExecuteDecodes ==
    ASSUME Execute
    PROVE  Decoding \/ Finish
BY DEF Execute, StackUnderflow, StackOverflow, Unimplemented, ComputeAlu, PushContext,
       Dup, Swap, Pop, Push, CallDataLoad, CallDataOverflow, QueryAccount, InvalidAddress,
       SelfBalance, AccessFails, MLoad, MStore, MStore8, StoreBytes, Copy, MCopy,
       Keccak256, Log, Return, Revert, Halt, SLoad, SStore, TLoad, TStore, Jump,
       InvalidJump, JumpDest, Stop, Invalid, AccessMemory, FetchAccess, Fetch

\* A transaction that is over and that no instruction found the stack too short or
\* too full for gives the contract a new stack.
LEMMA EndRenews ==
    ASSUME phase' # "running", result'.status \notin StackErrors
    PROVE  StackUse!ContractNext
BY DEF StackErrors, StackUse!ContractNext, StackUse!Renew, StackUse!Fails, StackUse!None

\* A transaction that begins comes to its first instruction with an empty stack, and
\* one that is refused leaves none.
LEMMA RunRenews ==
    ASSUME Typed', NEW t \in Transactions, Run(t)
    PROVE  Unreported' /\ StackUse!ContractNext
<1> DEFINE called == IF IsCreation(t) THEN accounts ELSE Touched(accounts, ContractAddress(t))
           r == Admission(Touched(called, t.from), t)
<1>1. r.status \in {"ok", "OutOfGas", "InsufficientFunds", "IntrinsicGasTooLow", "panic"}
  <2>1. \A acc : Admission(acc, t).status
                   \in {"ok", "OutOfGas", "InsufficientFunds", "IntrinsicGasTooLow", "panic"}
    BY PayGasStatuses DEF Admission, Receipt
  <2> HIDE DEF called
  <2> QED
    BY <2>1
<1>2. IF r.status = "ok" THEN phase' = "running" /\ result' = Pending ELSE Ends(r.status)
  BY DEF Run
<1>3. stack' = <<>> /\ phase = "idle"
  BY DEF Run
<1> HIDE DEF r
<1>4. Unreported'
  BY <1>2 DEF Unreported, Ends
<1>5. result'.status \in {"pending", "OutOfGas", "InsufficientFunds", "IntrinsicGasTooLow",
                          "panic"}
  BY <1>1, <1>2, PendingStatus DEF Ends
<1>6. CASE phase' = "running"
  <2>1. Operation(CodeByte)' \in {Operation(b) : b \in Byte}
    BY NextOperation
  <2>2. StackUse!Begin
    BY <1>3, <1>5, <1>6, <2>1 DEF StackUse!Begin, StackUse!None
  <2> QED
    BY <1>4, <2>2 DEF StackUse!ContractNext
<1>7. CASE phase' # "running"
  BY <1>4, <1>5, <1>7, EndRenews DEF StackErrors
<1> QED
  BY <1>6, <1>7

\* A run that ends ends as the contract lets it.
LEMMA EndSimulates ==
    ASSUME Typed, Unreported, Execute, phase' # "running"
    PROVE  StackUse!ContractNext
<1>1. phase = "running" /\ result = Pending /\ Pending.status = "pending"
  BY ExecuteRuns, PendingStatus DEF Unreported
<1>2. CodeByte \in Byte /\ Opcode = Mnemonic[CodeByte]
  BY OpcodeByte DEF Opcode, Typed
<1>3. Operation(CodeByte).arity = Pops[CodeByte] /\ Operation(CodeByte) # StackUse!None
  BY <1>2, OperationIs DEF StackUse!None
<1>4. CASE StackUnderflow
  <2>1. Len(stack) < Pops[CodeByte] /\ Ends("EmptyStack")
    BY <1>4 DEF StackUnderflow, Abort
  <2>2. result'.status = "EmptyStack" /\ phase' # "running"
    BY <2>1, PendingStatus DEF Ends
  <2>3. StackUse!EmptyStack
    BY <1>1, <1>3, <2>1, <2>2 DEF StackUse!EmptyStack, StackUse!Fails, StackUse!None
  <2> QED
    BY <1>1, <1>3, <2>3 DEF StackUse!ContractNext
<1>5. CASE StackOverflow
  <2>1. /\ Opcode \in Growing /\ Len(stack) >= Pops[CodeByte] /\ Len(stack) = StackSize
        /\ Ends("StackOverflow")
    BY <1>5 DEF StackOverflow, Abort
  <2>2. result'.status = "StackOverflow" /\ phase' # "running"
    BY <2>1, PendingStatus DEF Ends
  <2>3. \/ Operation(CodeByte).shape = "dup"
        \/ Operation(CodeByte).shape = "compute" /\ Operation(CodeByte).arity = 0
    BY <1>2, <1>3, <2>1, OperationIs, PopsTable, TakeNames
       DEF Growing, ContextOps, TransactionOps, SizeOps, BlockOps, ProgressOps
  <2>4. StackUse!Grows
    BY <1>1, <2>3 DEF StackUse!Grows
  <2>5. StackUse!StackOverflow
    BY <1>1, <1>3, <2>1, <2>2, <2>4
       DEF StackUse!StackOverflow, StackUse!Fails, StackUse!None
  <2> QED
    BY <1>1, <1>3, <2>5 DEF StackUse!ContractNext
<1>6. ASSUME NEW status, Ends(status), status \notin StackErrors
      PROVE  StackUse!ContractNext
  <2>1. result'.status = status
    BY <1>6, PendingStatus DEF Ends
  <2> QED
    BY <1>6, <2>1, EndRenews
<1>7. CASE Unimplemented \/ CallDataOverflow \/ InvalidAddress \/ InvalidJump
  <2>1. Ends("panic") \/ Ends("InvalidAddress") \/ Ends("InvalidJumpDest")
    BY <1>7 DEF Unimplemented, CallDataOverflow, InvalidAddress, InvalidJump, Abort
  <2> QED
    BY <1>6, <2>1 DEF StackErrors
<1>8. CASE AccessFails
  <2>1. Opcode \in MemoryOpcodes /\ AccessStatus # "ok" /\ Ends(AccessStatus)
    BY <1>8 DEF AccessFails, FetchAccess, Fetch, Abort
  <2>2. AccessStatus \in {"MemoryOutOfBounds", "panic"}
    BY <2>1, AccessStatuses
  <2> QED
    BY <1>6, <2>1, <2>2 DEF StackErrors
<1>9. CASE Completed
  <2>1. PICK acc, cost, next : Settle(acc, cost, next)
    BY <1>9, CompletedSettles
  <2> DEFINE r == PayGas(acc, tx, gas, cost)
  <2>2. r.status \in {"ok", "OutOfGas", "InsufficientFunds", "panic"}
    BY PayGasStatuses
  <2>3. Ends(r.status) /\ r.status # "ok"
    BY <1>1, <2>1 DEF Settle
  <2> HIDE DEF r
  <2> QED
    BY <1>6, <2>2, <2>3 DEF StackErrors
<1>10. CASE Finish
  <2>1. Epilogue.status \in {"ok", "OutOfGas", "InsufficientFunds", "panic"}
    BY PayGasStatuses DEF Epilogue, DecreaseBalance, Receipt
  <2>2. CASE Epilogue.status = "ok"
    <3>1. result'.status = "ok"
      BY <1>10, <2>2, PendingStatus DEF Finish
    <3> QED
      BY <3>1, EndRenews DEF StackErrors
  <2>3. CASE Epilogue.status # "ok"
    BY <1>6, <1>10, <2>1, <2>3 DEF Finish, StackErrors
  <2> QED
    BY <2>2, <2>3
<1> QED
  BY <1>4, <1>5, <1>7, <1>8, <1>9, <1>10 DEF Execute, Completed

\* Every step of the machine is a step of the contract, or leaves it alone.
LEMMA NextSimulates ==
    ASSUME Typed, Typed', Unreported, [Next]_vars
    PROVE  Unreported' /\ [StackUse!ContractNext]_(StackUse!contract)
<1>1. CASE UNCHANGED vars
  <2>1. UNCHANGED <<phase, stack, result>> /\ UNCHANGED Operation(CodeByte)
    BY <1>1 DEF vars, effects, contract, CodeByte, Operation
  <2> QED
    BY <2>1 DEF Unreported, StackUse!contract
<1>2. ASSUME NEW t \in Transactions, Run(t)
      PROVE  Unreported' /\ StackUse!ContractNext
  BY <1>2, RunRenews
<1>3. CASE Execute /\ phase' # "running"
  BY <1>3, EndSimulates DEF Unreported
<1>4. CASE Execute /\ phase' = "running"
  <2>1. ~Finish
    BY <1>4 DEF Finish, Ends
  <2>2. Decoding /\ Next
    BY <1>4, <2>1, ExecuteDecodes DEF Next
  <2> QED
    BY <1>4, <2>2, SuccessSimulates
<1> QED
  BY <1>1, <1>2, <1>3, <1>4 DEF Next

\* StackContract's initial state is Machine's.
LEMMA InitSimulates ==
    ASSUME Init
    PROVE  Unreported /\ StackUse!ContractInit
<1>1. phase = "idle" /\ result.status = "none"
  BY PendingStatus DEF Init
<1> QED
  BY <1>1 DEF Unreported, StackUse!ContractInit, StackUse!None

\* Whatever the program, the instructions use the stack of 1024 words as the contract
\* that Stack keeps word by word says: the two tables of opcode.rs, the pops and
\* pushes of instructions.rs, and the run loop that gives up on its errors, together.
THEOREM MachineKeepsStackContract ==
    ASSUME Computed
    PROVE  Spec => KeepsStackContract
<1>1. Init => Typed /\ Unreported /\ StackUse!ContractInit
  BY InitTyped, InitSimulates
<1>2. Typed /\ [Next]_vars => Typed'
  BY NextTyped
<1>3. Typed /\ Typed' /\ Unreported /\ [Next]_vars
        => Unreported' /\ [StackUse!ContractNext]_(StackUse!contract)
  BY NextSimulates
<1> QED
  BY <1>1, <1>2, <1>3, PTL DEF Spec, KeepsStackContract, StackUse!ContractSpec

\* GAS pushes the gas that is left once GAS itself is paid for.
THEOREM GasAlwaysReadExactly ==
    ASSUME Computed
    PROVE  Spec => GasReadIsExact
<1>1. Init => Typed
  BY InitTyped
<1>2. Typed /\ [Next]_vars => Typed'
  BY NextTyped
<1>3. Typed /\ [Next]_vars
        => [Fetch({"GAS"}) /\ phase' = "running" => stack'[1] = gas']_vars
  BY GasStep
<1> QED
  BY <1>1, <1>2, <1>3, PTL DEF Spec, GasReadIsExact

\* No instruction disturbs a word below its operands.
THEOREM StackBelowAlwaysKept ==
    ASSUME Computed
    PROVE  Spec => StackBelowKept
<1> DEFINE Step == Decoding /\ phase' = "running" =>
                     LET kept == Len(stack) - Pops[CodeByte]
                     IN  /\ Len(stack') >= kept
                         /\ \A i \in 1 .. kept :
                              stack'[Len(stack') - kept + i] = stack[Len(stack) - kept + i]
<1>1. Init => Typed
  BY InitTyped
<1>2. Typed /\ [Next]_vars => Typed'
  BY NextTyped
<1>3. Typed /\ [Next]_vars => [Step]_vars
  BY StackKept
<1> QED
  BY <1>1, <1>2, <1>3, PTL DEF Spec, StackBelowKept

-------------------------------------------------------------------------------
(* Names.                                                                      *)

\* The instructions that end the loop of execute_transaction.
Halting == {"STOP", "RETURN", "REVERT", "INVALID"}

\* The table of execute has no entry of the name that Display gives to the rest.
LEMMA Named ==
    ASSUME NEW b \in Byte
    PROVE  Mnemonic[b] # "UNKNOWN"
<1>1. /\ \A i \in 1 .. 11 : Arithmetic[i] # "UNKNOWN"
      /\ \A i \in 1 .. 14 : Logic[i] # "UNKNOWN"
      /\ \A i \in 1 .. 27 : Environment[i] # "UNKNOWN"
      /\ \A i \in 1 .. 15 : Flow[i] # "UNKNOWN"
      /\ \A i \in 1 .. 6 : Frames[i] # "UNKNOWN"
  BY DEF Arithmetic, Logic, Environment, Flow, Frames
<1> QED
  BY <1>1 DEF Mnemonic, Byte

\* Both tables have the same names for the same bytes, but for the bytes without one.
LEMMA SameNames ==
    ASSUME NEW b \in Byte
    PROVE  \/ ShownName[b] = Mnemonic[b]
           \/ ShownName[b] = "UNKNOWN" /\ Mnemonic[b] = "INVALID"
<1>1. /\ ShownArithmetic[1] = "STOP"
      /\ \A i \in 1 .. 11 : ShownArithmetic[i + 1] = Arithmetic[i]
  BY DEF ShownArithmetic, Arithmetic
<1>2. \A i \in 1 .. 14 : ShownLogic[i] = Logic[i]
  BY DEF ShownLogic, Logic
<1>3. \A i \in 1 .. 16 : ShownContext[i] = Environment[i]
  BY DEF ShownContext, Environment
<1>4. \A i \in 1 .. 11 : ShownBlock[i] = Environment[i + 16]
  BY DEF ShownBlock, Environment
<1>5. \A i \in 1 .. 15 : ShownFlow[i] = Flow[i]
  BY DEF ShownFlow, Flow
<1>6. \A i \in 1 .. 6 : ShownSystem[i] = Frames[i]
  BY DEF ShownSystem, Frames
<1>7. CASE b \in 0 .. 79
  BY <1>1, <1>2, <1>3, <1>4, <1>7 DEF ShownName, Mnemonic, Byte
<1>8. CASE b \in 80 .. 255
  BY <1>5, <1>6, <1>8 DEF ShownName, Mnemonic, Byte
<1> QED
  BY <1>7, <1>8 DEF Byte

\* How a byte is shown says which instruction it runs, and with which number.
LEMMA Shown ==
    ASSUME NEW b \in Byte, NEW name, name = ShownName[b], NEW n, n = ShownNumber[b]
    PROVE  /\ name = Mnemonic[b] \/ (name = "UNKNOWN" /\ Mnemonic[b] = "INVALID")
           /\ name = "PUSH" => Mnemonic[b] = "PUSH" /\ n = Arg[b]
           /\ name = "DUP" => Mnemonic[b] = "DUP" /\ n = Arg[b]
           /\ name = "SWAP" => Mnemonic[b] = "SWAP" /\ n + 1 = Arg[b]
           /\ name = "LOG" => Mnemonic[b] = "LOG" /\ n = Arg[b] /\ n \in 0 .. 4
           /\ name \in {"INVALID", "UNKNOWN"} => Mnemonic[b] = "INVALID"
           /\ name \in Halting \cup {"UNKNOWN"} <=> Mnemonic[b] \in Halting
<1>1. name = Mnemonic[b] \/ (name = "UNKNOWN" /\ Mnemonic[b] = "INVALID")
  BY SameNames
<1>2. Mnemonic[b] # "UNKNOWN"
  BY Named
<1>4. n = CASE b \in 95..127  -> b - 95
            [] b \in 128..143 -> b - 127
            [] b \in 144..159 -> b - 143
            [] b \in 160..164 -> b - 160
            [] OTHER         -> 0
  BY DEF ShownNumber
<1>5. /\ name = "PUSH" => b \in 95 .. 127 /\ Mnemonic[b] = "PUSH" /\ Arg[b] = b - 95
      /\ name = "DUP" => b \in 128 .. 143 /\ Mnemonic[b] = "DUP" /\ Arg[b] = b - 127
      /\ name = "SWAP" => b \in 144 .. 159 /\ Mnemonic[b] = "SWAP" /\ Arg[b] = b - 142
      /\ name = "LOG" => b \in 160 .. 164 /\ Mnemonic[b] = "LOG" /\ Arg[b] = b - 160
  BY <1>1, NumberedBytes, Numbers
<1>6. /\ name = "PUSH" => n = b - 95
      /\ name = "DUP" => n = b - 127
      /\ name = "SWAP" => n = b - 143
      /\ name = "LOG" => n = b - 160
  BY <1>4, <1>5
<1> QED
  BY <1>1, <1>2, <1>5, <1>6 DEF Halting

\* The instructions that halt are those four.
LEMMA Halts ==
    ASSUME Completed, Decoding
    PROVE  stop' <=> Opcode \in Halting
<1>1. ASSUME Stop \/ Invalid \/ Return \/ Revert
      PROVE  stop' /\ Opcode \in Halting
  BY <1>1 DEF Stop, Invalid, Return, Revert, Halt, AccessMemory, FetchAccess, Fetch, Halting
<1>2. ASSUME \/ ComputeAlu \/ PushContext \/ Dup \/ Swap \/ Pop
             \/ \E n \in 0 .. 32 : Push(n)
             \/ CallDataLoad \/ QueryAccount \/ SelfBalance
      PROVE  stop' = stop /\ Opcode \notin Halting
  BY <1>2, AluNames
     DEF ComputeAlu, PushContext, Dup, Swap, Pop, Push, CallDataLoad, QueryAccount, SelfBalance,
         Compute, Fetch, Halting, ContextOps, TransactionOps, SizeOps, BlockOps, ProgressOps
<1>3. ASSUME \/ MLoad \/ MStore \/ MStore8 \/ Copy \/ MCopy \/ Keccak256
             \/ \E n \in 0 .. 4 : Log(n)
      PROVE  stop' = stop /\ Opcode \notin Halting
  BY <1>3
     DEF MLoad, MStore, MStore8, StoreBytes, Copy, MCopy, Keccak256, Log, AccessMemory,
         FetchAccess, Fetch, Halting, CopyOps
<1>4. ASSUME SLoad \/ SStore \/ TLoad \/ TStore \/ Jump \/ JumpDest
      PROVE  stop' = stop /\ Opcode \notin Halting
  BY <1>4 DEF SLoad, SStore, TLoad, TStore, Jump, JumpDest, Compute, Fetch, Halting, effects
<1> QED
  BY <1>1, <1>2, <1>3, <1>4 DEF Completed, Decoding

\* PUSHn steps over its n bytes.
LEMMA PushEffect ==
    ASSUME Typed, Completed, phase = "running", phase' = "running", Opcode = "PUSH"
    PROVE  pc' = pc + Arg[CodeByte] + 1
<1>1. \E n \in 0 .. 32 : Push(n)
  BY AluNames
     DEF Completed, ComputeAlu, PushContext, Dup, Swap, Pop, CallDataLoad, QueryAccount,
         SelfBalance, MLoad, MStore, MStore8, StoreBytes, Copy, MCopy, Keccak256, Log,
         Return, Revert, Halt, SLoad, SStore, TLoad, TStore, Jump, JumpDest, Stop,
         Invalid, AccessMemory, FetchAccess, Fetch, CopyOps,
         ContextOps, TransactionOps, SizeOps, BlockOps, ProgressOps
<1>2. PICK n \in 0 .. 32 : Push(n)
  BY <1>1
<1>3. Arg[CodeByte] = n /\ \E cost : Settle(accounts, cost, pc + n + 1)
  BY <1>2 DEF Push, Compute
<1> QED
  BY <1>3, PaidFor

\* LOGn records n topics.
LEMMA LogEffect ==
    ASSUME Typed, Completed, Opcode = "LOG"
    PROVE  Len(logs'[Len(logs')].topics) = Arg[CodeByte]
<1>1. \E n \in 0 .. 4 : Log(n)
  BY AluNames
     DEF Completed, ComputeAlu, PushContext, Dup, Swap, Pop, Push, CallDataLoad, QueryAccount,
         SelfBalance, MLoad, MStore, MStore8, StoreBytes, Copy, MCopy, Keccak256,
         Return, Revert, Halt, SLoad, SStore, TLoad, TStore, Jump, JumpDest, Stop,
         Invalid, AccessMemory, FetchAccess, Fetch, CopyOps,
         ContextOps, TransactionOps, SizeOps, BlockOps, ProgressOps
<1>2. PICK n \in 0 .. 4 : Log(n)
  BY <1>1
<1> DEFINE topics == SubSeq(stack, 3, 2 + n)
           entry == LogEntry(Read(memory, stack[1], stack[2]), topics)
<1>3. Arg[CodeByte] = n /\ logs' = Append(logs, entry) /\ Fetch({"LOG"})
  BY <1>2 DEF Log, AccessMemory, FetchAccess
<1>4. Pops[CodeByte] <= Len(stack) /\ CodeByte \in Byte /\ Opcode = Mnemonic[CodeByte]
  BY <1>3, Operands DEF Typed
<1>5. 2 + n <= Len(stack) /\ stack \in Seq(Word) /\ Len(stack) \in Nat
  BY <1>3, <1>4, PopsTable DEF Typed, StackTyped
<1>6. Len(topics) = n
  BY <1>5
<1> HIDE DEF topics
<1>7. entry.topics = topics
  BY DEF LogEntry
<1>8. \E S : logs \in Seq(S)
  BY DEF Typed, LogsTyped
<1> HIDE DEF entry
<1>9. logs'[Len(logs')] = entry
  BY <1>3, <1>8
<1> QED
  BY <1>3, <1>6, <1>7, <1>9

\* INVALID burns the gas that is left, and reverts.
LEMMA InvalidEffect ==
    ASSUME Typed, Completed, phase = "running", phase' = "running", Opcode = "INVALID"
    PROVE  gas' = 0 /\ revert'
<1>1. Invalid
  BY AluNames
     DEF Completed, ComputeAlu, PushContext, Dup, Swap, Pop, Push, CallDataLoad, QueryAccount,
         SelfBalance, MLoad, MStore, MStore8, StoreBytes, Copy, MCopy, Keccak256, Log,
         Return, Revert, Halt, SLoad, SStore, TLoad, TStore, Jump, JumpDest, Stop,
         AccessMemory, FetchAccess, Fetch, CopyOps,
         ContextOps, TransactionOps, SizeOps, BlockOps, ProgressOps
<1>2. revert' = TRUE /\ Settle(accounts, gas, pc)
  BY <1>1 DEF Invalid
<1>3. gas' = gas - gas
  BY <1>2, PaidFor
<1>4. gas \in Nat
  BY RunningTransaction DEF Typed
<1> QED
  BY <1>2, <1>3, <1>4

\* What is shown of a byte tells what the instruction that it runs does.
LEMMA EffectsTell ==
    ASSUME Typed, Next, Decoding, phase' = "running",
           NEW name, name = ShownName[CodeByte], NEW n, n = ShownNumber[CodeByte]
    PROVE  /\ name = "PUSH" => pc' = pc + n + 1
           /\ name = "DUP"  => stack' = <<stack[n]>> \o stack
           /\ name = "SWAP" => stack' = [stack EXCEPT ![1] = stack[n + 1],
                                                      ![n + 1] = stack[1]]
           /\ name = "LOG"  => Len(logs'[Len(logs')].topics) = n
           /\ name \in {"INVALID", "UNKNOWN"} => gas' = 0 /\ revert'
           /\ stop' <=> name \in {"STOP", "RETURN", "REVERT", "INVALID", "UNKNOWN"}
<1>1. Completed /\ phase = "running"
  BY GoesOn DEF Decoding
<1>2. CodeByte \in Byte /\ Opcode = Mnemonic[CodeByte]
  BY OpcodeByte DEF Opcode, Typed
<1>3. /\ name = "PUSH" => Opcode = "PUSH" /\ n = Arg[CodeByte]
      /\ name = "DUP" => Opcode = "DUP" /\ n = Arg[CodeByte]
      /\ name = "SWAP" => Opcode = "SWAP" /\ n + 1 = Arg[CodeByte]
      /\ name = "LOG" => Opcode = "LOG" /\ n = Arg[CodeByte]
      /\ name \in {"INVALID", "UNKNOWN"} => Opcode = "INVALID"
      /\ name \in Halting \cup {"UNKNOWN"} <=> Opcode \in Halting
  BY <1>2, Shown
<1>4. name = "PUSH" => pc' = pc + n + 1
  BY <1>1, <1>3, PushEffect
<1>5. ASSUME name = "DUP"
      PROVE  stack' = <<stack[n]>> \o stack
  <2>1. stack' = Replace(0, stack[n])
    BY <1>1, <1>3, <1>5, StackEffect, TakeNames
  <2>2. stack \in Seq(Word)
    BY DEF Typed, StackTyped
  <2> QED
    BY <2>1, <2>2, ReplaceNone
<1>6. ASSUME name = "SWAP"
      PROVE  stack' = [stack EXCEPT ![1] = stack[n + 1], ![n + 1] = stack[1]]
  <2>1. stack' = [stack EXCEPT ![1] = stack[Arg[CodeByte]], ![Arg[CodeByte]] = stack[1]]
    BY <1>1, <1>3, <1>6, StackEffect, TakeNames
  <2> QED
    BY <1>3, <1>6, <2>1
<1>7. name = "LOG" => Len(logs'[Len(logs')].topics) = n
  BY <1>1, <1>3, LogEffect
<1>8. name \in {"INVALID", "UNKNOWN"} => gas' = 0 /\ revert'
  BY <1>1, <1>3, InvalidEffect
<1>9. stop' <=> name \in Halting \cup {"UNKNOWN"}
  BY <1>1, <1>3, Halts
<1> QED
  BY <1>4, <1>5, <1>6, <1>7, <1>8, <1>9 DEF Halting

\* The two tables of opcode.rs agree on every one of the 256 bytes: what Display shows
\* for a byte tells what OpCode::execute makes it do.
THEOREM NamesAlwaysTell ==
    ASSUME Computed
    PROVE  Spec => NameTellsEffect
<1> DEFINE Step ==
        Decoding =>
        LET name == ShownName[CodeByte]
            n    == ShownNumber[CodeByte]
        IN  /\ name = Opcode \/ (name = "UNKNOWN" /\ Opcode = "INVALID")
            /\ phase' = "running" =>
                /\ name = "PUSH" => pc' = pc + n + 1
                /\ name = "DUP"  => stack' = <<stack[n]>> \o stack
                /\ name = "SWAP" => stack' = [stack EXCEPT ![1] = stack[n + 1],
                                                           ![n + 1] = stack[1]]
                /\ name = "LOG"  => Len(logs'[Len(logs')].topics) = n
                /\ name \in {"INVALID", "UNKNOWN"} => gas' = 0 /\ revert'
                /\ stop' <=> name \in {"STOP", "RETURN", "REVERT", "INVALID", "UNKNOWN"}
<1>1. Init => Typed
  BY InitTyped
<1>2. Typed /\ [Next]_vars => Typed'
  BY NextTyped
<1>3. Typed /\ [Next]_vars => [Step]_vars
  <2>1. ASSUME Typed, Decoding
        PROVE  ShownName[CodeByte] = Opcode
                 \/ (ShownName[CodeByte] = "UNKNOWN" /\ Opcode = "INVALID")
    BY <2>1, OpcodeByte, SameNames DEF Typed, Opcode
  <2> QED
    BY <2>1, EffectsTell
<1> QED
  BY <1>1, <1>2, <1>3, PTL DEF Spec, NameTellsEffect

-------------------------------------------------------------------------------
(* Bytes that move.                                                            *)

\* Zeros make the word 0.
LEMMA WordOfZeros ==
    ASSUME NEW bytes, NEW n \in Nat, Len(bytes) = n, \A i \in 1 .. n : bytes[i] = 0
    PROVE  WordOf(bytes) = 0
<1> DEFINE H == 256^(WordBytes - 1)
<1>1. PICK f : AddsUp(bytes, n, f) /\ WordOf(bytes) = f[n]
  BY WordOfSums
<1>2. f[0] = 0 /\ \A i \in 1 .. n : f[i] = (f[i - 1] % H) * 256 + bytes[i]
  BY <1>1 DEF AddsUp
<1>3. H \in Nat \ {0}
  BY PowersFacts
<1> HIDE DEF H
<1>4. 0 % H = 0
  BY <1>3
<1> DEFINE T == {i \in 0 .. n : f[i] # 0}
<1>5. T = {}
  <2>1. SUFFICES ASSUME T # {}
                 PROVE  FALSE
    OBVIOUS
  <2>2. T \subseteq Nat
    OBVIOUS
  <2>3. PICK x \in T : \A y \in T : x <= y
    BY <2>1, <2>2, Least
  <2>4. x \in 0 .. n /\ f[x] # 0 /\ x # 0
    BY <1>2
  <2>5. x - 1 \in 0 .. n /\ x - 1 \notin T
    BY <2>3, <2>4
  <2>6. f[x - 1] = 0
    BY <2>5
  <2>7. f[x] = (f[x - 1] % H) * 256 + bytes[x] /\ bytes[x] = 0
    BY <1>2, <2>4
  <2>8. f[x] = 0 * 256 + 0
    BY <1>4, <2>6, <2>7
  <2> QED
    BY <2>4, <2>8
<1> QED
  BY <1>1, <1>5

\* CALLDATALOAD reads the data of the transaction as if zeros followed it.
LEMMA InputPadded ==
    ASSUME NEW offset \in Word, ~InputOverflows(offset), OverflowChecks,
           NEW bytes, bytes = [i \in 1 .. WordBytes |-> Padded(tx.data, offset + i - 1)],
           Len(tx.data) \in Usize
    PROVE  InputWord(offset) = WordOf(bytes)
<1>1. WordBytes \in Nat \ {0} /\ UsizeMod \in Nat \ {0} /\ offset \in Nat
      /\ Len(tx.data) \in Nat /\ Len(tx.data) < UsizeMod
  BY WordBytesAssumption, UsizeAssumption DEF Word, Usize
<1>2. CASE offset \in Usize
  <2>1. offset + WordBytes - 1 < UsizeMod
    BY <1>1, <1>2 DEF InputOverflows
  <2>2. ASSUME NEW i \in 1 .. WordBytes
        PROVE  InputByte((offset + i - 1) % UsizeMod) = Padded(tx.data, offset + i - 1)
    <3> DEFINE p == offset + i - 1
    <3>1. p \in 0 .. UsizeMod - 1
      BY <1>1, <2>1, <2>2
    <3> HIDE DEF p
    <3>2. p % UsizeMod = p
      BY <1>1, <3>1
    <3>3. InputByte(p % UsizeMod) = Padded(tx.data, p)
      BY <3>2 DEF InputByte, Padded
    <3> QED
      BY <3>3 DEF p
  <2>3. [i \in 1 .. WordBytes |-> InputByte((offset + i - 1) % UsizeMod)] = bytes
    BY <2>2
  <2> QED
    BY <1>2, <2>3 DEF InputWord
<1>3. CASE offset \notin Usize
  <2>1. offset >= UsizeMod
    BY <1>1, <1>3 DEF Usize
  <2>2. \A i \in 1 .. WordBytes : bytes[i] = 0
    BY <1>1, <2>1 DEF Padded
  <2>3. Len(bytes) = WordBytes
    BY <1>1
  <2>4. WordOf(bytes) = 0
    BY <1>1, <2>2, <2>3, WordOfZeros
  <2> QED
    BY <1>3, <2>4 DEF InputWord
<1> QED
  BY <1>2, <1>3

\* The slice that a copying instruction cuts off its source: the bytes of the range
\* that the source has.
LEMMA SliceIs ==
    ASSUME NEW source \in Seq(Byte), NEW offset, NEW size,
           ~SlicePanics(Len(source), offset, size),
           NEW slice, slice = SubSeq(source, offset + 1, SliceEnd(Len(source), offset, size))
    PROVE  /\ offset \in Nat /\ size \in Nat
           /\ \A j \in 0 .. size - 1 :
                 (IF j + 1 <= Len(slice) THEN slice[j + 1] ELSE 0) = Padded(source, offset + j)
<1> DEFINE len == Len(source)
           last == SliceEnd(len, offset, size)
<1>1. /\ offset \in Nat /\ size \in Nat /\ offset < UsizeMod /\ size < UsizeMod
      /\ UsizeMod \in Nat \ {0} /\ len \in Nat
  BY UsizeAssumption DEF SlicePanics, Usize
<1>2. ~(offset > last)
  BY DEF SlicePanics
<1>3. last = IF len < End(offset, size) THEN len ELSE End(offset, size)
  BY DEF SliceEnd
<1>4. End(offset, size) = IF offset + size < UsizeMod THEN offset + size
                          ELSE offset + size - UsizeMod
  BY <1>1 DEF End
<1> HIDE DEF len, last
<1>5. End(offset, size) = offset + size
  <2>1. ASSUME End(offset, size) = offset + size - UsizeMod
        PROVE  FALSE
    BY <1>1, <1>2, <1>3, <2>1
  <2> QED
    BY <1>4, <2>1
<1>6. last \in Nat /\ offset <= last /\ last <= len /\ last <= offset + size
      /\ (last = len \/ last = offset + size)
  BY <1>1, <1>2, <1>3, <1>5
<1>7. slice = SubSeq(source, offset + 1, last)
  BY DEF len, last
<1>8. Len(slice) = last - offset /\ \A k \in 1 .. last - offset : slice[k] = source[k + offset]
  <2> DEFINE first == offset + 1
             cut == SubSeq(source, first, last)
  <2>1. first \in Nat /\ 1 <= first /\ first <= last + 1 /\ last <= Len(source)
    BY <1>1, <1>6 DEF len
  <2> HIDE DEF first
  <2>2. Len(cut) = last - first + 1
    BY <1>6, <2>1
  <2>3. \A k \in 1 .. last - first + 1 : cut[k] = source[first + k - 1]
    BY <1>6, <2>1
  <2> HIDE DEF cut
  <2>4. /\ last - first + 1 = last - offset
        /\ \A k \in 1 .. last - offset : first + k - 1 = k + offset
    BY <1>1, <1>6 DEF first
  <2>5. slice = cut
    BY <1>7 DEF cut, first
  <2> QED
    BY <2>2, <2>3, <2>4, <2>5
<1>9. ASSUME NEW j \in 0 .. size - 1
      PROVE  (IF j + 1 <= Len(slice) THEN slice[j + 1] ELSE 0) = Padded(source, offset + j)
  <2>1. j + 1 <= last - offset <=> offset + j < len
    BY <1>1, <1>6, <1>9
  <2>2. ASSUME j + 1 <= last - offset
        PROVE  slice[j + 1] = source[offset + j + 1]
    <3>1. j + 1 \in 1 .. last - offset /\ (j + 1) + offset = offset + j + 1
      BY <1>1, <1>6, <1>9, <2>2
    <3> QED
      BY <1>8, <3>1
  <2> QED
    BY <1>8, <2>1, <2>2 DEF Padded, len
<1> QED
  BY <1>1, <1>9

\* What a write leaves of its range and around it.
LEMMA WrittenIs ==
    ASSUME NEW mem, Len(mem) \in Nat, NEW dest \in Nat, NEW size \in Nat, NEW bytes,
           LenAfter(Len(mem), dest, size) \in Nat,
           NEW i \in DOMAIN Written(mem, dest, size, bytes)
    PROVE  LET j == i - 1 - dest
           IN  /\ i \in Nat \ {0} /\ j \in Int
               /\ Written(mem, dest, size, bytes)[i] =
                    IF j \in 0 .. size - 1
                    THEN IF j + 1 <= Len(bytes) THEN bytes[j + 1] ELSE 0
                    ELSE Padded(mem, i - 1)
<1> DEFINE n == LenAfter(Len(mem), dest, size)
<1>1. i \in 1 .. n
  BY DEF Written
<1>2. n \in Nat /\ i \in Nat \ {0}
  BY <1>1
<1>3. Written(mem, dest, size, bytes)[i] =
        IF i \in dest + 1 .. dest + size
        THEN IF i - dest <= Len(bytes) THEN bytes[i - dest] ELSE 0
        ELSE IF i <= Len(mem) THEN mem[i] ELSE 0
  BY <1>1 DEF Written
<1> DEFINE j == i - 1 - dest
<1>4. j \in Int /\ j + 1 = i - dest /\ (j \in 0 .. size - 1 <=> i \in dest + 1 .. dest + size)
  BY <1>2
<1>5. (IF i <= Len(mem) THEN mem[i] ELSE 0) = Padded(mem, i - 1)
  <2>1. i <= Len(mem) <=> i - 1 < Len(mem)
    BY <1>2
  <2>2. i - 1 + 1 = i
    BY <1>2
  <2> QED
    BY <2>1, <2>2 DEF Padded
<1> HIDE DEF j
<1>6. Written(mem, dest, size, bytes)[i] =
        IF j \in 0 .. size - 1
        THEN IF j + 1 <= Len(bytes) THEN bytes[j + 1] ELSE 0
        ELSE Padded(mem, i - 1)
  BY <1>3, <1>4, <1>5
<1> QED
  BY <1>2, <1>4, <1>6 DEF j

\* CALLDATALOAD, in a build that checks for overflow.
LEMMA CallDataLoadPadded ==
    ASSUME Typed, Completed, phase = "running", Opcode = "CALLDATALOAD", OverflowChecks
    PROVE  stack'[1] =
               WordOf([i \in 1 .. WordBytes |-> Padded(tx.data, stack[1] + i - 1)])
<1>1. CallDataLoad
  BY AluNames
     DEF Completed, ComputeAlu, PushContext, Dup, Swap, Pop, Push, QueryAccount,
         SelfBalance, MLoad, MStore, MStore8, StoreBytes, Copy, MCopy, Keccak256, Log,
         Return, Revert, Halt, SLoad, SStore, TLoad, TStore, Jump, JumpDest, Stop,
         Invalid, AccessMemory, FetchAccess, Fetch, CopyOps,
         ContextOps, TransactionOps, SizeOps, BlockOps, ProgressOps
<1>2. Fetch({"CALLDATALOAD"}) /\ ~InputOverflows(stack[1])
      /\ stack' = Replace(1, InputWord(stack[1]))
  BY <1>1 DEF CallDataLoad, Compute
<1>3. 1 <= Len(stack) /\ Len(stack) \in Nat /\ stack[1] \in Word
  <2>1. /\ CodeByte \in Byte /\ Mnemonic[CodeByte] = "CALLDATALOAD"
        /\ Pops[CodeByte] <= Len(stack) /\ Len(stack) \in Nat
        /\ \A i \in 1 .. Len(stack) : stack[i] \in Word
    BY <1>2, Operands DEF Typed
  <2>2. 1 <= Len(stack)
    BY <2>1, PopsTable DEF UnaryOps
  <2> QED
    BY <2>1, <2>2
<1>4. Len(tx.data) \in Usize
  BY RunningTransaction, TransactionsAssumption DEF Typed
<1> DEFINE bytes == [i \in 1 .. WordBytes |-> Padded(tx.data, stack[1] + i - 1)]
           w == InputWord(stack[1])
<1>5. w = WordOf(bytes)
  BY <1>2, <1>3, <1>4, InputPadded
<1>6. stack' = Replace(1, w)
  BY <1>2
<1> HIDE DEF w, bytes
<1>7. Replace(1, w)[1] = w
  BY <1>3 DEF Replace
<1> QED
  BY <1>5, <1>6, <1>7 DEF bytes

\* The four instructions that copy into the memory from elsewhere.
LEMMA CopyPadded ==
    ASSUME Typed, Completed, phase = "running", Opcode \in CopyOps, NEW i \in DOMAIN memory'
    PROVE  LET j == i - 1 - Operand(1)
           IN  memory'[i] = IF j \in 0 .. Operand(3) - 1
                            THEN Padded(Source(Opcode), Operand(2) + j)
                            ELSE Padded(memory, i - 1)
<1>1. Copy
  BY AluNames
     DEF Completed, ComputeAlu, PushContext, Dup, Swap, Pop, Push, CallDataLoad, QueryAccount,
         SelfBalance, MLoad, MStore, MStore8, StoreBytes, MCopy, Keccak256, Log,
         Return, Revert, Halt, SLoad, SStore, TLoad, TStore, Jump, JumpDest, Stop,
         Invalid, AccessMemory, FetchAccess, Fetch, CopyOps,
         ContextOps, TransactionOps, SizeOps, BlockOps, ProgressOps
<1> DEFINE source == Source(Opcode)
           dest   == Operand(1)
           offset == Operand(2)
           size   == Operand(3)
           slice  == SubSeq(source, offset + 1, SliceEnd(Len(source), offset, size))
<1>2. AccessStatus = "ok" /\ memory' = Written(memory, dest, size, slice)
  BY <1>1 DEF Copy, AccessMemory
<1>3. source \in Seq(Byte)
  <2>1. AccountIn(accounts, stack[1]).code \in Seq(Byte)
    BY AccountTyped DEF Typed, WorldTyped
  <2>2. tx.data \in Seq(Byte) /\ code \in Seq(Byte)
    BY RunningTransaction, TransactionsAssumption DEF Typed, ContextTyped
  <2> QED
    BY <2>1, <2>2 DEF CopyOps, Source
<1>4. ~SlicePanics(Len(source), offset, size)
  BY <1>2 DEF AccessStatus, CopyStatus, CopyOps
<1>5. InBounds(dest, size) /\ Len(memory) \in Nat
  BY <1>2, AccessInBounds DEF Typed, BuffersTyped
<1>6. dest \in Nat /\ size \in Nat /\ LenAfter(Len(memory), dest, size) \in Nat
  BY <1>5, ExpansionCostNat DEF InBounds, Usize
<1> HIDE DEF source, dest, offset, size, slice
<1> DEFINE j == i - 1 - dest
<1>7. /\ i \in Nat \ {0} /\ j \in Int
      /\ memory'[i] = IF j \in 0 .. size - 1
                      THEN IF j + 1 <= Len(slice) THEN slice[j + 1] ELSE 0
                      ELSE Padded(memory, i - 1)
  BY <1>2, <1>5, <1>6, WrittenIs
<1>8. \A k \in 0 .. size - 1 :
          (IF k + 1 <= Len(slice) THEN slice[k + 1] ELSE 0) = Padded(source, offset + k)
  BY <1>3, <1>4, SliceIs DEF slice
<1> HIDE DEF j
<1>9. memory'[i] = IF j \in 0 .. size - 1 THEN Padded(source, offset + j)
                   ELSE Padded(memory, i - 1)
  BY <1>7, <1>8
<1> QED
  BY <1>9 DEF j, source, dest, offset, size

\* MCOPY, whose source and destination may overlap.
LEMMA MCopyPadded ==
    ASSUME Typed, Completed, phase = "running", Opcode = "MCOPY", NEW i \in DOMAIN memory'
    PROVE  LET j == i - 1 - Operand(1)
           IN  memory'[i] = IF j \in 0 .. Operand(3) - 1
                            THEN Padded(memory, Operand(2) + j)
                            ELSE Padded(memory, i - 1)
<1>1. MCopy
  BY AluNames
     DEF Completed, ComputeAlu, PushContext, Dup, Swap, Pop, Push, CallDataLoad, QueryAccount,
         SelfBalance, MLoad, MStore, MStore8, StoreBytes, Copy, Keccak256, Log,
         Return, Revert, Halt, SLoad, SStore, TLoad, TStore, Jump, JumpDest, Stop,
         Invalid, AccessMemory, FetchAccess, Fetch, CopyOps,
         ContextOps, TransactionOps, SizeOps, BlockOps, ProgressOps
<1> DEFINE dest   == stack[1]
           offset == stack[2]
           size   == stack[3]
           grown  == Extended(memory, offset, size)
           bytes  == Read(memory, offset, size)
<1>2. AccessStatus = "ok" /\ memory' = Written(grown, dest, size, bytes)
  BY <1>1 DEF MCopy, AccessMemory
<1>3. Operand(1) = dest /\ Operand(2) = offset /\ Operand(3) = size
  BY DEF Operand
<1>4. InBounds(dest, size) /\ InBounds(offset, size) /\ Len(memory) \in Nat
  BY <1>2, AccessInBounds DEF Typed, BuffersTyped
<1>5. /\ dest \in Nat /\ size \in Nat /\ offset \in Nat
      /\ Len(grown) = LenAfter(Len(memory), offset, size)
      /\ Len(grown) \in Nat /\ Len(memory) <= Len(grown)
  BY <1>4, ExpansionCostNat, BufferLengths DEF InBounds, Usize
<1>6. LenAfter(Len(grown), dest, size) \in Nat
  BY <1>4, <1>5, ExpansionCostNat
<1>7. grown = [k \in 1 .. Len(grown) |-> IF k <= Len(memory) THEN memory[k] ELSE 0]
  BY <1>5 DEF Extended
<1>8. bytes = [k \in 1 .. size |-> IF offset + k <= Len(memory) THEN memory[offset + k] ELSE 0]
      /\ Len(bytes) = size
  <2>1. Len(bytes) = size
    BY <1>4, BufferLengths
  <2> QED
    BY <2>1 DEF Read
<1> HIDE DEF grown, bytes, dest, offset, size
<1> DEFINE j == i - 1 - dest
<1>9. /\ i \in Nat \ {0} /\ j \in Int
      /\ memory'[i] = IF j \in 0 .. size - 1
                      THEN IF j + 1 <= Len(bytes) THEN bytes[j + 1] ELSE 0
                      ELSE Padded(grown, i - 1)
  BY <1>2, <1>5, <1>6, WrittenIs
<1>10. Padded(grown, i - 1) = Padded(memory, i - 1)
  <2>1. i - 1 + 1 = i /\ (i - 1 < Len(grown) <=> i \in 1 .. Len(grown))
        /\ (i - 1 < Len(memory) <=> i <= Len(memory))
    BY <1>4, <1>5, <1>9
  <2> QED
    BY <1>5, <1>7, <1>9, <2>1 DEF Padded
<1> HIDE DEF j
<1>11. ASSUME j \in 0 .. size - 1
       PROVE  (IF j + 1 <= Len(bytes) THEN bytes[j + 1] ELSE 0) = Padded(memory, offset + j)
  <2>1. j + 1 \in 1 .. size /\ j + 1 <= Len(bytes)
    BY <1>5, <1>8, <1>11
  <2>2. bytes[j + 1] = IF offset + (j + 1) <= Len(memory) THEN memory[offset + (j + 1)] ELSE 0
    BY <1>8, <2>1
  <2>3. offset + (j + 1) = offset + j + 1
        /\ (offset + j + 1 <= Len(memory) <=> offset + j < Len(memory))
    BY <1>4, <1>5, <1>11
  <2> QED
    BY <2>1, <2>2, <2>3 DEF Padded
<1>12. memory'[i] = IF j \in 0 .. size - 1 THEN Padded(memory, offset + j)
                    ELSE Padded(memory, i - 1)
  BY <1>9, <1>10, <1>11
<1> QED
  BY <1>3, <1>12 DEF j

\* Whatever the offset, and whether the ranges of a copy overlap or not, the
\* instructions that read a source read zeros after its end, and a copy changes no
\* byte outside its range.
THEOREM ReadsAlwaysPadded ==
    ASSUME Computed
    PROVE  Spec => ReadsAreZeroPadded
<1> DEFINE Step ==
        Decoding /\ phase' = "running" =>
        /\ Opcode = "CALLDATALOAD" /\ OverflowChecks =>
              stack'[1] = WordOf([i \in 1 .. WordBytes |->
                                    Padded(tx.data, stack[1] + i - 1)])
        /\ Opcode \in CopyOps \cup {"MCOPY"} =>
              LET source == IF Opcode = "MCOPY" THEN memory ELSE Source(Opcode)
              IN  \A i \in DOMAIN memory' :
                    LET j == i - 1 - Operand(1)
                    IN  memory'[i] = IF j \in 0 .. Operand(3) - 1
                                     THEN Padded(source, Operand(2) + j)
                                     ELSE Padded(memory, i - 1)
<1>1. Init => Typed
  BY InitTyped
<1>2. Typed /\ [Next]_vars => Typed'
  BY NextTyped
<1>3. Typed /\ [Next]_vars => [Step]_vars
  <2>1. SUFFICES ASSUME Typed, Next, Decoding, phase' = "running"
                 PROVE  Step
    OBVIOUS
  <2>2. Completed /\ phase = "running"
    BY <2>1, GoesOn DEF Decoding
  <2>3. "MCOPY" \notin CopyOps
    BY DEF CopyOps
  <2>4. ASSUME Opcode = "MCOPY"
        PROVE  \A i \in DOMAIN memory' :
                    LET j == i - 1 - Operand(1)
                    IN  memory'[i] = IF j \in 0 .. Operand(3) - 1
                                     THEN Padded(memory, Operand(2) + j)
                                     ELSE Padded(memory, i - 1)
    BY <2>1, <2>2, <2>4, MCopyPadded
  <2>5. ASSUME Opcode \in CopyOps
        PROVE  \A i \in DOMAIN memory' :
                    LET j == i - 1 - Operand(1)
                    IN  memory'[i] = IF j \in 0 .. Operand(3) - 1
                                     THEN Padded(Source(Opcode), Operand(2) + j)
                                     ELSE Padded(memory, i - 1)
    BY <2>1, <2>2, <2>5, CopyPadded
  <2> QED
    BY <2>1, <2>2, <2>3, <2>4, <2>5, CallDataLoadPadded
<1> QED
  BY <1>1, <1>2, <1>3, PTL DEF Spec, ReadsAreZeroPadded

-------------------------------------------------------------------------------
(* The gas that instructions leave.                                            *)

\* The instruction has been settled at a cost.
Costly == \E acc, cost, next : cost \in Nat \ {0} /\ Settle(acc, cost, next)

\* Arithmetic and logic cost something, whatever the operands.
LEMMA AluCostly ==
    ASSUME ComputeAlu
    PROVE  Costly
<1> DEFINE args == [i \in 1 .. Pops[CodeByte] |-> stack[i]]
           cost == AluCost(Opcode, args)
<1>1. cost \in Nat \ {0}
  <2>1. NeededSize(args[2]) \in Nat
    BY NeededSizeNat
  <2> HIDE DEF args
  <2> QED
    BY <2>1 DEF AluCost
<1>2. Settle(accounts, cost, pc + 1)
  BY DEF ComputeAlu, Compute
<1> QED
  BY <1>1, <1>2 DEF Costly

\* So do the other instructions that push one word and leave memory alone ...
LEMMA PushesCostly ==
    ASSUME \/ PushContext \/ Dup \/ CallDataLoad \/ \E n \in 0 .. 32 : Push(n)
           \/ QueryAccount \/ SelfBalance \/ SLoad \/ TLoad
    PROVE  Costly
<1>1. \A a, slot : AccessCost(accounts, a) \in Nat \ {0} /\ SLoadCost(slot) \in Nat \ {0}
  BY DEF AccessCost, SLoadCost
<1>2. ASSUME NEW n, NEW w, NEW acc, NEW cost \in Nat \ {0}, NEW next,
             Compute(n, w, acc, cost, next)
      PROVE  Costly
  BY <1>2 DEF Compute, Costly
<1>3. CASE PushContext
  BY <1>2, <1>3, 2 \in Nat \ {0} DEF PushContext
<1>4. CASE Dup \/ CallDataLoad
  BY <1>2, <1>4, 3 \in Nat \ {0} DEF Dup, CallDataLoad
<1>5. ASSUME NEW n \in 0 .. 32, Push(n)
      PROVE  Costly
  BY <1>2, <1>5, (IF n = 0 THEN 2 ELSE 3) \in Nat \ {0} DEF Push
<1>6. CASE QueryAccount
  BY <1>1, <1>2, <1>6 DEF QueryAccount
<1>7. CASE SelfBalance
  BY <1>2, <1>7, 5 \in Nat \ {0} DEF SelfBalance
<1>8. CASE SLoad
  BY <1>1, <1>2, <1>8 DEF SLoad
<1>9. CASE TLoad
  BY <1>2, <1>9, 100 \in Nat \ {0} DEF TLoad
<1> QED
  BY <1>3, <1>4, <1>5, <1>6, <1>7, <1>8, <1>9

\* ... those that access memory, whatever it already covers ...
LEMMA AccessesCostly ==
    ASSUME BuffersOK,
           \/ MLoad \/ MStore \/ MStore8 \/ Copy \/ MCopy \/ Keccak256
           \/ \E n \in 0 .. 4 : Log(n)
    PROVE  Costly
<1>1. ASSUME NEW ops, AccessMemory(ops)
      PROVE  Opcode \in ops /\ AccessStatus = "ok"
  BY <1>1 DEF AccessMemory, FetchAccess, Fetch
<1>2. CASE MLoad
  <2>1. InBounds(stack[1], WordBytes) /\ Settle(accounts, 3 + Expansion(stack[1], WordBytes), pc + 1)
    BY <1>1, <1>2, AccessInBounds DEF MLoad
  <2>2. 3 + Expansion(stack[1], WordBytes) \in Nat \ {0}
    BY <2>1, AccessSizes
  <2> QED
    BY <2>1, <2>2 DEF Costly
<1>3. ASSUME NEW op \in {"MSTORE", "MSTORE8"}, NEW n, StoreBytes(op, n),
             op = "MSTORE" => n = WordBytes, op = "MSTORE8" => n = 1
      PROVE  Costly
  <2>1. InBounds(stack[1], n) /\ Settle(accounts, 3 + Expansion(stack[1], n), pc + 1)
    BY <1>1, <1>3, AccessInBounds DEF StoreBytes
  <2>2. 3 + Expansion(stack[1], n) \in Nat \ {0}
    BY <2>1, AccessSizes
  <2> QED
    BY <2>1, <2>2 DEF Costly
<1>4. CASE Copy
  <2> DEFINE dest == Operand(1)
             size == Operand(3)
             cost == CopyCost(Opcode, accounts, dest, size)
  <2>1. InBounds(dest, size) /\ Settle(CopiedFrom, cost, pc + 1)
    BY <1>1, <1>4, AccessInBounds DEF Copy
  <2>2. cost \in Nat \ {0}
    <3>1. (IF Opcode = "EXTCODECOPY" THEN AccessCost(accounts, stack[1]) ELSE 3) \in Nat \ {0}
      BY DEF AccessCost
    <3>2. Words(size) \in Nat /\ Expansion(dest, size) \in Nat
      BY <2>1, AccessSizes
    <3> QED
      BY <3>1, <3>2 DEF CopyCost
  <2> QED
    BY <2>1, <2>2 DEF Costly
<1>5. CASE MCopy
  <2> DEFINE grown == Extended(memory, stack[2], stack[3])
             cost  == 3 + 3 * Words(stack[3]) + Expansion(stack[2], stack[3])
                        + ExpansionCost(Len(grown), stack[1], stack[3])
  <2>1. InBounds(stack[2], stack[3]) /\ InBounds(stack[1], stack[3])
    BY <1>1, <1>5, AccessInBounds DEF MCopy
  <2>2. Len(grown) \in Nat /\ Words(stack[3]) \in Nat /\ Expansion(stack[2], stack[3]) \in Nat
    BY <2>1, AccessSizes
  <2>3. ExpansionCost(Len(grown), stack[1], stack[3]) \in Nat
    BY <2>1, <2>2, ExpansionCostNat
  <2>4. cost \in Nat \ {0}
    BY <2>2, <2>3
  <2>5. Settle(accounts, cost, pc + 1)
    BY <1>5 DEF MCopy
  <2> QED
    BY <2>4, <2>5 DEF Costly
<1>6. CASE Keccak256
  <2> DEFINE cost == 30 + 6 * Words(stack[2]) + Expansion(stack[1], stack[2])
  <2>1. InBounds(stack[1], stack[2]) /\ Settle(accounts, cost, pc + 1)
    BY <1>1, <1>6, AccessInBounds DEF Keccak256
  <2>2. cost \in Nat \ {0}
    BY <2>1, AccessSizes
  <2> QED
    BY <2>1, <2>2 DEF Costly
<1>7. ASSUME NEW n \in 0 .. 4, Log(n)
      PROVE  Costly
  <2> DEFINE cost == 375 * (n + 1) + 8 * stack[2] + Expansion(stack[1], stack[2])
  <2>1. InBounds(stack[1], stack[2]) /\ Settle(accounts, cost, pc + 1)
    BY <1>1, <1>7, AccessInBounds DEF Log
  <2>2. cost \in Nat \ {0}
    BY <2>1, AccessSizes
  <2> QED
    BY <2>1, <2>2 DEF Costly
<1> QED
  BY <1>2, <1>3, <1>4, <1>5, <1>6, <1>7 DEF MStore, MStore8

\* ... and all others that do not halt.
LEMMA OthersCostly ==
    ASSUME Swap \/ Pop \/ SStore \/ TStore \/ Jump \/ JumpDest
    PROVE  Costly
<1>1. \A slot, value : SStoreCost(slot, value) \in Nat \ {0}
  BY DEF SStoreCost
<1>2. CASE Swap
  BY <1>2, 3 \in Nat \ {0} DEF Swap, Costly
<1>3. CASE Pop
  BY <1>3, 2 \in Nat \ {0} DEF Pop, Costly
<1>4. CASE SStore
  BY <1>1, <1>4 DEF SStore, Costly
<1>5. CASE TStore
  BY <1>5, 100 \in Nat \ {0} DEF TStore, Costly
<1>6. CASE Jump
  BY <1>6, (IF Opcode = "JUMP" THEN 8 ELSE 10) \in Nat \ {0} DEF Jump, Costly
<1>7. CASE JumpDest
  BY <1>7, 1 \in Nat \ {0} DEF JumpDest, Costly
<1> QED
  BY <1>2, <1>3, <1>4, <1>5, <1>6, <1>7

\* An instruction after which the loop goes on leaves less gas than it found.
LEMMA GasFalls ==
    ASSUME Control, Next, Decoding, phase' = "running"
    PROVE  stop' \/ gas' < gas
<1>1. Completed
  BY GoesOn
<1>2. CASE Return \/ Revert \/ Stop \/ Invalid
  BY <1>2 DEF Return, Revert, Halt, Stop, Invalid
<1>3. CASE ~(Return \/ Revert \/ Stop \/ Invalid)
  <2>1. Costly
    BY <1>1, <1>3, AluCostly, PushesCostly, AccessesCostly, OthersCostly DEF Completed, Control
  <2>2. PICK acc, cost, next : cost \in Nat \ {0} /\ Settle(acc, cost, next)
    BY <2>1 DEF Costly
  <2>3. phase = "running" /\ gas \in Nat
    BY RunningTransaction DEF Decoding
  <2>4. gas' = gas - cost
    BY <2>2, <2>3, PaidFor
  <2> QED
    BY <2>2, <2>3, <2>4
<1> QED
  BY <1>2, <1>3

\* The loop of execute_transaction pays for every turn: whatever the code, the gas and
\* the operands, a turn that does not halt leaves less gas for the next.
THEOREM GasAlwaysRunsOut == Spec => GasRunsOut
<1>1. Init => Control
  BY InitControl
<1>2. Control /\ [Next]_vars => Control'
  BY NextControl
<1>3. Control /\ [Next]_vars => [Decoding /\ phase' = "running" => stop' \/ gas' < gas]_vars
  BY GasFalls
<1> QED
  BY <1>1, <1>2, <1>3, PTL DEF Spec, GasRunsOut

-------------------------------------------------------------------------------
(* The balances that instructions read.                                        *)

\* What has been charged so far: at most the price of the gas, and exactly that in a
\* build that checks for overflow.
Charges == Typed /\ Covered /\ Charging /\ (OverflowChecks => Ongoing)

\* An instruction that goes on after reading a balance has read the one its account
\* had before the instruction itself was paid for.
LEMMA BalanceRead ==
    ASSUME Typed, Next, Fetch({"BALANCE", "SELFBALANCE"}), phase' = "running",
           NEW a, a = (IF Opcode = "SELFBALANCE" THEN address ELSE stack[1])
    PROVE  phase = "running" /\ stack'[1] = BalanceOf(accounts, a)
<1>1. Opcode \in {"BALANCE", "SELFBALANCE"} /\ Decoding /\ phase = "running"
  BY DEF Fetch, Decoding
<1>2. Completed
  BY <1>1, GoesOn
<1>3. "BALANCE" \notin AluOps /\ "SELFBALANCE" \notin AluOps
  BY AluNames
<1>4. "BALANCE" \notin ContextOps /\ "SELFBALANCE" \notin ContextOps
  BY DEF ContextOps, TransactionOps, SizeOps, BlockOps, ProgressOps
<1>5. QueryAccount \/ SelfBalance
  BY <1>1, <1>2, <1>3, <1>4
     DEF Completed, ComputeAlu, PushContext, Dup, Swap, Pop, Push, CallDataLoad,
         MLoad, MStore, MStore8, StoreBytes, Copy, MCopy, Keccak256, Log,
         Return, Revert, Halt, SLoad, SStore, TLoad, TStore, Jump, JumpDest, Stop,
         Invalid, AccessMemory, FetchAccess, Fetch, CopyOps
<1>6. Len(stack) \in Nat
  BY DEF Typed, StackTyped
<1>7. PICK n \in {0, 1} : n <= Len(stack) /\ stack' = Replace(n, BalanceOf(accounts, a))
  <2>1. CASE Opcode = "BALANCE"
    <3>1. QueryAccount /\ a = stack[1]
      BY <1>5, <2>1 DEF SelfBalance, Fetch
    <3>2. stack' = Replace(1, AccountField(Opcode, AccountIn(accounts, stack[1])))
      BY <3>1 DEF QueryAccount, Compute
    <3>3. AccountField(Opcode, AccountIn(accounts, stack[1])) = BalanceOf(accounts, a)
      BY <2>1, <3>1 DEF AccountField, BalanceOf
    <3>4. 1 <= Len(stack)
      BY <2>1, OneOperand DEF UnaryOps, Typed, EffectsTyped
    <3> QED
      BY <3>2, <3>3, <3>4
  <2>2. CASE Opcode = "SELFBALANCE"
    <3>1. SelfBalance /\ a = address
      BY <1>5, <2>2 DEF QueryAccount, Fetch
    <3>2. stack' = Replace(0, BalanceOf(accounts, a))
      BY <3>1 DEF SelfBalance, Compute, BalanceOf
    <3> QED
      BY <1>6, <3>2
  <2> QED
    BY <1>1, <2>1, <2>2
<1>8. 1 \in 1 .. Len(stack) - n + 1
  BY <1>6, <1>7
<1> QED
  BY <1>1, <1>7, <1>8 DEF Replace

\* It is the one from before the run, less the fees of the sender.
LEMMA BalanceStep ==
    ASSUME Charges, Next, Fetch({"BALANCE", "SELFBALANCE"}), phase' = "running"
    PROVE  LET a    == IF Opcode = "SELFBALANCE" THEN address ELSE stack[1]
               held == BalanceOf(opening.accounts, a)
           IN  IF a # tx.from THEN stack'[1] = held
               ELSE OverflowChecks => stack'[1] = held - (tx.gas - gas) * tx.gas_price
<1> DEFINE a == IF Opcode = "SELFBALANCE" THEN address ELSE stack[1]
<1>1. phase = "running" /\ stack'[1] = BalanceOf(accounts, a)
  BY BalanceRead DEF Charges
<1> HIDE DEF a
<1>2. CASE a # tx.from
  BY <1>1, <1>2 DEF Charges, Charging, Within, a
<1>3. CASE a = tx.from
  BY <1>1, <1>3 DEF Charges, Ongoing, Moved, a
<1> QED
  BY <1>2, <1>3 DEF a

\* Whatever a run has loaded and paid by then, BALANCE and SELFBALANCE answer with the
\* money of before the run, less the fees its sender has paid: the value of a call or
\* of a creation is not there while its code runs.
THEOREM BalancesAlwaysSeen ==
    ASSUME Computed
    PROVE  Spec => BalancesSeen
<1>1. Init => Charges
  BY InitTyped, InitCharging, InitBooks DEF Charges, Init, Covered
<1>2. Charges /\ [Next]_vars => Charges'
  <2>1. Charges => Control
    BY DEF Charges, Typed
  <2> QED
    BY <2>1, NextTyped, NextCovered, NextCharging, NextBooks DEF Charges
<1>3. Charges /\ [Next]_vars =>
        [ Fetch({"BALANCE", "SELFBALANCE"}) /\ phase' = "running" =>
          LET a    == IF Opcode = "SELFBALANCE" THEN address ELSE stack[1]
              held == BalanceOf(opening.accounts, a)
          IN  IF a # tx.from THEN stack'[1] = held
              ELSE OverflowChecks =>
                       stack'[1] = held - (tx.gas - gas) * tx.gas_price ]_vars
  BY BalanceStep
<1> QED
  BY <1>1, <1>2, <1>3, PTL DEF Spec, BalancesSeen

===============================================================================
