----------------------------- MODULE StackContract -----------------------------
(***************************************************************************)
(* What the instructions of a context and its stack promise each other: an *)
(* instruction takes its operands and leaves its results in one step, and  *)
(* when the stack is too short or too full the run ends with an error.     *)
(* Both the Stack of src/machine/stack.rs, which works one word at a time, *)
(* and the interpreter as a whole implement it.  The stack is written top  *)
(* first.                                                                  *)
(***************************************************************************)
EXTENDS Integers, Sequences

CONSTANTS
    Values,      \* the words
    StackSize,   \* 1024
    Operations   \* the instructions: records of a shape and an arity

VARIABLES
    words,      \* the stack, top first
    next,       \* the instruction under way: an operation, or None
    outcome     \* "ok", or the error of the stack that ended the run

contract == <<words, next, outcome>>

\* What the stack sees of no instruction at all.
None == [shape |-> "none", arity |-> 0]

ContractInit == words = <<>> /\ next = None /\ outcome = "ok"

\* The code comes to an instruction.
Begin ==
    /\ next = None /\ next' \in Operations
    /\ outcome' = "ok"
    /\ UNCHANGED words

\* The stack without the operands.
Rest == SubSeq(words, next.arity + 1, Len(words))

\* An instruction that only has operands.
Take ==
    /\ next.shape = "take"
    /\ words' = Rest

\* One that computes a word from them.
Compute ==
    /\ next.shape = "compute"
    /\ Len(words) - next.arity < StackSize
    /\ words' # <<>> /\ words'[1] \in Values
    /\ Tail(words') = Rest

Dup ==
    /\ next.shape = "dup"
    /\ Len(words) < StackSize
    /\ words' = <<words[next.arity]>> \o words

Swap ==
    /\ next.shape = "swap"
    /\ words' = [words EXCEPT ![1] = words[next.arity], ![next.arity] = words[1]]

\* The instruction is done; another one may be under way at once.
Succeeds ==
    /\ Len(words) >= next.arity
    /\ Take \/ Compute \/ Dup \/ Swap
    /\ next' \in Operations \cup {None}
    /\ UNCHANGED outcome

\* The run ends with an error, and its stack with it: the operands are not all there,
\* or they are, on a full stack, and the instruction leaves one word more than it found.
Fails(error) ==
    /\ outcome' = error
    /\ words' = <<>> /\ next' = None

EmptyStack == Len(words) < next.arity /\ Fails("EmptyStack")

Grows == next.shape = "dup" \/ (next.shape = "compute" /\ next.arity = 0)

StackOverflow ==
    /\ Grows /\ Len(words) >= next.arity
    /\ Len(words) = StackSize
    /\ Fails("StackOverflow")

\* The run is over for another reason.
Renew == Fails("ok")

ContractNext ==
    \/ Begin
    \/ next # None /\ (Succeeds \/ EmptyStack \/ StackOverflow)
    \/ Renew

ContractSpec == ContractInit /\ [][ContractNext]_contract

===============================================================================
