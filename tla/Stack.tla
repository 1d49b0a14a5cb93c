--------------------------------- MODULE Stack ---------------------------------
(***************************************************************************)
(* The Stack of src/machine/stack.rs, as the instructions use it: pop and  *)
(* push move one word at a time and keep a count, `top', beside the vector *)
(* they move it from and to; pop_or_fail and push_rev_or_fail call them in *)
(* a loop, and may find the stack too short or too full in the middle.     *)
(***************************************************************************)
EXTENDS Integers, SequencesExt

CONSTANTS
    Values,     \* the words
    StackSize,  \* 1024
    MaxArity    \* the most words an instruction pops

ASSUME StackAssumption == StackSize \in Nat \ {0} /\ MaxArity \in Nat

VARIABLES
    arr,        \* the words, top last
    top,        \* Stack.top: the index of the last word, -1 when there is none
    status,     \* "ready", "popping" or "pushing" within an instruction, an error
    shape,      \* what the instruction does with its operands
    need,       \* how many it pops
    popped,     \* the array that pop_or_fail fills
    pending,    \* what push_rev_or_fail has still to push, in its order
    before      \* history: the stack when the instruction began, top first

stackVars == <<arr, top, status, shape, need, popped, pending, before>>

Errors == {"EmptyStack", "StackOverflow"}
Shapes == {"take", "compute", "dup", "swap"}

\* Stack::new, in a new context.
New ==
    /\ arr = <<>> /\ top = -1
    /\ status = "ready" /\ shape = "take" /\ need = 0
    /\ popped = <<>> /\ pending = <<>> /\ before = <<>>

\* An instruction of shape s that pops n words begins.
Begin(s, n) ==
    /\ status = "ready"
    /\ s \in {"dup", "swap"} => n > 0
    /\ status' = "popping"
    /\ shape' = s /\ need' = n
    /\ popped' = <<>>
    /\ before' = Reverse(arr)
    /\ UNCHANGED <<arr, top, pending>>

\* Mutant: the count stays behind.
PopOneUncounted ==
    /\ status = "popping" /\ Len(popped) < need
    /\ arr # <<>>
    /\ arr' = Front(arr) /\ top' = top
    /\ popped' = Append(popped, Last(arr))
    /\ UNCHANGED <<status, shape, need, pending, before>>

PopOne ==
    /\ status = "popping" /\ Len(popped) < need
    /\ arr # <<>>
    /\ arr' = Front(arr) /\ top' = top - 1
    /\ popped' = Append(popped, Last(arr))
    /\ UNCHANGED <<status, shape, need, pending, before>>

\* The words popped so far are lost.
PopFails ==
    /\ status = "popping" /\ Len(popped) < need
    /\ arr = <<>>
    /\ status' = "EmptyStack"
    /\ UNCHANGED <<arr, top, shape, need, popped, pending, before>>

\* Mutant: the words are pushed back as they came.
ResultsInOrder(s, args, w) ==
    LET n == Len(args)
    IN  CASE s = "take"    -> <<>>
          [] s = "compute" -> <<w>>
          [] s = "dup"     -> args \o <<args[n]>>
          [] s = "swap"    -> [args EXCEPT ![1] = args[n], ![n] = args[1]]

\* What an instruction pushes, in order, once it has popped args: push_rev_or_fail
\* starts with the last of its values.
Results(s, args, w) ==
    LET n == Len(args)
    IN  CASE s = "take"    -> <<>>
          [] s = "compute" -> <<w>>
          [] s = "dup"     -> Reverse(args) \o <<args[n]>>
          [] s = "swap"    -> Reverse([args EXCEPT ![1] = args[n], ![n] = args[1]])

\* The operands are complete: w is what the instruction computes, if it does.
Use(w) ==
    /\ status = "popping" /\ Len(popped) = need
    /\ status' = "pushing"
    /\ pending' = Results(shape, popped, w)
    /\ UNCHANGED <<arr, top, shape, need, popped, before>>

\* The test is an equality: it stops nothing once `top' is out of step.
PushOne ==
    /\ status = "pushing" /\ pending # <<>>
    /\ top + 1 # StackSize
    /\ arr' = Append(arr, Head(pending)) /\ top' = top + 1
    /\ pending' = Tail(pending)
    /\ UNCHANGED <<status, shape, need, popped, before>>

PushFails ==
    /\ status = "pushing" /\ pending # <<>>
    /\ top + 1 = StackSize
    /\ status' = "StackOverflow"
    /\ UNCHANGED <<arr, top, shape, need, popped, pending, before>>

Done ==
    /\ status = "pushing" /\ pending = <<>>
    /\ status' = "ready"
    /\ UNCHANGED <<arr, top, shape, need, popped, pending, before>>

\* The run is over: the next one has a context of its own.
Renew ==
    /\ status \in Errors \cup {"ready"}
    /\ arr' = <<>> /\ top' = -1
    /\ status' = "ready" /\ shape' = "take" /\ need' = 0
    /\ popped' = <<>> /\ pending' = <<>> /\ before' = <<>>

StackNext ==
    \/ \E s \in Shapes, n \in 0 .. MaxArity : Begin(s, n)
    \/ PopOne \/ PopFails
    \/ \E w \in Values : Use(w)
    \/ PushOne \/ PushFails \/ Done
    \/ Renew

StackSpec == New /\ [][StackNext]_stackVars

-------------------------------------------------------------------------------

\* The count that push tests is the length of the vector, in the middle of an
\* instruction too, and no order of pops and pushes makes the vector too long.
TopIsLast == top = Len(arr) - 1 /\ Len(arr) <= StackSize

\* Seen from the instructions, the stack is the one of StackContract: the words
\* that travel through pop_or_fail and push_rev_or_fail come back in their order, and a
\* run ends with an error only if there were too few operands when the instruction began,
\* or if it began on a full stack that it would leave with one word more.
Contract == INSTANCE StackContract
    WITH Operations <- [shape : Shapes, arity : 0 .. MaxArity],
         words      <- IF status = "ready" THEN Reverse(arr)
                       ELSE IF status \in Errors THEN <<>> ELSE before,
         next       <- IF status \in Errors \cup {"ready"} THEN [shape |-> "none", arity |-> 0]
                       ELSE [shape |-> shape, arity |-> need],
         outcome    <- IF status \in Errors THEN status ELSE "ok"

WorksAtOnce == Contract!ContractSpec

===============================================================================
