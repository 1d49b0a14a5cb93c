-------------------------------- MODULE Memory ---------------------------------
(***************************************************************************)
(* The Memory of src/machine/memory.rs as a component: the five calls an   *)
(* instruction makes of it, each of which checks its range, extends the    *)
(* vector to whole words, reads or writes, and answers what the extension  *)
(* costs.  A word is the sequence of its bytes.                            *)
(***************************************************************************)
EXTENDS MemoryOps

CONSTANTS
    Offsets,  \* the offsets of the calls, some of them beyond usize
    Sizes,    \* the sizes of the calls that take one
    Data      \* the byte sequences that are stored

\* Offsets and sizes are words, of which usize is a part.
ASSUME CallsAssumption ==
    /\ Offsets \subseteq Nat /\ Sizes \subseteq Nat
    /\ \A data \in Data : Len(data) \in Nat

VARIABLES
    bytes,    \* Memory.0
    call,     \* the last call
    reply,    \* the ReadWriteOperation or the error it returned
    charged   \* history: the extension costs of all calls

memoryVars == <<bytes, call, reply, charged>>

NoBytes == <<>>

Reply(status, extension_size, extension_cost, data) ==
    [status |-> status, extension_size |-> extension_size,
     extension_cost |-> extension_cost, result |-> data]

\* Memory::new
MemoryInit ==
    /\ bytes = <<>>
    /\ call = [kind |-> "load", offset |-> 0, size |-> 0, bytes |-> NoBytes]
    /\ reply = Reply("none", 0, 0, NoBytes)
    /\ charged = 0

Called(kind, offset, size, data) ==
    /\ reply.status # "panic"
    /\ call' = [kind |-> kind, offset |-> offset, size |-> size, bytes |-> data]

Answer(offset, size, data) ==
    LET cost == ExpansionCost(Len(bytes), offset, size)
    IN  /\ reply' = Reply("ok", ExtensionSize(Len(bytes), offset, size), cost, data)
        /\ charged' = charged + cost

Fail(status) ==
    /\ reply' = Reply(status, 0, 0, NoBytes)
    /\ UNCHANGED <<bytes, charged>>

LoadRange(offset, size) ==
    /\ Called("load", offset, size, NoBytes)
    /\ LoadStatus(Len(bytes), offset, size) = "ok"
    /\ bytes' = Extended(bytes, offset, size)
    /\ Answer(offset, size, Read(bytes, offset, size))

StoreRange(offset, size, data) ==
    /\ Called("store", offset, size, data)
    /\ StoreStatus(Len(bytes), offset, size) = "ok"
    /\ bytes' = Written(bytes, offset, size, data)
    /\ Answer(offset, size, NoBytes)

LoadFails(offset, size) ==
    /\ Called("load", offset, size, NoBytes)
    /\ LoadStatus(Len(bytes), offset, size) # "ok"
    /\ Fail(LoadStatus(Len(bytes), offset, size))

StoreFails(offset, size, data) ==
    /\ Called("store", offset, size, data)
    /\ StoreStatus(Len(bytes), offset, size) # "ok"
    /\ Fail(StoreStatus(Len(bytes), offset, size))

Load(offset, size) == LoadRange(offset, size) \/ LoadFails(offset, size)
LoadWord(offset)   == LoadRange(offset, WordBytes) \/ LoadFails(offset, WordBytes)

Store(offset, size, data) ==
    StoreRange(offset, size, data) \/ StoreFails(offset, size, data)
StoreWord(offset, word) ==
    Len(word) = WordBytes /\ Store(offset, WordBytes, word)
StoreByte(offset, word) ==
    Len(word) = WordBytes /\ Store(offset, 1, <<word[WordBytes]>>)

MemoryNext ==
    \E offset \in Offsets :
        \/ LoadWord(offset)
        \/ \E size \in Sizes : Load(offset, size)
        \/ \E data \in Data :
              \/ StoreWord(offset, data) \/ StoreByte(offset, data)
              \/ \E size \in Sizes : Store(offset, size, data)

MemorySpec == MemoryInit /\ [][MemoryNext]_memoryVars

-------------------------------------------------------------------------------

CONSTANT Positions  \* the positions at which ByteArray watches the content

ASSUME PositionsAssumption == Positions \subseteq Usize

\* Whatever the calls and their order, the memory behaves as one zero-filled array
\* whose extensions add up to the cost of its size: no store reaches beyond its
\* range, no byte below the size is lost when the vector grows, a failed call
\* leaves nothing behind.  The exception is a range that ends in the last word of
\* the address space, which the shift of extension_size rounds to nothing.
Array == INSTANCE ByteArray
    WITH content <- [p \in Positions |-> IF p < Len(bytes) THEN bytes[p + 1] ELSE 0],
         size    <- Len(bytes),
         paid    <- charged,
         Bound   <- UsizeMod,
         Cost    <- MemoryCost

IsAnArray == Array!ArraySpec

===============================================================================
