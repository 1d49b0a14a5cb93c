------------------------------- MODULE ByteArray -------------------------------
(***************************************************************************)
(* What a Memory is to the instructions: an array of bytes, zero wherever  *)
(* nothing was stored, that covers in whole words every range that was     *)
(* accessed and has cost, all accesses together, what its present size     *)
(* costs.                                                                  *)
(***************************************************************************)
EXTENDS Integers, Sequences

CONSTANTS
    Positions,    \* the positions watched, all below Bound
    WordBytes,    \* bytes of a word
    Bound,        \* 2^(bits of usize): no position is beyond it
    AllocLimit,   \* more bytes than this cannot be allocated
    Cost(_)       \* the gas that a memory of so many bytes costs in all

VARIABLES
    content,      \* the byte at every position watched
    size,         \* the bytes covered
    paid,         \* the gas charged for extensions so far
    call,         \* the last access: its kind, range and the bytes to store
    reply         \* its answer

array == <<content, size, paid, call, reply>>

ArrayInit ==
    /\ content = [p \in Positions |-> 0]
    /\ size = 0 /\ paid = 0
    /\ reply.status = "none"

Covered(o, n) == LET words == (o + n + WordBytes - 1) \div WordBytes
                 IN  IF o + n <= size THEN size ELSE words * WordBytes

\* The range exists, and what covers it or a copy of it can be allocated.
Exists(o, n) == o < Bound /\ n < Bound /\ o + n <= Bound
Fits(o, n)   == Covered(o, n) <= AllocLimit /\ n <= AllocLimit

\* The memory covers the range from now on, which is paid for.
Extend(o, n) ==
    /\ Exists(o, n) /\ Fits(o, n)
    /\ reply'.status = "ok"
    /\ size' = Covered(o, n)
    /\ paid' = Cost(size') /\ paid' - paid = reply'.extension_cost

\* A load answers the bytes of its range and changes none.
Load(o, n) ==
    /\ call'.kind = "load"
    /\ Len(reply'.result) = n
    /\ \A p \in Positions : p \in o .. o + n - 1 => reply'.result[p - o + 1] = content[p]
    /\ UNCHANGED content

\* A store changes the bytes of its range only; missing bytes are zero.
Store(o, n, data) ==
    /\ call'.kind = "store"
    /\ content' = [p \in Positions |->
           IF p \notin o .. o + n - 1 THEN content[p]
           ELSE IF p - o < Len(data) THEN data[p - o + 1] ELSE 0]

\* An access that reaches into the last word of the address space may be answered
\* with zeros, for nothing.
FreeLoad(o, n) ==
    /\ Exists(o, n) /\ o + n > Bound - WordBytes
    /\ reply'.status = "ok" /\ reply'.extension_cost = 0
    /\ n <= AllocLimit
    /\ Load(o, n)
    /\ UNCHANGED <<size, paid>>

\* A store of nothing there changes nothing.
FreeStore(o, n) ==
    /\ Exists(o, n) /\ o + n > Bound - WordBytes
    /\ n = 0 /\ call'.kind = "store"
    /\ reply'.status = "ok" /\ reply'.extension_cost = 0
    /\ UNCHANGED <<content, size, paid>>

\* A range that does not exist is refused, and no other.
Refuse(o, n) ==
    /\ ~Exists(o, n)
    /\ reply'.status = "MemoryOutOfBounds"
    /\ UNCHANGED <<content, size, paid>>

\* The process may die of a range that does not fit.
Die(o, n) ==
    /\ Exists(o, n) /\ ~Fits(o, n)
    /\ reply'.status = "panic"
    /\ UNCHANGED <<content, size, paid>>

Access(o, n, data) ==
    \/ Extend(o, n) /\ (Load(o, n) \/ Store(o, n, data))
    \/ FreeLoad(o, n) \/ FreeStore(o, n)
    \/ Refuse(o, n)
    \/ Die(o, n)

ArrayNext == reply.status # "panic" /\ Access(call'.offset, call'.size, call'.bytes)

ArraySpec == ArrayInit /\ [][ArrayNext]_array

===============================================================================
