------------------------------ MODULE MemoryOps -------------------------------
(***************************************************************************)
(* The byte memory of src/machine/memory.rs: bounds, extension, gas of the *)
(* extension, reads and writes.  The source works on 32-byte words and     *)
(* 64-bit offsets; here the word is WordBytes bytes and an offset is below *)
(* UsizeMod, so that a shift by 5 is a division by WordBytes.              *)
(***************************************************************************)
EXTENDS Integers, Sequences

CONSTANTS
    WordBytes,      \* bytes of a u256 (32 in the source)
    UsizeMod,       \* 2^(bits of usize)
    AllocLimit,     \* a Vec longer than this aborts the process
    OverflowChecks  \* TRUE in a debug build: integer overflow panics

ASSUME WordBytesAssumption == WordBytes \in Nat \ {0}

ASSUME UsizeAssumption == UsizeMod \in Nat \ {0} /\ UsizeMod % WordBytes = 0

\* Number of words that cover n bytes: (n + 31) >> 5.
Words(n) == (n + WordBytes - 1) \div WordBytes

\* The allocator gives up before the square of a word count, or 200 gas for
\* every byte, overflows usize: below 2^37 bytes when usize has 64 bits.
ASSUME AllocAssumption ==
    /\ AllocLimit \in Nat
    /\ 200 * AllocLimit < UsizeMod
    /\ Words(AllocLimit) * Words(AllocLimit) < UsizeMod

ASSUME OverflowChecksAssumption == OverflowChecks \in BOOLEAN

Usize == 0 .. UsizeMod - 1

\* Memory::memory_cost: linear, plus one gas per 512 squared words.
MemoryCost(n) == ((Words(n) * Words(n)) \div 512) + 3 * Words(n)

\* Memory::try_offset_size succeeds.  A range that ends exactly at UsizeMod is
\* let through: offset <= usize::MAX - size + 1.
InBounds(offset, size) ==
    /\ offset \in Usize
    /\ size \in Usize
    /\ size = 0 \/ offset <= UsizeMod - size

\* offset + size as the build computes it, once overflow has not panicked.
End(offset, size) == (offset + size) % UsizeMod

\* Mutant: the memory grows to the byte, not to the word.
ExtensionSizeUnaligned(len, offset, size) ==
    IF len >= End(offset, size) THEN 0 ELSE End(offset, size) - len

\* Memory::extension_size, for a memory of len bytes.  The final shift drops the
\* bits above usize: a range that ends in the last word of the address space
\* extends an empty memory by nothing.
ExtensionSize(len, offset, size) ==
    LET end == End(offset, size)
    IN  IF len >= end THEN 0
        ELSE (((end - len - 1) \div WordBytes + 1) * WordBytes) % UsizeMod

\* Length of a memory of len bytes once it has been extended for the range.
LenAfter(len, offset, size) == len + ExtensionSize(len, offset, size)

\* Mutant: an extension costs what as large a new memory would.
ExpansionCostOfDifference(len, offset, size) ==
    MemoryCost(ExtensionSize(len, offset, size))

\* Memory::memory_expansion_cost of that extension.
ExpansionCost(len, offset, size) ==
    MemoryCost(LenAfter(len, offset, size)) - MemoryCost(len)

\* The access panics or aborts: the sum offset + size overflows in a checked
\* build, or the memory (or the Vec a load returns) cannot be allocated.
AccessPanics(len, offset, size) ==
    \/ OverflowChecks /\ offset + size >= UsizeMod
    \/ LenAfter(len, offset, size) > AllocLimit
    \/ size > AllocLimit

\* A write past a memory that was not extended for it: indexing panics.
WritePanics(len, offset, size) ==
    \/ AccessPanics(len, offset, size)
    \/ size > 0 /\ offset + size > LenAfter(len, offset, size)

\* What try_offset_size and the extension of a memory of len bytes make of the
\* range, which is then read or written.
LoadStatus(len, offset, size) ==
    IF ~InBounds(offset, size) THEN "MemoryOutOfBounds"
    ELSE IF AccessPanics(len, offset, size) THEN "panic" ELSE "ok"

StoreStatus(len, offset, size) ==
    IF ~InBounds(offset, size) THEN "MemoryOutOfBounds"
    ELSE IF WritePanics(len, offset, size) THEN "panic" ELSE "ok"

\* self.0.append(&mut vec![0; extension_size])
Extended(mem, offset, size) ==
    [i \in 1 .. LenAfter(Len(mem), offset, size) |->
        IF i <= Len(mem) THEN mem[i] ELSE 0]

\* The bytes a load returns; bytes past the end read as 0.
Read(mem, offset, size) ==
    [i \in 1 .. size |-> IF offset + i <= Len(mem) THEN mem[offset + i] ELSE 0]

\* Mutant: a store of too few bytes leaves the rest of its range alone.
WrittenShort(mem, offset, size, bytes) ==
    [i \in 1 .. LenAfter(Len(mem), offset, size) |->
        IF i \in offset + 1 .. offset + size /\ i - offset <= Len(bytes)
        THEN bytes[i - offset]
        ELSE IF i <= Len(mem) THEN mem[i] ELSE 0]

\* The memory a store of `size' bytes leaves: `bytes' padded with zeros.
Written(mem, offset, size, bytes) ==
    [i \in 1 .. LenAfter(Len(mem), offset, size) |->
        IF i \in offset + 1 .. offset + size
        THEN IF i - offset <= Len(bytes) THEN bytes[i - offset] ELSE 0
        ELSE IF i <= Len(mem) THEN mem[i] ELSE 0]

===============================================================================
