------------------------------ MODULE MCPrograms ------------------------------
(***************************************************************************)
(* The world of MCMachine, where every short program over two alphabets is *)
(* run as the code of a creation.                                          *)
(***************************************************************************)
EXTENDS MCMachine

\* Every short program over an alphabet, run with funds that just suffice: one
\* alphabet of jumps, which loop on little gas, and one of loads and stores.
Jumping == {86, 87, 90, 91, 95, 96, 128}
Storing == {49, 71, 82, 84, 85, 95, 96, 243, 253}

Programs(alphabet, n) == UNION {[1 .. k -> alphabet] : k \in 1 .. n}

\* The creation of which the sender lacks one coin of value.
OneCoinShort == LET t == TightCreate(<<0>>, 0) IN [t EXCEPT !.value = t.value + 1]

ProgramTransactions ==
    {OneCoinShort}
        \cup {TightCreate(p, 100) : p \in Programs(Jumping, 5)}
        \cup {TightCreate(p, 25000) : p \in Programs(Storing, 4)}

===============================================================================
