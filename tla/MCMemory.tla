------------------------------- MODULE MCMemory --------------------------------
(***************************************************************************)
(* Memories of up to three words of two bytes in an address space of 4096   *)
(* bytes, accessed at its beginning and around its end.                    *)
(***************************************************************************)
EXTENDS Memory

MCPositions == 0 .. 7 \cup UsizeMod - 4 .. UsizeMod - 1
MCOffsets   == {0, 1, 3} \cup {UsizeMod - 3, UsizeMod - 1, UsizeMod}
MCSizes     == {0, 1, 3, UsizeMod - 1}
MCData      == {<<1, 2>>, <<3>>}

===============================================================================
