-------------------------------- MODULE MCStack --------------------------------
(***************************************************************************)
(* The Stack of a few words, each told from the others, so that an order   *)
(* that is lost shows.                                                     *)
(***************************************************************************)
EXTENDS Stack

CONSTANTS a, b, c

MCValues == {a, b, c}

===============================================================================
