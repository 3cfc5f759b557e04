------------------------------- MODULE MCRelayer -------------------------------
(***************************************************************************)
(* Instance of Relayer with three concurrent calls: one may hold the lock  *)
(* while a second waits for it and a third waits for the second.           *)
(***************************************************************************)
EXTENDS Relayer, TLC

CONSTANTS r1, r2, r3

MCRequest == {r1, r2, r3}

Symmetry == Permutations(MCRequest)

================================================================================
