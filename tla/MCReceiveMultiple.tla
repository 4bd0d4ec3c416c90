------------------------- MODULE MCReceiveMultiple -------------------------
(***************************************************************************)
(* Instances of ReceiveMultiple for TLC.                                   *)
(***************************************************************************)
EXTENDS ReceiveMultiple, TLC

CONSTANTS t1, t2        \* threads

MCThread == {t1, t2}
Symmetry == Permutations(MCThread)
=============================================================================
