---------------------------- MODULE MCPollItems ----------------------------
(***************************************************************************)
(* Instances of PollItems for TLC.                                         *)
(***************************************************************************)
EXTENDS PollItems, TLC

\* The items differ in nothing; the sockets do, by their handles.
Symmetry == Permutations(Item)
=============================================================================
