-------------------------- MODULE MCSocketHandles --------------------------
(***************************************************************************)
(* Instances of SocketHandles for TLC.                                     *)
(***************************************************************************)
EXTENDS SocketHandles, TLC

CONSTANTS o1, o2, o3    \* objects

MCObject == {o1, o2, o3}

\* The objects differ in nothing, and neither do the sockets.
Symmetry == Permutations(MCObject) \cup Permutations(Entity)
=============================================================================
