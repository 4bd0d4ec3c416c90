--------------------------- MODULE MCSendMultiple ---------------------------
(***************************************************************************)
(* Instances of SendMultiple for TLC.                                      *)
(***************************************************************************)
EXTENDS SendMultiple

CONSTANTS a1, a2        \* addresses

\* One unconnected, one connected datagram socket, and a stream.
MCSocket ==
  {[stream |-> FALSE, peer |-> NoAddress],
   [stream |-> FALSE, peer |-> a2],
   [stream |-> TRUE, peer |-> a2]}
=============================================================================
