---------------------------- MODULE MCSelectSets ----------------------------
(***************************************************************************)
(* Instances of SelectSets for TLC.                                        *)
(***************************************************************************)
EXTENDS SelectSets

Fits == {s \in Socket : s < FdSetSize}

\* A handle that does not fit is there to be added, and tested while nothing is
\* connected: bounds the runs.
LimitIsIdle ==
  \A s \in Socket \ Fits :
    /\ conn[s] = "new"
    /\ Tested(s) => conn = [t \in Socket |-> "new"]

\* Only the connection of the greatest handle that fits gets beyond the attempt:
\* bounds the runs.
GreatestConnects ==
  \A s \in Fits :
    (\E t \in Fits : t > s) => conn[s] \in {"new", "listening", "connecting"}
=============================================================================
