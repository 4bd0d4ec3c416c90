---------------------------- MODULE MessageBatch ----------------------------
(***************************************************************************)
(* What IPSocket::SendMultiple and ReceiveMultiple promise in either       *)
(* implementation: the messages of a batch move one after the other, from  *)
(* the first, and the result says how many of them have.                   *)
(***************************************************************************)
EXTENDS Integers

CONSTANTS
  Thread,       \* the threads that call
  MaxLength,    \* the longest batch
  Error,        \* the errors of a send or receive
  NoError       \* error 0, not a member of Error

VARIABLES
  running,      \* the thread is inside a call
  length,       \* the messages of its last call
  moved,        \* how many of them the kernel has taken or given
  answer        \* the MessageResult of the last call that has returned

vars == <<running, length, moved, answer>>

Init ==
  /\ running = [t \in Thread |-> FALSE]
  /\ length = [t \in Thread |-> 0]
  /\ moved = [t \in Thread |-> 0]
  /\ answer = [t \in Thread |-> [result |-> 0, error |-> NoError]]

Begin(t, n) ==
  /\ ~ running[t]
  /\ running' = [running EXCEPT ![t] = TRUE]
  /\ length' = [length EXCEPT ![t] = n]
  /\ moved' = [moved EXCEPT ![t] = 0]
  /\ UNCHANGED answer

Move(t) ==
  /\ running[t]
  /\ moved[t] < length[t]
  /\ moved' = [moved EXCEPT ![t] = @ + 1]
  /\ UNCHANGED <<running, length, answer>>

\* A call that moved everything has no error, one that moved nothing of a batch
\* has failed with one, and in between the error may be lost.
End(t, error) ==
  /\ running[t]
  /\ moved[t] = length[t] => error = NoError
  /\ moved[t] = 0 /\ length[t] > 0 => error # NoError
  /\ running' = [running EXCEPT ![t] = FALSE]
  /\ answer' = [answer EXCEPT ![t] =
                  [result |-> IF error # NoError /\ moved[t] = 0
                              THEN -1 ELSE moved[t],
                   error |-> error]]
  /\ UNCHANGED <<length, moved>>

Next ==
  \E t \in Thread :
    \/ \E n \in 0..MaxLength : Begin(t, n)
    \/ Move(t)
    \/ \E error \in Error \cup {NoError} : End(t, error)

Spec == Init /\ [][Next]_vars
=============================================================================
