------------------------------ MODULE PollItems ------------------------------
(***************************************************************************)
(* IPSocket::PollItem and IPSocket::Poll (src/smbb/IPSocket.h, lines       *)
(* 417-511), POSIX.                                                        *)
(*                                                                         *)
(* An item is a struct pollfd: a handle, the events to monitor and the     *)
(* results of the last poll().  The sign bit of the handle says whether the*)
(* item is enabled.  One thread makes, switches and polls the items; the   *)
(* network changes their TCP sockets at any time.                          *)
(***************************************************************************)
EXTENDS Integers

CONSTANTS
  Item,         \* the items of the array
  Socket,       \* the handles of the sockets
  SignBit,      \* 2^(number of bits of a Handle - 1)
  Monitor       \* the values that callers monitor

\* -1 without its sign bit is a handle that no process has.
ASSUME PollAssumption ==
  /\ SignBit \in Nat \ {0}
  /\ Socket \subseteq 0 .. SignBit - 2
  /\ Monitor \subseteq SUBSET {"POLLIN", "POLLOUT", "POLLHUP", "POLLERR"}

INVALID_HANDLE == -1
Handle == -SignBit .. SignBit - 1

\* A PollValue is a set of these.  poll() adds some that nobody monitors.
PollFlag == {"POLLIN", "POLLOUT", "POLLHUP", "POLLERR", "POLLNVAL"}
POLL_ERROR == "POLLERR"
POLL_CHECK_ALL == {"POLLIN", "POLLOUT", "POLLHUP"}
Unasked == {"POLLHUP", "POLLERR", "POLLNVAL"}

\* A TCP socket.  "ended": both sides have closed the connection.
SocketState ==
  {k \in [conn : {"closed", "new", "listening", "connecting", "connected",
                  "refused", "reset", "ended"},
          error : BOOLEAN, readable : BOOLEAN] :
     /\ k.error => k.conn \in {"refused", "reset"}
     /\ k.readable => k.conn \in {"listening", "connected"}}

VARIABLES
  sock,         \* kernel: the state of each socket
  fd,           \* _item.fd
  events,       \* _item.events
  revents,      \* _item.revents
  made,         \* history: the handle that the item was made with
  on,           \* history: the item has a socket, or was enabled, and was not
                \* disabled since
  answered      \* history: the items that were polled since they were made, and
                \* whose socket the caller has not used since

itemVars == <<fd, events, revents>>
vars == <<sock, itemVars, made, on, answered>>

TypeOK ==
  /\ sock \in [Socket -> SocketState]
  /\ fd \in [Item -> Handle]
  /\ events \in [Item -> SUBSET POLL_CHECK_ALL]
  /\ revents \in [Item -> SUBSET PollFlag]
  /\ made \in [Item -> Socket \cup {INVALID_HANDLE}]
  /\ on \in [Item -> BOOLEAN]
  /\ answered \in SUBSET Item

\* Items that were made of sockets that are not open.
Init ==
  /\ sock = [s \in Socket |-> [conn |-> "closed", error |-> FALSE, readable |-> FALSE]]
  /\ fd = [i \in Item |-> INVALID_HANDLE]
  /\ events = [i \in Item |-> {}]
  /\ revents = [i \in Item |-> {}]
  /\ made = [i \in Item |-> INVALID_HANDLE]
  /\ on = [i \in Item |-> FALSE]
  /\ answered = {}

-----------------------------------------------------------------------------
\* The kernel.

Over == {"refused", "reset", "ended"}

\* What poll() has to say of a handle.
Status(h) ==
  IF h \notin Socket \/ sock[h].conn = "closed"
  THEN {"POLLNVAL"}
  ELSE LET k == sock[h]
       IN  {f \in PollFlag :
              \/ f = "POLLIN" /\ (k.readable \/ k.conn \in Over)
              \/ f = "POLLOUT" /\ k.conn \notin {"connecting", "listening"}
              \/ f = "POLLHUP" /\ k.conn \in Over \cup {"new"}
              \/ f = "POLLERR" /\ k.error}

\* What the network may make of a socket.  Once the connection is over a read
\* does not wait, whether there is still data or not.
Outcome(k) ==
  CASE k.conn = "connecting" ->
         {[k EXCEPT !.conn = "connected"],
          [k EXCEPT !.conn = "refused", !.error = TRUE]}
    [] k.conn = "connected" ->
         {[k EXCEPT !.readable = TRUE],
          [k EXCEPT !.conn = "ended", !.readable = FALSE],
          [k EXCEPT !.conn = "reset", !.error = TRUE, !.readable = FALSE]}
    [] k.conn = "listening" -> {[k EXCEPT !.readable = TRUE]}
    [] OTHER -> {}

Network(s) ==
  /\ \E k \in Outcome(sock[s]) : sock' = [sock EXCEPT ![s] = k]
  /\ UNCHANGED <<itemVars, made, on, answered>>

\* The caller opens, connects, reads from or closes the socket, or does anything
\* else to it: whatever state it is in then, earlier answers are void.  An error
\* is the work of the network; the caller can only leave it or clear it.
Use(s) ==
  /\ \E k \in SocketState :
       /\ ~ k.error \/ k = sock[s]
       /\ sock' = [sock EXCEPT ![s] = k]
  /\ answered' = {i \in answered : made[i] # s}
  /\ UNCHANGED <<itemVars, made, on>>

-----------------------------------------------------------------------------
\* PollItem

\* Mutant: the negative handle, which disables all sockets but 0.
Disabled_Negated(h) == IF h < 0 THEN h ELSE -h

\* The handle with its sign bit, in two's complement, and without it.
Disabled(h) == IF h < 0 THEN h ELSE h - SignBit
Enabled(h) == IF h < 0 THEN h + SignBit ELSE h

IsEnabled(i) == fd[i] >= 0
GetSocket(i) == Enabled(fd[i])

Make(i, h, monitor) ==
  /\ fd' = [fd EXCEPT ![i] = h]
  /\ events' = [events EXCEPT ![i] = monitor \cap POLL_CHECK_ALL]
  /\ revents' = [revents EXCEPT ![i] = {}]
  /\ made' = [made EXCEPT ![i] = h]
  /\ on' = [on EXCEPT ![i] = h # INVALID_HANDLE]
  /\ answered' = answered \ {i}
  /\ UNCHANGED sock

Disable(i) ==
  /\ fd' = [fd EXCEPT ![i] = Disabled(@)]
  /\ on' = [on EXCEPT ![i] = FALSE]
  /\ UNCHANGED <<sock, events, revents, made, answered>>

Enable(i) ==
  /\ fd' = [fd EXCEPT ![i] = Enabled(@)]
  /\ on' = [on EXCEPT ![i] = TRUE]
  /\ UNCHANGED <<sock, events, revents, made, answered>>

SetMonitor(i, monitor) ==
  /\ events' = [events EXCEPT ![i] = monitor \cap POLL_CHECK_ALL]
  /\ UNCHANGED <<sock, fd, revents, made, on, answered>>

\* The tests of an item's revents.
HasResult(results, value) == results \cap value # {}

HasFailedConnectionResult(results) == HasResult(results, {POLL_ERROR})

-----------------------------------------------------------------------------
\* Poll(): when there is a result, or after the timeout, poll() has written
\* revents of all the items it was given, those it ignores included.

Result(i) ==
  IF IsEnabled(i) THEN Status(fd[i]) \cap (events[i] \cup Unasked) ELSE {}

Poll(items) ==
  /\ revents' = [i \in Item |-> IF i \in items THEN Result(i) ELSE revents[i]]
  /\ answered' = answered \cup items
  /\ UNCHANGED <<sock, fd, events, made, on>>

\* A signal interrupts it.
PollFails(items) ==
  /\ answered' = answered \ items
  /\ UNCHANGED <<sock, itemVars, made, on>>

Next ==
  \/ \E s \in Socket : Network(s) \/ Use(s)
  \/ \E i \in Item : Disable(i) \/ Enable(i)
  \/ \E i \in Item, monitor \in Monitor :
       \/ SetMonitor(i, monitor)
       \/ \E h \in Socket \cup {INVALID_HANDLE} : Make(i, h, monitor)
  \/ \E items \in SUBSET Item : Poll(items) \/ PollFails(items)

Spec == Init /\ [][Next]_vars

-----------------------------------------------------------------------------
\* Properties.

\* However often it is enabled and disabled, an item stays the item of its
\* socket, and is enabled if that was the last that was asked for.  An item that
\* was made of an invalid socket is disabled, and enabling it gives it no socket.
ItemKeepsSocket ==
  \A i \in Item :
    /\ IsEnabled(i) <=> on[i]
    /\ IF made[i] \in Socket THEN GetSocket(i) = made[i]
                             ELSE GetSocket(i) \notin Socket

\* What the results of an item say of its socket is still so until the caller
\* itself uses the socket, whatever the network does and however the item is
\* switched in between.
ResultIsReal ==
  \A i \in answered : revents[i] \subseteq Status(made[i])

\* A refused connection does not go by unnoticed: the next Poll() of an item that
\* is switched on, however often it was switched before and whatever it monitors,
\* makes HasFailedConnectionResult() true.
RefusalIsTold ==
  \A i \in Item :
    on[i] /\ made[i] \in Socket =>
      (sock[made[i]].conn = "refused" /\ sock[made[i]].error =>
         HasFailedConnectionResult(Result(i)))

\* HasFailedConnectionResult() "checks if the specified item indicates a failed
\* connection attempt after a poll" (IPSocket.h:465): it is not true of a
\* connection that was made and lost later.
FailureIsRefusal ==
  \A i \in answered :
    made[i] \in Socket /\ HasFailedConnectionResult(revents[i]) =>
      sock[made[i]].conn = "refused"

\* The inductive invariant.
IndInv == TypeOK /\ ItemKeepsSocket /\ ResultIsReal
=============================================================================
