-------------------------- MODULE PollItems_proofs --------------------------
(***************************************************************************)
(* Proofs about PollItems, for any array of items, any sockets and any     *)
(* width of the handle.                                                    *)
(***************************************************************************)
EXTENDS PollItems, TLAPS

\* What the network does to a socket leaves it in a state of a socket and takes
\* nothing away from what poll() would say of it.
LEMMA OutcomeAdds ==
  ASSUME NEW s \in Socket, Network(s), sock \in [Socket -> SocketState]
  PROVE  /\ sock' \in [Socket -> SocketState]
         /\ \A h : Status(h) \subseteq Status(h)'
<1>1. PICK k \in Outcome(sock[s]) : sock' = [sock EXCEPT ![s] = k]
  BY DEF Network
<1>2. sock[s] \in SocketState
  OBVIOUS
<1>3. /\ k \in SocketState
      /\ sock[s].conn # "closed" /\ k.conn # "closed"
      /\ sock[s].readable \/ sock[s].conn \in Over => k.readable \/ k.conn \in Over
      /\ sock[s].conn \notin {"connecting", "listening"} =>
           k.conn \notin {"connecting", "listening"}
      /\ sock[s].conn \in Over \cup {"new"} => k.conn \in Over \cup {"new"}
      /\ sock[s].error => k.error
  BY ZenonT(60), <1>1, <1>2 DEF Outcome, SocketState, Over
<1>4. \A r \in Socket \ {s} : sock'[r] = sock[r]
  BY <1>1
<1>5. sock'[s] = k
  BY <1>1
<1>6. ASSUME NEW h
      PROVE  Status(h) \subseteq Status(h)'
  <2>1. CASE h = s
    BY <2>1, <1>3, <1>5 DEF Status
  <2>2. CASE h # s
    BY <2>2, <1>4 DEF Status
  <2> QED BY <2>1, <2>2
<1> QED BY <1>1, <1>3, <1>6

\* The sign bit: an item that is disabled and enabled again has its handle.
LEMMA SignBitKeeps ==
  ASSUME NEW h \in Handle
  PROVE  /\ Disabled(h) \in Handle /\ Disabled(h) < 0
         /\ Enabled(h) \in Handle /\ Enabled(h) >= 0
         /\ Enabled(Disabled(h)) = Enabled(h)
         /\ Enabled(Enabled(h)) = Enabled(h)
BY PollAssumption DEF Handle, Disabled, Enabled

\* What Make() puts in an item.
LEMMA MadeHandle ==
  ASSUME NEW h \in Socket \cup {INVALID_HANDLE}
  PROVE  /\ h \in Handle
         /\ h >= 0 <=> h # INVALID_HANDLE
         /\ h \in Socket => Enabled(h) = h
         /\ h \notin Socket => Enabled(h) \notin Socket
BY PollAssumption DEF Handle, Enabled, INVALID_HANDLE

\* What the results of a poll say is so.
LEMMA ResultSaysStatus ==
  ASSUME IndInv, NEW i \in Item
  PROVE  Result(i) \in SUBSET PollFlag /\ Result(i) \subseteq Status(made[i])
<1>1. Status(fd[i]) \in SUBSET PollFlag
  BY DEF Status, PollFlag
<1>2. CASE ~ IsEnabled(i)
  BY <1>2 DEF Result
<1>3. CASE IsEnabled(i)
  <2>1. GetSocket(i) = fd[i]
    BY <1>3, PollAssumption DEF IndInv, TypeOK, Handle, IsEnabled, GetSocket, Enabled
  <2>2. CASE made[i] \in Socket
    BY <1>1, <1>3, <2>1, <2>2 DEF IndInv, ItemKeepsSocket, Result
  <2>3. CASE made[i] \notin Socket
    <3>1. fd[i] \notin Socket
      BY <2>1, <2>3 DEF IndInv, ItemKeepsSocket
    <3> QED BY <1>1, <1>3, <2>3, <3>1 DEF Result, Status
  <2> QED BY <2>2, <2>3
<1> QED BY <1>2, <1>3

-----------------------------------------------------------------------------
\* The inductive invariant: an item keeps its socket and its switch through the
\* sign bit, and its results stay true of the socket.
THEOREM Inductive == Spec => []IndInv
<1>1. Init => IndInv
  <2> SUFFICES ASSUME Init PROVE IndInv
    OBVIOUS
  <2>1. TypeOK
    BY PollAssumption DEF Init, TypeOK, Handle, INVALID_HANDLE, SocketState
  <2>2. ItemKeepsSocket
    BY MadeHandle DEF Init, ItemKeepsSocket, IsEnabled, GetSocket, INVALID_HANDLE
  <2>3. ResultIsReal
    BY DEF Init, ResultIsReal
  <2> QED BY <2>1, <2>2, <2>3 DEF IndInv
<1>2. IndInv /\ [Next]_vars => IndInv'
  <2> SUFFICES ASSUME IndInv, [Next]_vars PROVE IndInv'
    OBVIOUS
  <2> USE DEF IndInv
  <2>1. ASSUME NEW s \in Socket, Network(s) PROVE IndInv'
    <3>1. sock' \in [Socket -> SocketState] /\ \A h : Status(h) \subseteq Status(h)'
      BY <2>1, OutcomeAdds DEF TypeOK
    <3>2. UNCHANGED <<itemVars, made, on, answered>>
      BY <2>1 DEF Network
    <3>3. TypeOK'
      BY <3>1, <3>2 DEF TypeOK, itemVars
    <3>4. ItemKeepsSocket'
      BY <3>2 DEF ItemKeepsSocket, IsEnabled, GetSocket, itemVars
    <3>5. ResultIsReal'
      BY <3>1, <3>2 DEF ResultIsReal, itemVars
    <3> QED BY <3>3, <3>4, <3>5
  <2>2. ASSUME NEW s \in Socket, Use(s) PROVE IndInv'
    <3>1. TypeOK'
      BY <2>2 DEF Use, TypeOK, itemVars
    <3>2. ItemKeepsSocket'
      BY <2>2 DEF Use, ItemKeepsSocket, IsEnabled, GetSocket, itemVars
    <3>3. \A i \in answered' : Status(made[i])' = Status(made[i])
      BY <2>2 DEF Use, Status, TypeOK
    <3>4. ResultIsReal'
      BY <2>2, <3>3 DEF Use, ResultIsReal, itemVars
    <3> QED BY <3>1, <3>2, <3>4
  <2>3. ASSUME NEW i \in Item, Disable(i) \/ Enable(i) PROVE IndInv'
    <3>1. \A j \in Item : /\ Disabled(fd[j]) \in Handle /\ Disabled(fd[j]) < 0
                          /\ Enabled(fd[j]) \in Handle /\ Enabled(fd[j]) >= 0
                          /\ Enabled(Disabled(fd[j])) = Enabled(fd[j])
                          /\ Enabled(Enabled(fd[j])) = Enabled(fd[j])
      BY SignBitKeeps DEF TypeOK
    <3>2. TypeOK'
      BY <2>3, <3>1 DEF Disable, Enable, TypeOK
    <3>3. ItemKeepsSocket'
      <4> SUFFICES ASSUME NEW j \in Item
                   PROVE  /\ (IsEnabled(j) <=> on[j])'
                          /\ GetSocket(j)' = GetSocket(j)
                          /\ made'[j] = made[j]
        BY DEF ItemKeepsSocket
      <4>1. CASE j # i
        BY <4>1, <2>3 DEF Disable, Enable, TypeOK, ItemKeepsSocket, IsEnabled, GetSocket
      <4>2. CASE j = i /\ Disable(i)
        <5>1. fd'[i] = Disabled(fd[i]) /\ ~ on'[i] /\ made' = made
          BY <4>2 DEF Disable, TypeOK
        <5>2. fd'[i] < 0 /\ Disabled(fd[i]) \in Int
          BY <5>1, <3>1 DEF Handle
        <5> QED BY <4>2, <5>1, <5>2, <3>1 DEF IsEnabled, GetSocket
      <4>3. CASE j = i /\ Enable(i)
        BY <4>3, <3>1 DEF Enable, TypeOK, IsEnabled, GetSocket
      <4> QED BY <4>1, <4>2, <4>3, <2>3
    <3>4. ResultIsReal'
      BY <2>3 DEF Disable, Enable, ResultIsReal, Status
    <3> QED BY <3>2, <3>3, <3>4
  <2>4. ASSUME NEW i \in Item, NEW monitor \in Monitor, SetMonitor(i, monitor)
        PROVE  IndInv'
    <3>1. TypeOK'
      BY <2>4 DEF SetMonitor, TypeOK
    <3>2. ItemKeepsSocket' /\ ResultIsReal'
      BY <2>4 DEF SetMonitor, ItemKeepsSocket, ResultIsReal, IsEnabled, GetSocket,
                  Status
    <3> QED BY <3>1, <3>2
  <2>5. ASSUME NEW i \in Item, NEW monitor \in Monitor,
               NEW h \in Socket \cup {INVALID_HANDLE}, Make(i, h, monitor)
        PROVE  IndInv'
    <3>1. TypeOK'
      BY <2>5, MadeHandle DEF Make, TypeOK
    <3>2. ItemKeepsSocket'
      <4> SUFFICES ASSUME NEW j \in Item
                   PROVE  /\ (IsEnabled(j) <=> on[j])'
                          /\ (IF made[j] \in Socket THEN GetSocket(j) = made[j]
                                                    ELSE GetSocket(j) \notin Socket)'
        BY DEF ItemKeepsSocket
      <4>1. CASE j # i
        BY <4>1, <2>5 DEF Make, TypeOK, ItemKeepsSocket, IsEnabled, GetSocket
      <4>2. CASE j = i
        BY <4>2, <2>5, MadeHandle DEF Make, TypeOK, IsEnabled, GetSocket
      <4> QED BY <4>1, <4>2
    <3>3. ResultIsReal'
      BY <2>5 DEF Make, TypeOK, ResultIsReal, Status
    <3> QED BY <3>1, <3>2, <3>3
  <2>6. ASSUME NEW items \in SUBSET Item, Poll(items) PROVE IndInv'
    <3>1. \A i \in Item : /\ Result(i) \in SUBSET PollFlag
                          /\ Result(i) \subseteq Status(made[i])
      BY ResultSaysStatus
    <3>2. TypeOK'
      BY <2>6, <3>1 DEF Poll, TypeOK
    <3>3. ItemKeepsSocket'
      BY <2>6 DEF Poll, ItemKeepsSocket, IsEnabled, GetSocket
    <3>4. \A i \in Item : Status(made[i])' = Status(made[i])
      BY <2>6 DEF Poll, Status
    <3>5. ResultIsReal'
      BY <2>6, <3>1, <3>4 DEF Poll, TypeOK, ResultIsReal
    <3> QED BY <3>2, <3>3, <3>5
  <2>7. ASSUME NEW items \in SUBSET Item, PollFails(items) PROVE IndInv'
    BY <2>7 DEF PollFails, TypeOK, ItemKeepsSocket, ResultIsReal, IsEnabled, GetSocket,
                Status, itemVars
  <2>8. CASE UNCHANGED vars
    BY <2>8 DEF vars, TypeOK, ItemKeepsSocket, ResultIsReal, IsEnabled, GetSocket,
                Status, itemVars
  <2> QED BY <2>1, <2>2, <2>3, <2>4, <2>5, <2>6, <2>7, <2>8 DEF Next
<1> QED BY <1>1, <1>2, PTL DEF Spec

\* A refused connection is told by the next Poll() of an enabled item.
THEOREM RefusalTold == Spec => []RefusalIsTold
<1>1. IndInv => RefusalIsTold
  <2> SUFFICES ASSUME IndInv, NEW i \in Item, on[i], made[i] \in Socket,
                      sock[made[i]].conn = "refused", sock[made[i]].error
               PROVE  HasFailedConnectionResult(Result(i))
    BY DEF RefusalIsTold
  <2>1. IsEnabled(i) /\ fd[i] = made[i]
    BY PollAssumption DEF IndInv, TypeOK, Handle, ItemKeepsSocket, IsEnabled,
                          GetSocket, Enabled
  <2>2. POLL_ERROR \in Status(made[i])
    BY DEF Status, POLL_ERROR, PollFlag
  <2> QED BY <2>1, <2>2 DEF Result, Unasked, POLL_ERROR, HasFailedConnectionResult,
                            HasResult
<1> QED BY <1>1, Inductive, PTL
=============================================================================
