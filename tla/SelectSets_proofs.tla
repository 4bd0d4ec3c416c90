------------------------- MODULE SelectSets_proofs -------------------------
(***************************************************************************)
(* Proofs about SelectSets, for every set of handles and every FD_SETSIZE. *)
(***************************************************************************)
EXTENDS SelectSets, TLAPS

LEMMA ConnectTypes ==
  ASSUME NEW state \in ConnState, NEW error \in BOOLEAN,
         NEW outcome \in ConnectOutcome(state, error)
  PROVE  outcome[1] \in ConnState /\ ConnectAnswer(outcome[2]) \in ConnectResult
BY DEF ConnState, ConnectOutcome, Attempt, ConnectAnswer, ConnectResult

\* The steps that leave the sets, _max and _checks alone.
LEMMA KernelStep ==
  ASSUME TypeOK, Covered, UNCHANGED setVars
  PROVE  Covered'
BY DEF Covered, setVars

LEMMA InitCovered == Init => TypeOK /\ Covered
<1> SUFFICES ASSUME Init PROVE TypeOK /\ Covered
  OBVIOUS
<1>1. TypeOK
  BY DEF Init, TypeOK, ConnState, Return, Nothing, CheckAll
<1>2. Covered
  BY SelectAssumption DEF Init, Covered
<1> QED BY <1>1, <1>2

LEMMA TypeStep == TypeOK /\ [Next]_vars => TypeOK'
<1> SUFFICES ASSUME TypeOK, [Next]_vars PROVE TypeOK'
  OBVIOUS
<1>1. CASE UNCHANGED vars
  BY <1>1 DEF vars, kernelVars, setVars, TypeOK
<1>2. ASSUME NEW s \in Socket, Established(s) \/ Refused(s) \/ Arrives(s)
                               \/ Listen(s) \/ Take(s)
      PROVE  TypeOK'
  BY <1>2 DEF Established, Refused, Arrives, Listen, Take, Changes, TypeOK,
              ConnState, Return, setVars
<1>3. ASSUME NEW s \in Socket, Connect(s) PROVE TypeOK'
  <2> PICK outcome \in ConnectOutcome(conn[s], soError[s]) :
         /\ Changes(s, outcome[1])
         /\ returned' = [call |-> "Connect", socket |-> s,
                         result |-> ConnectAnswer(outcome[2])]
         /\ soError' = [soError EXCEPT ![s] = @ /\ outcome[1] = "reset"]
    BY <1>3 DEF Connect
  <2>1. outcome[1] \in ConnState /\ ConnectAnswer(outcome[2]) \in ConnectResult
    BY ConnectTypes DEF TypeOK
  <2>2. returned' \in Return
    BY <2>1 DEF Return
  <2> QED BY <1>3, <2>1, <2>2 DEF Connect, Changes, TypeOK, setVars
<1>4. ASSUME NEW s \in Socket, NEW flags \in SUBSET CheckAll, AddSocket(s, flags)
      PROVE  TypeOK'
  BY <1>4, SelectAssumption
  DEF AddSocket, Watch, TypeOK, Return, kernelVars
<1>5. ASSUME NEW s \in Socket, NEW flags \in SUBSET CheckAll,
             RemoveSocket(s, flags)
      PROVE  TypeOK'
  BY <1>5 DEF RemoveSocket, TypeOK, Return, kernelVars
<1>6. ASSUME NEW s \in Socket, NEW flags \in SUBSET CheckAll,
             TestSocket(s, flags)
      PROVE  TypeOK'
  <2>1. \A inRead, inWrite, error \in BOOLEAN :
          Verdict(flags, inRead, inWrite, error) \in SUBSET CheckAll
    BY DEF Verdict
  <2>2. returned' \in Return
    BY <1>6, <2>1 DEF TestSocket, Return, TypeOK
  <2>3. soError' \in [Socket -> BOOLEAN]
    BY <1>6 DEF TestSocket, TypeOK
  <2> QED BY <1>6, <2>2, <2>3 DEF TestSocket, TypeOK, setVars
<1>7. CASE WaitReady \/ WaitTimeout \/ WaitError
  <2>1. returned' \in Return
    BY <1>7 DEF WaitReady, WaitTimeout, WaitError, Return
  <2> QED BY <1>7, <2>1 DEF WaitReady, WaitTimeout, WaitError, Answers,
                            TypeOK, kernelVars, setVars
<1> QED BY <1>1, <1>2, <1>3, <1>4, <1>5, <1>6, <1>7 DEF Next, Network

LEMMA CoveredStep == TypeOK /\ Covered /\ [Next]_vars => Covered'
<1> SUFFICES ASSUME TypeOK, Covered, [Next]_vars PROVE Covered'
  OBVIOUS
<1>1. CASE UNCHANGED setVars
  BY <1>1, KernelStep
<1>2. ASSUME NEW s \in Socket, NEW flags \in SUBSET CheckAll, AddSocket(s, flags)
      PROVE  Covered'
  BY <1>2, SelectAssumption
  DEF AddSocket, Watch, TypeOK, Covered, CheckAll, WriteFlags
<1>3. ASSUME NEW s \in Socket, NEW flags \in SUBSET CheckAll,
             RemoveSocket(s, flags)
      PROVE  Covered'
  BY <1>3 DEF RemoveSocket, TypeOK, Covered
<1>4. CASE WaitReady \/ WaitTimeout
  BY <1>4 DEF WaitReady, WaitTimeout, Answers, TypeOK, Covered
<1>5. \/ UNCHANGED setVars
      \/ \E s \in Socket, flags \in SUBSET CheckAll :
           AddSocket(s, flags) \/ RemoveSocket(s, flags)
      \/ WaitReady \/ WaitTimeout
  BY DEF Next, Network, Established, Refused, Arrives, Listen, Take, Connect,
         TestSocket, WaitError, vars
<1> QED BY <1>1, <1>2, <1>3, <1>4, <1>5

LEMMA Inductive == Spec => [](TypeOK /\ Covered)
BY InitCovered, TypeStep, CoveredStep, PTL DEF Spec

\* Type correctness.
THEOREM TypeCorrect == Spec => []TypeOK
BY Inductive, PTL

LEMMA CoveredPasses == TypeOK /\ Covered => EverySetIsPassed
<1> SUFFICES ASSUME TypeOK, Covered PROVE EverySetIsPassed
  OBVIOUS
<1>1. \A s \in readSet \cup writeSet : s < max + 1
  BY SelectAssumption DEF TypeOK, Covered
<1>2. Passed(readSet, {READ}) = readSet
  BY <1>1 DEF Covered, Passed
<1>3. Passed(writeSet, WriteFlags) = writeSet
  BY <1>1 DEF Covered, Passed
<1> QED BY <1>2, <1>3 DEF EverySetIsPassed, Covered

\* select() is given every socket that is in a set.
THEOREM SelectSeesEverySet == Spec => []EverySetIsPassed
BY Inductive, CoveredPasses, PTL

\* Wait() answers for exactly the sockets that the caller put in the sets.
THEOREM WaitAnswersExactly == Spec => WaitIsExact
<1> DEFINE Exact ==
      returned'.call = "Wait" /\ returned'.result # "error" =>
        /\ readSet' = {s \in readSet : ReadReady(s)}
        /\ writeSet' = {s \in writeSet : WriteReady(s)}
        /\ returned'.result = "timeout" <=> readSet' \cup writeSet' = {}
<1>1. ASSUME TypeOK, Covered, WaitReady \/ WaitTimeout PROVE Exact
  <2>1. Passed(readSet, {READ}) = readSet /\ Passed(writeSet, WriteFlags) = writeSet
    BY <1>1, CoveredPasses DEF EverySetIsPassed
  <2>2. /\ readSet' = {s \in readSet : ReadReady(s)}
        /\ writeSet' = {s \in writeSet : WriteReady(s)}
    BY <1>1, <2>1 DEF WaitReady, WaitTimeout, Answers
  <2>3. Selected = readSet' \cup writeSet'
    BY <2>1, <2>2 DEF Selected
  <2> QED BY <1>1, <2>2, <2>3 DEF WaitReady, WaitTimeout
<1>2. ASSUME Next PROVE \/ WaitReady \/ WaitTimeout
                        \/ returned'.call # "Wait" \/ returned'.result = "error"
  BY <1>2 DEF Next, Network, Established, Refused, Arrives, Listen, Take,
              Connect, AddSocket, Watch, RemoveSocket, TestSocket, WaitError,
              Nothing
<1>3. TypeOK /\ Covered /\ [Next]_vars => [Exact]_vars
  BY <1>1, <1>2
<1> QED BY <1>3, Inductive, PTL DEF Spec, WaitIsExact

LEMMA AnswersStep ==
  TypeOK /\ Covered /\ AnswersHold /\ [Next]_vars => AnswersHold'
<1> SUFFICES ASSUME TypeOK, Covered, AnswersHold, [Next]_vars
             PROVE  AnswersHold'
  OBVIOUS
<1> USE DEF AnswersHold, ReadReady, WriteReady, Over
<1>1. CASE UNCHANGED vars
  BY <1>1 DEF vars, kernelVars, setVars
<1>2. ASSUME NEW s \in Socket, Established(s) \/ Refused(s) \/ Arrives(s)
      PROVE  AnswersHold'
  BY <1>2 DEF Established, Refused, Arrives, Changes, TypeOK, setVars
<1>3. ASSUME NEW s \in Socket, Listen(s) \/ Take(s) \/ Connect(s)
      PROVE  AnswersHold'
  <2>1. /\ answered' = answered \ {s}
        /\ UNCHANGED <<readSet, writeSet>>
        /\ \A t \in Socket \ {s} : conn'[t] = conn[t] /\ readable'[t] = readable[t]
    BY <1>3 DEF Listen, Take, Connect, Changes, TypeOK, setVars
  <2> QED BY <2>1 DEF TypeOK
<1>4. ASSUME NEW s \in Socket, NEW flags \in SUBSET CheckAll,
             AddSocket(s, flags) \/ RemoveSocket(s, flags) \/ TestSocket(s, flags)
      PROVE  AnswersHold'
  BY <1>4 DEF AddSocket, Watch, RemoveSocket, TestSocket, TypeOK, kernelVars,
              setVars
<1>5. CASE WaitReady \/ WaitTimeout
  <2>1. Passed(readSet, {READ}) = readSet /\ Passed(writeSet, WriteFlags) = writeSet
    BY CoveredPasses DEF EverySetIsPassed
  <2> QED BY <1>5, <2>1 DEF WaitReady, WaitTimeout, Answers, kernelVars
<1>6. CASE WaitError
  BY <1>6 DEF WaitError
<1> QED BY <1>1, <1>2, <1>3, <1>4, <1>5, <1>6 DEF Next, Network

\* What one call of TestSocket() reports, by its two ways through the write set.
LEMMA TestReports ==
  ASSUME NEW asked \in SUBSET CheckAll, NEW error \in BOOLEAN,
         NEW inRead \in BOOLEAN, NEW inWrite \in BOOLEAN
  PROVE  /\ READ \in Verdict(asked, inRead, inWrite, error) => inRead
         /\ /\ WRITE \in Verdict(asked, inRead, inWrite, error)
            /\ FAILED \in asked => READ \in asked
            => inWrite
<1>1. READ \in Verdict(asked, inRead, inWrite, error) => inRead
  BY DEF Verdict, ReadVerdict
<1>2. ASSUME FAILED \in asked => READ \in asked, ~ inWrite
      PROVE  WRITE \notin Verdict(asked, inRead, inWrite, error)
  <2>1. FAILED \in asked => SkipsError(asked, inWrite)
    BY <1>2 DEF SkipsError
  <2>2. WRITE \notin WriteVerdict(asked, inWrite, error)
    BY <1>2, <2>1 DEF WriteVerdict, AsksError, WriteFlags
  <2> QED BY <2>2 DEF Verdict, ReadVerdict
<1> QED BY <1>1, <1>2

\* Wait() answers for sockets that fit only.
AnsweredFit == \A s \in answered : s < FdSetSize

LEMMA AnsweredFitStep == AnsweredFit /\ [Next]_vars => AnsweredFit'
BY DEF AnsweredFit, Next, Network, Established, Refused, Arrives, Listen, Take,
       Connect, AddSocket, Watch, RemoveSocket, TestSocket, WaitReady, WaitTimeout,
       Answers, WaitError, vars

\* A socket that tests as ready after Wait() is ready, until the caller itself
\* does something with it.
THEOREM ReportsAreReal == Spec => []ReportIsReal
<1>1. Init => AnswersHold /\ ReportIsReal /\ AnsweredFit
  BY DEF Init, AnswersHold, ReportIsReal, Tested, Nothing, AnsweredFit
<1>2. ASSUME TypeOK, Covered, AnswersHold, AnsweredFit, ReportIsReal, [Next]_vars
      PROVE  ReportIsReal'
  <2>1. CASE UNCHANGED vars
    BY <1>2, <2>1 DEF vars, kernelVars, setVars, ReportIsReal, Tested, ReadReady,
                      WriteReady, Over
  <2>2. ASSUME NEW s \in Socket, NEW asked \in SUBSET CheckAll,
               TestSocket(s, asked)
        PROVE  ReportIsReal'
    <3>1. CASE s < FdSetSize
      <4>1. PICK inRead, inWrite \in BOOLEAN :
              /\ inRead = (s \in readSet) /\ inWrite = (s \in writeSet)
              /\ returned' = [call |-> "TestSocket", socket |-> s, asked |-> asked,
                              result |-> Verdict(asked, inRead, inWrite, soError[s])]
              /\ UNCHANGED <<conn, readable, answered>>
        BY <2>2, <3>1 DEF TestSocket
      <4>2. soError[s] \in BOOLEAN
        BY <1>2 DEF TypeOK
      <4>3. /\ READ \in returned'.result => s \in readSet
            /\ /\ WRITE \in returned'.result
               /\ FAILED \in asked => READ \in asked
               => s \in writeSet
        BY <4>1, <4>2, TestReports
      <4>4. /\ returned'.call = "TestSocket" /\ returned'.socket = s
            /\ returned'.asked = asked
        BY <4>1
      <4>5. s \in answered =>
              /\ READ \in returned'.result => ReadReady(s)'
              /\ /\ WRITE \in returned'.result
                 /\ FAILED \in asked => READ \in asked
                 => WriteReady(s)'
        BY <1>2, <4>1, <4>3 DEF AnswersHold, ReadReady, WriteReady
      <4> QED BY <4>1, <4>4, <4>5 DEF ReportIsReal, Tested
    <3>2. CASE ~ s < FdSetSize
      <4>1. answered' = answered /\ returned'.socket = s
        BY <2>2 DEF TestSocket
      <4> QED BY <1>2, <3>2, <4>1 DEF ReportIsReal, Tested, AnsweredFit
    <3> QED BY <3>1, <3>2
  <2>3. \/ UNCHANGED vars
        \/ \E s \in Socket, asked \in SUBSET CheckAll : TestSocket(s, asked)
        \/ returned'.call # "TestSocket"
    BY <1>2 DEF Next, Network, Established, Refused, Arrives, Listen, Take,
                Connect, AddSocket, Watch, RemoveSocket, WaitReady, WaitTimeout,
                WaitError, Nothing
  <2> QED BY <2>1, <2>2, <2>3 DEF ReportIsReal, Tested
<1> QED BY <1>1, <1>2, AnswersStep, AnsweredFitStep, Inductive, PTL DEF Spec

\* What one call of Connect() answers about the state that it leaves.
LEMMA ConnectAnswers ==
  ASSUME NEW state \in ConnState, NEW error \in BOOLEAN,
         NEW outcome \in ConnectOutcome(state, error)
  PROVE  /\ ConnectAnswer(outcome[2]) = "CONNECT_SUCCESS"
              <=> outcome[1] \in {"connected", "reset"}
         /\ ConnectAnswer(outcome[2]) = "CONNECT_PENDING" <=> outcome[1] = "connecting"
BY DEF ConnState, ConnectOutcome, Attempt, ConnectAnswer

\* However often it is called, Connect() answers what the connection is.
THEOREM ConnectAnswersRight == Spec => []ConnectIsRight
<1>1. Init => ConnectIsRight
  BY DEF Init, ConnectIsRight, Nothing
<1>2. ASSUME TypeOK, ConnectIsRight, [Next]_vars PROVE ConnectIsRight'
  <2>1. CASE UNCHANGED vars
    BY <1>2, <2>1 DEF vars, kernelVars, ConnectIsRight
  <2>2. ASSUME NEW s \in Socket, Connect(s) PROVE ConnectIsRight'
    <3>1. PICK outcome \in ConnectOutcome(conn[s], soError[s]) :
            /\ Changes(s, outcome[1])
            /\ returned' = [call |-> "Connect", socket |-> s,
                            result |-> ConnectAnswer(outcome[2])]
      BY <2>2 DEF Connect
    <3>2. conn'[s] = outcome[1]
      BY <1>2, <3>1 DEF Changes, TypeOK
    <3> QED BY <1>2, <3>1, <3>2, ConnectAnswers DEF ConnectIsRight, TypeOK
  <2>3. \/ UNCHANGED vars \/ \E s \in Socket : Connect(s)
        \/ returned'.call # "Connect"
    BY <1>2 DEF Next, Network, Established, Refused, Arrives, Listen, Take,
                AddSocket, Watch, RemoveSocket, TestSocket, WaitReady, WaitTimeout,
                WaitError, Nothing
  <2> QED BY <2>1, <2>2, <2>3 DEF ConnectIsRight
<1> QED BY <1>1, <1>2, Inductive, PTL DEF Spec

-----------------------------------------------------------------------------
LEMMA ErrorStep == TypeOK /\ ErrorIsRefusal /\ [Next]_vars => ErrorIsRefusal'
<1> SUFFICES ASSUME TypeOK, ErrorIsRefusal, [Next]_vars PROVE ErrorIsRefusal'
  OBVIOUS
<1> USE DEF ErrorIsRefusal, Over
<1>1. ASSUME NEW s \in Socket, Established(s) \/ Refused(s) \/ Listen(s)
      PROVE  ErrorIsRefusal'
  BY <1>1 DEF Established, Refused, Listen, Changes, TypeOK
<1>2. ASSUME NEW s \in Socket, Connect(s) PROVE ErrorIsRefusal'
  <2>1. PICK state : /\ Changes(s, state)
                     /\ soError' = [soError EXCEPT ![s] = @ /\ state = "reset"]
    BY <1>2 DEF Connect
  <2> QED BY <2>1 DEF Changes, TypeOK
<1>3. ASSUME NEW s \in Socket, NEW asked \in SUBSET CheckAll, TestSocket(s, asked)
      PROVE  ErrorIsRefusal'
  BY <1>3 DEF TestSocket, TypeOK
<1>4. \/ UNCHANGED <<conn, soError>>
      \/ \E s \in Socket : Established(s) \/ Refused(s) \/ Listen(s) \/ Connect(s)
      \/ \E s \in Socket, asked \in SUBSET CheckAll : TestSocket(s, asked)
  BY DEF Next, Network, Arrives, Take, AddSocket, Watch, RemoveSocket, WaitReady,
         WaitTimeout, Answers, WaitError, vars, kernelVars
<1> QED BY <1>1, <1>2, <1>3, <1>4

\* A full test of a socket that Wait() left in the write set tells a connection
\* that is over from one that stands.
THEOREM VerdictsAreRight == Spec => VerdictIsRight
<1> DEFINE Right ==
      \A s \in answered \cap writeSet :
       /\ returned'.call = "TestSocket"
       /\ returned'.socket = s
       /\ returned'.asked = CheckAll
       => /\ FAILED \in returned'.result <=> soError[s]
          /\ FAILED \in returned'.result => conn[s] \in Over
          /\ WRITE \in returned'.result => conn[s] \notin Over \/ ~ soError[s]
          /\ ~ soError'[s]
<1>1. Init => ErrorIsRefusal /\ AnsweredFit
  BY DEF Init, ErrorIsRefusal, AnsweredFit
<1>2. ASSUME TypeOK, ErrorIsRefusal, AnsweredFit, NEW s \in Socket,
             NEW asked \in SUBSET CheckAll, TestSocket(s, asked)
      PROVE  Right
  <2>1. returned'.socket = s /\ returned'.asked = asked
    BY <1>2 DEF TestSocket
  <2>2. soError[s] => conn[s] \in Over
    BY <1>2 DEF ErrorIsRefusal
  <2> SUFFICES ASSUME s \in answered, s \in writeSet, asked = CheckAll
               PROVE  /\ FAILED \in returned'.result <=> soError[s]
                      /\ WRITE \in returned'.result => ~ soError[s]
                      /\ ~ soError'[s]
    BY <2>1, <2>2
  <2>3. PICK inRead, inWrite \in BOOLEAN :
          /\ s < FdSetSize => inRead = (s \in readSet) /\ inWrite = (s \in writeSet)
          /\ returned' = [call |-> "TestSocket", socket |-> s, asked |-> asked,
                          result |-> Verdict(asked, inRead, inWrite, soError[s])]
          /\ soError' = [soError EXCEPT ![s] = @ /\ ~ AsksError(asked, inWrite)]
    BY <1>2 DEF TestSocket
  <2>4. inWrite /\ returned'.result = Verdict(asked, inRead, inWrite, soError[s])
    BY <1>2, <2>3 DEF AnsweredFit
  <2> DEFINE verdict == Verdict(asked, inRead, inWrite, soError[s])
  <2>5. AsksError(asked, inWrite) /\ ~ SkipsError(asked, inWrite)
    BY <2>4 DEF AsksError, SkipsError, CheckAll
  <2>6. WriteVerdict(asked, inWrite, soError[s])
          = IF soError[s] THEN Bits \ {WRITE} ELSE Bits \ {FAILED}
    BY <1>2, <2>5 DEF WriteVerdict, TypeOK
  <2>7. FAILED # WRITE /\ FAILED # READ /\ WRITE # READ
    BY DEF FAILED, WRITE, READ
  <2>8. {FAILED, WRITE} \subseteq Bits \cap CheckAll
    BY DEF Bits, CheckAll
  <2>9. /\ FAILED \in verdict <=> soError[s]
        /\ WRITE \in verdict => ~ soError[s]
    BY <1>2, <2>6, <2>7, <2>8 DEF Verdict, ReadVerdict, TypeOK
  <2>10. ~ soError'[s]
    BY <1>2, <2>3, <2>5 DEF TypeOK
  <2> QED BY <2>4, <2>9, <2>10
<1>3. ASSUME Next
      PROVE  \/ \E s \in Socket, asked \in SUBSET CheckAll : TestSocket(s, asked)
             \/ returned'.call # "TestSocket"
  BY <1>3 DEF Next, Network, Established, Refused, Arrives, Listen, Take, Connect,
              AddSocket, Watch, RemoveSocket, WaitReady, WaitTimeout, WaitError, Nothing
<1>4. TypeOK /\ ErrorIsRefusal /\ AnsweredFit /\ [Next]_vars => [Right]_vars
  BY <1>2, <1>3
<1> QED BY <1>1, <1>4, ErrorStep, AnsweredFitStep, Inductive, PTL
        DEF Spec, VerdictIsRight
=============================================================================
