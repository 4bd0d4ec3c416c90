----------------------- MODULE ReceiveMultiple_proofs -----------------------
(***************************************************************************)
(* Proofs about ReceiveMultiple, for every value of its constants.         *)
(***************************************************************************)
EXTENDS ReceiveMultiple, TLAPS

Answer == [result : -1..MaxLength, error : Error \cup {NoError}]
Entry == [message : Message, source : BOOLEAN]
Control == {"idle", "emulated", "native"}

\* What is in a sequence after an Append, and after its head is gone.

LEMMA AppendElements ==
  ASSUME NEW S, NEW s \in Seq(S), NEW e \in S
  PROVE  /\ Append(s, e) \in Seq(S)
         /\ Len(Append(s, e)) = Len(s) + 1
         /\ \A k \in 1..Len(s) : Append(s, e)[k] = s[k]
         /\ Append(s, e)[Len(s) + 1] = e
OBVIOUS

LEMMA TailElements ==
  ASSUME NEW S, NEW s \in Seq(S), s # <<>>
  PROVE  /\ Head(s) \in S /\ Head(s) = s[1] /\ 1 \in 1..Len(s)
         /\ Tail(s) \in Seq(S)
         /\ Len(Tail(s)) = Len(s) - 1
         /\ \A k \in 1..Len(Tail(s)) : Tail(s)[k] = s[k + 1]
OBVIOUS

\* A call that returns a result in the range of results keeps the types.
LEMMA AnswersTyped ==
  ASSUME TypeOK, NEW t \in Thread, NEW result \in -1..MaxLength,
         NEW error \in Error \cup {NoError}, Answers(t, result, error),
         parts' \in [Thread -> [1..MaxLength -> Part]],
         consumed' \in SUBSET Message
  PROVE  TypeOK'
<1>1. [result |-> result, error |-> error] \in Answer
  BY DEF Answer
<1>2. answer \in [Thread -> Answer]
  BY DEF TypeOK, Answer
<1>3. answer' \in [Thread -> Answer]
  BY <1>1, <1>2 DEF Answers
<1> QED BY <1>3 DEF Answers, TypeOK, Answer

\* Setting msg_namelen leaves the rest of the array alone.
LEMMA NameLengthTyped ==
  ASSUME TypeOK, NEW t \in Thread, i[t] < length[t], SetsNameLength(t)
  PROVE  parts' \in [Thread -> [1..MaxLength -> Part]]
<1> USE ReceiveAssumption
<1> DEFINE p == parts[t][i[t] + 1]
           q == [p EXCEPT !.named = p.address]
<1>1. i[t] + 1 \in 1..MaxLength
  BY DEF TypeOK
<1>2. p \in Part
  BY <1>1 DEF TypeOK
<1>3. q \in Part
  BY <1>2 DEF Part
<1>4. parts' = [parts EXCEPT ![t] = [parts[t] EXCEPT ![i[t] + 1] = q]]
  BY <1>1 DEF SetsNameLength, TypeOK
<1> HIDE DEF p, q
<1> QED BY <1>1, <1>3, <1>4 DEF TypeOK

\* Whether the source is written is read from the next part.
LEMMA SourceTyped ==
  ASSUME TypeOK, NEW t \in Thread, i[t] < length[t]
  PROVE  parts[t][i[t] + 1] \in [address : BOOLEAN, named : BOOLEAN]
<1> USE ReceiveAssumption
<1>1. i[t] + 1 \in 1..MaxLength
  BY DEF TypeOK
<1>2. parts[t][i[t] + 1] \in Part
  BY <1>1 DEF TypeOK
<1> QED BY <1>2 DEF Part

\* The kernel moves the oldest message from the socket to the thread.
LEMMA GivesOne ==
  ASSUME TypeOK, NEW t \in Thread, NEW source \in BOOLEAN, Gives(t, source),
         i[t] < length[t]
  PROVE  /\ TypeOK'
         /\ i'[t] = i[t] + 1
         /\ incoming # <<>>
         /\ incoming' = Tail(incoming)
         /\ got'[t] = Append(got[t], [message |-> Head(incoming),
                                      source |-> source])
         /\ \A u \in Thread \ {t} : got'[u] = got[u] /\ i'[u] = i[u]
<1> USE ReceiveAssumption
<1>1. got \in [Thread -> Seq(Entry)] /\ incoming \in Seq(Message)
  BY DEF TypeOK, Entry
<1>2. incoming # <<>>
  BY DEF Gives
<1>3. Head(incoming) \in Message /\ incoming' \in Seq(Message)
  BY <1>1, <1>2, TailElements DEF Gives
<1>4. [message |-> Head(incoming), source |-> source] \in Entry
  BY <1>3 DEF Entry
<1>5. Append(got[t], [message |-> Head(incoming), source |-> source])
        \in Seq(Entry)
  BY <1>1, <1>4, AppendElements
<1>6. /\ got' \in [Thread -> Seq(Entry)]
      /\ got'[t] = Append(got[t], [message |-> Head(incoming),
                                   source |-> source])
      /\ \A u \in Thread \ {t} : got'[u] = got[u]
  BY <1>1, <1>5 DEF Gives
<1>7. /\ i' \in [Thread -> 0..MaxLength]
      /\ i'[t] = i[t] + 1
      /\ \A u \in Thread \ {t} : i'[u] = i[u]
  BY DEF Gives, TypeOK
<1>8. parts' \in [Thread -> [1..MaxLength -> Part]]
  BY NameLengthTyped DEF Gives
<1>9. TypeOK'
  BY <1>3, <1>6, <1>7, <1>8 DEF Gives, TypeOK, Entry
<1> QED BY <1>2, <1>6, <1>7, <1>9 DEF Gives

-----------------------------------------------------------------------------
\* The four kinds of step and the invariant.

\* A message that arrives is new.
LEMMA ArrivesKeeps == IndInv /\ Arrives => IndInv'
<1> USE ReceiveAssumption
<1> SUFFICES ASSUME IndInv, Arrives PROVE IndInv'
  OBVIOUS
<1> USE DEF IndInv
<1>1. arrived + 1 \in Message
  BY DEF Arrives, TypeOK, Message
<1>2. incoming \in Seq(Message)
  BY DEF TypeOK
<1>3. /\ incoming' \in Seq(Message)
      /\ Len(incoming') = Len(incoming) + 1
      /\ \A k \in 1..Len(incoming) : incoming'[k] = incoming[k]
      /\ incoming'[Len(incoming) + 1] = arrived + 1
  BY <1>1, <1>2, AppendElements DEF Arrives
<1>4. TypeOK'
  <2>1. arrived' \in 0..MaxArrivals
    BY <1>1 DEF Arrives, TypeOK, Message
  <2> QED BY <1>3, <2>1 DEF Arrives, callVars, TypeOK
<1>5. \A t \in Thread : Held(t)' = Held(t)
  BY DEF Arrives, callVars, Held
<1>6. Waiting' = Waiting \cup {arrived + 1}
  <2>1. Len(incoming) \in Nat
    BY <1>2
  <2> QED BY <1>3, <2>1 DEF Waiting
<1>7. 1..arrived' = 1..arrived \cup {arrived + 1} /\ arrived + 1 \notin 1..arrived
  <2>1. arrived \in Nat /\ arrived' = arrived + 1
    BY DEF Arrives, TypeOK
  <2> QED BY <2>1
<1>8. ReceivedOnce'
  BY <1>5, <1>6, <1>7 DEF Arrives, ReceivedOnce
<1>9. AllDiffer'
  <2>1. \A k \in 1..Len(incoming) : incoming[k] # arrived + 1
    BY <1>7 DEF ReceivedOnce, Waiting
  <2>2. Len(incoming) \in Nat
    BY <1>2
  <2>3. \A j, k \in 1..Len(incoming') : j # k => incoming'[j] # incoming'[k]
    BY <1>3, <2>1, <2>2 DEF AllDiffer
  <2> QED BY <2>3 DEF Arrives, callVars, AllDiffer
<1>10. IndexIsGot'
  BY DEF Arrives, callVars, IndexIsGot
<1> QED BY <1>4, <1>8, <1>9, <1>10

\* A message that the kernel gives leaves the socket for exactly one call.
LEMMA GivesKeeps ==
  ASSUME IndInv, NEW t \in Thread, NEW source \in BOOLEAN, Gives(t, source),
         pc[t] # "idle", i[t] < length[t]
  PROVE  IndInv'
<1> USE ReceiveAssumption DEF IndInv
<1> DEFINE m == Head(incoming)
<1>1. /\ TypeOK'
      /\ i'[t] = i[t] + 1
      /\ incoming # <<>>
      /\ incoming' = Tail(incoming)
      /\ got'[t] = Append(got[t], [message |-> m, source |-> source])
      /\ \A u \in Thread \ {t} : got'[u] = got[u] /\ i'[u] = i[u]
  BY GivesOne
<1>2. incoming \in Seq(Message) /\ got[t] \in Seq(Entry)
  BY DEF TypeOK, Entry
<1>3. /\ m \in Message /\ m = incoming[1] /\ 1 \in 1..Len(incoming)
      /\ Len(incoming') = Len(incoming) - 1
      /\ \A k \in 1..Len(incoming') : incoming'[k] = incoming[k + 1]
  BY <1>1, <1>2, TailElements
<1>4. [message |-> m, source |-> source] \in Entry
  BY <1>3 DEF Entry
<1>5. /\ Len(got'[t]) = Len(got[t]) + 1
      /\ \A k \in 1..Len(got[t]) : got'[t][k] = got[t][k]
      /\ got'[t][Len(got[t]) + 1] = [message |-> m, source |-> source]
  BY <1>1, <1>2, <1>4, AppendElements
<1>6. Len(incoming) \in Nat /\ Len(got[t]) \in Nat
  BY <1>2
<1>7. UNCHANGED <<arrived, pc, length, consumed>>
  BY DEF Gives
<1>8. got'[t][Len(got[t]) + 1].message = m
  BY <1>5
<1> HIDE DEF m
<1>9. m \in Waiting
  BY <1>3 DEF Waiting
<1>10. Waiting' = Waiting \ {m}
  <2>1. \A k \in 1..Len(incoming) : k # 1 => incoming[k] # m
    BY <1>3 DEF AllDiffer
  <2>2. \A k \in 1..Len(incoming') : k + 1 \in 1..Len(incoming) /\ k + 1 # 1
    BY <1>3, <1>6
  <2>3. Waiting' \subseteq Waiting \ {m}
    BY <1>3, <2>1, <2>2 DEF Waiting
  <2>4. ASSUME NEW k \in 1..Len(incoming), incoming[k] # m
        PROVE  incoming[k] \in Waiting'
    <3>1. k # 1 /\ k - 1 \in 1..Len(incoming')
      BY <1>3, <1>6, <2>4
    <3>2. incoming'[k - 1] = incoming[k]
      BY <1>3, <3>1
    <3> QED BY <3>1, <3>2 DEF Waiting
  <2> QED BY <2>3, <2>4 DEF Waiting
<1>11. Held(t)' = Held(t) \cup {m}
  <2>1. Held(t) = {got[t][k].message : k \in 1..Len(got[t])}
    BY DEF Held
  <2>2. Held(t)' = {got'[t][k].message : k \in 1..Len(got'[t])}
    BY <1>7 DEF Held
  <2>3. \A k \in 1..Len(got'[t]) : k \in 1..Len(got[t]) \/ k = Len(got[t]) + 1
    BY <1>5, <1>6
  <2>4. \A k \in 1..Len(got[t]) : k \in 1..Len(got'[t])
    BY <1>5, <1>6
  <2>5. Len(got[t]) + 1 \in 1..Len(got'[t])
    BY <1>5, <1>6
  <2>6. \A k \in 1..Len(got[t]) : got'[t][k].message = got[t][k].message
    BY <1>5
  <2> QED BY <1>8, <2>1, <2>2, <2>3, <2>4, <2>5, <2>6
<1>12. \A u \in Thread \ {t} : Held(u)' = Held(u)
  BY <1>1, <1>7 DEF Held
<1>13. ReceivedOnce'
  BY <1>7, <1>9, <1>10, <1>11, <1>12 DEF ReceivedOnce
<1>14. AllDiffer'
  <2>1. \A j, k \in 1..Len(incoming') : j # k => incoming'[j] # incoming'[k]
    <3>1. \A k \in 1..Len(incoming') : k + 1 \in 1..Len(incoming)
      BY <1>3, <1>6
    <3> QED BY <1>3, <3>1 DEF AllDiffer
  <2>2. \A k \in 1..Len(got[t]) : got[t][k].message # m
    BY <1>9 DEF ReceivedOnce, Held
  <2>3. \A j, k \in 1..Len(got'[t]) :
          j # k => got'[t][j].message # got'[t][k].message
    <3>1. \A k \in 1..Len(got'[t]) : k \in 1..Len(got[t]) \/ k = Len(got[t]) + 1
      BY <1>5, <1>6
    <3>2. \A k \in 1..Len(got[t]) : got'[t][k].message = got[t][k].message
      BY <1>5
    <3>3. \A j, k \in 1..Len(got[t]) :
            j # k => got[t][j].message # got[t][k].message
      BY DEF AllDiffer
    <3> QED BY <1>8, <2>2, <3>1, <3>2, <3>3
  <2>4. ASSUME NEW u \in Thread
        PROVE  \A j, k \in 1..Len(got'[u]) :
                 j # k => got'[u][j].message # got'[u][k].message
    <3>1. CASE u = t
      BY <2>3, <3>1
    <3>2. CASE u # t
      <4>1. got'[u] = got[u]
        BY <1>1, <3>2
      <4>2. \A j, k \in 1..Len(got[u]) :
              j # k => got[u][j].message # got[u][k].message
        BY DEF AllDiffer
      <4> QED BY <4>1, <4>2
    <3> QED BY <3>1, <3>2
  <2> QED BY <2>1, <2>4 DEF AllDiffer
<1>15. IndexIsGot'
  <2>1. i[t] \in Nat /\ length[t] \in Nat /\ i[t] = Len(got[t])
    BY DEF TypeOK, IndexIsGot
  <2> QED BY <1>1, <1>5, <1>7, <2>1 DEF IndexIsGot
<1> QED BY <1>1, <1>13, <1>14, <1>15

\* A call that tells its caller of as many messages as it was given loses none.
LEMMA AnswersKeeps ==
  ASSUME IndInv, NEW t \in Thread, NEW result \in -1..MaxLength,
         NEW error \in Error \cup {NoError}, Answers(t, result, error),
         parts' \in [Thread -> [1..MaxLength -> Part]], pc[t] # "idle",
         result = IF error # NoError /\ i[t] = 0 THEN -1 ELSE i[t]
  PROVE  IndInv'
<1> USE ReceiveAssumption DEF IndInv
<1>1. i[t] = Len(got[t]) /\ i[t] \in Nat
  BY DEF IndexIsGot, TypeOK
<1>2. 1..result = 1..Len(got[t])
  BY <1>1
<1>3. Told(t, result) = Held(t)
  BY <1>2 DEF Told, Held
<1>4. consumed' = consumed \cup Held(t)
  BY <1>3 DEF Answers
<1>5. got[t] \in Seq(Entry)
  BY DEF TypeOK, Entry
<1>6. Held(t) \subseteq Message
  <2>1. ASSUME NEW k \in 1..Len(got[t]) PROVE got[t][k].message \in Message
    <3>1. got[t][k] \in Entry
      BY <1>5
    <3> QED BY <3>1 DEF Entry
  <2> QED BY <2>1 DEF Held
<1>7. TypeOK'
  BY <1>4, <1>6, AnswersTyped DEF TypeOK
<1>8. /\ pc'[t] = "idle"
      /\ \A u \in Thread \ {t} : pc'[u] = pc[u]
      /\ UNCHANGED <<incoming, arrived, length, i, got>>
  BY DEF Answers, TypeOK
<1>9. Held(t)' = {} /\ \A u \in Thread \ {t} : Held(u)' = Held(u)
  BY <1>8 DEF Held
<1>10. Waiting' = Waiting
  BY <1>8 DEF Waiting
<1>11. ReceivedOnce'
  BY <1>4, <1>8, <1>9, <1>10 DEF ReceivedOnce
<1>12. AllDiffer' /\ IndexIsGot'
  BY <1>8, SMTT(30) DEF AllDiffer, IndexIsGot
<1> QED BY <1>7, <1>11, <1>12

\* A call begins with nothing.
LEMMA CallKeeps ==
  ASSUME IndInv, NEW t \in Thread, NEW array \in [1..MaxLength -> Part],
         NEW n \in 0..MaxLength, Call(t, array, n)
  PROVE  IndInv'
<1> USE ReceiveAssumption DEF IndInv
<1>1. got \in [Thread -> Seq(Entry)]
  BY DEF TypeOK, Entry
<1>2. got' \in [Thread -> Seq(Entry)] /\ got'[t] = <<>>
      /\ \A u \in Thread \ {t} : got'[u] = got[u]
  <2>1. <<>> \in Seq(Entry)
    OBVIOUS
  <2> QED BY <1>1, <2>1 DEF Call
<1>3. /\ pc' \in [Thread -> Control]
      /\ pc[t] = "idle" /\ pc'[t] # "idle"
      /\ \A u \in Thread \ {t} : pc'[u] = pc[u]
  BY DEF Call, TypeOK, Control
<1>4. /\ parts' \in [Thread -> [1..MaxLength -> Part]]
      /\ UNCHANGED <<recvMMsg, incoming, arrived, answer, consumed>>
  BY DEF Call, TypeOK
<1>5. /\ length' \in [Thread -> 0..MaxLength]
      /\ length'[t] = n
      /\ \A u \in Thread \ {t} : length'[u] = length[u]
  BY DEF Call, TypeOK
<1>6. /\ i' \in [Thread -> 0..MaxLength]
      /\ i'[t] = 0
      /\ \A u \in Thread \ {t} : i'[u] = i[u]
  BY DEF Call, TypeOK
<1>7. TypeOK'
  BY <1>2, <1>3, <1>4, <1>5, <1>6 DEF TypeOK, Entry, Control
<1>8. Len(got'[t]) = 0
  BY <1>2
<1>9. Held(t)' = Held(t) /\ \A u \in Thread \ {t} : Held(u)' = Held(u)
  <2>1. Held(t) = {}
    BY <1>3 DEF Held
  <2>2. Held(t)' = {got'[t][k].message : k \in 1..Len(got'[t])}
    BY <1>3 DEF Held
  <2>3. 1..Len(got'[t]) = {}
    BY <1>8
  <2>4. Held(t)' = {}
    BY <2>2, <2>3
  <2>5. \A u \in Thread \ {t} : Held(u)' = Held(u)
    BY <1>2, <1>3 DEF Held
  <2> QED BY <2>1, <2>4, <2>5
<1>10. Waiting' = Waiting
  BY <1>4 DEF Waiting
<1>11. ReceivedOnce'
  BY <1>4, <1>9, <1>10, SMTT(30) DEF ReceivedOnce
<1>12. AllDiffer'
  <2>1. 1..Len(got'[t]) = {}
    BY <1>8
  <2>2. ASSUME NEW u \in Thread
        PROVE  \A j, k \in 1..Len(got'[u]) :
                 j # k => got'[u][j].message # got'[u][k].message
    <3>1. CASE u = t
      BY <2>1, <3>1
    <3>2. CASE u # t
      <4>1. got'[u] = got[u]
        BY <1>2, <3>2
      <4>2. \A j, k \in 1..Len(got[u]) :
              j # k => got[u][j].message # got[u][k].message
        BY DEF AllDiffer
      <4> QED BY <4>1, <4>2
    <3> QED BY <3>1, <3>2
  <2> QED BY <1>4, <2>2 DEF AllDiffer
<1>13. IndexIsGot'
  <2>1. n \in Nat /\ 0 <= n
    OBVIOUS
  <2>2. ASSUME NEW u \in Thread
        PROVE  /\ Len(got'[u]) <= length'[u]
               /\ pc'[u] # "idle" => i'[u] = Len(got'[u])
    <3>1. CASE u = t
      BY <1>5, <1>6, <1>8, <2>1, <3>1
    <3>2. CASE u # t
      <4>1. /\ got'[u] = got[u] /\ length'[u] = length[u]
            /\ pc'[u] = pc[u] /\ i'[u] = i[u]
        BY <1>2, <1>3, <1>5, <1>6, <3>2
      <4> QED BY <4>1 DEF IndexIsGot
    <3> QED BY <3>1, <3>2
  <2> QED BY <2>2 DEF IndexIsGot
<1> QED BY <1>7, <1>11, <1>12, <1>13

\* Each of the four ways in which a call ends is one of these, whatever the error.
LEMMA EndsKeep ==
  ASSUME IndInv, NEW t \in Thread, NEW error,
         \/ EmulatedReturns(t) \/ NativeReturns(t)
         \/ error \in Error /\ (EmulatedFails(t, error) \/ NativeFails(t, error))
  PROVE  IndInv'
<1> USE ReceiveAssumption DEF IndInv
<1>1. /\ i[t] \in 0..MaxLength /\ length[t] \in 0..MaxLength
      /\ i[t] \in -1..MaxLength /\ length[t] \in -1..MaxLength
      /\ i[t] \in Nat /\ length[t] \in Nat /\ -1 \in -1..MaxLength
      /\ parts \in [Thread -> [1..MaxLength -> Part]]
  BY DEF TypeOK
<1>2. CASE EmulatedReturns(t)
  <2>1. Answers(t, i[t], NoError) /\ pc[t] # "idle" /\ parts' = parts
    BY <1>2 DEF EmulatedReturns
  <2> QED BY <1>1, <2>1, AnswersKeeps
<1>3. CASE NativeReturns(t)
  <2>1. Answers(t, i[t], NoError) /\ pc[t] # "idle" /\ parts' = parts
    BY <1>3 DEF NativeReturns
  <2> QED BY <1>1, <2>1, AnswersKeeps
<1>4. CASE error \in Error /\ EmulatedFails(t, error)
  <2>1. parts' \in [Thread -> [1..MaxLength -> Part]]
    BY <1>4, NameLengthTyped DEF EmulatedFails, InLoop
  <2>2. Answers(t, IF i[t] = 0 THEN -1 ELSE i[t], error) /\ pc[t] # "idle"
    BY <1>4 DEF EmulatedFails, InLoop
  <2>3. (IF i[t] = 0 THEN -1 ELSE i[t]) \in -1..MaxLength
    BY <1>1
  <2>4. error # NoError /\ error \in Error \cup {NoError}
    BY <1>4
  <2> QED BY <2>1, <2>2, <2>3, <2>4, AnswersKeeps
<1>5. CASE error \in Error /\ NativeFails(t, error)
  <2>1. /\ Answers(t, -1, error) /\ pc[t] # "idle" /\ parts' = parts
        /\ i[t] = 0
    BY <1>5 DEF NativeFails
  <2> QED BY <1>1, <1>5, <2>1, AnswersKeeps
<1> QED BY <1>2, <1>3, <1>4, <1>5

\* The inductive invariant: with the count of each call, that no message is in
\* two places.
THEOREM Inductive == Spec => []IndInv
<1> USE ReceiveAssumption
<1>1. Init => IndInv
  <2> SUFFICES ASSUME Init PROVE IndInv
    OBVIOUS
  <2>1. /\ parts \in [Thread -> [1..MaxLength -> Part]]
        /\ recvMMsg \in BOOLEAN
        /\ consumed \in SUBSET Message
        /\ pc \in [Thread -> Control]
    <3>1. parts \in [Thread -> [1..MaxLength -> Part]]
      BY DEF Init
    <3>2. recvMMsg \in BOOLEAN /\ consumed \in SUBSET Message
      BY DEF Init
    <3>3. pc \in [Thread -> Control]
      BY DEF Init, Control
    <3> QED BY <3>1, <3>2, <3>3
  <2>2. got \in [Thread -> Seq(Entry)] /\ incoming \in Seq(Message)
    BY DEF Init
  <2>3. answer \in [Thread -> Answer]
    BY DEF Init, Answer
  <2>4. length \in [Thread -> 0..MaxLength] /\ i \in [Thread -> 0..MaxLength]
    <3>1. 0 \in 0..MaxLength
      OBVIOUS
    <3> QED BY <3>1 DEF Init
  <2>5. arrived \in 0..MaxArrivals
    BY DEF Init
  <2>6. TypeOK
    BY <2>1, <2>2, <2>3, <2>4, <2>5 DEF TypeOK, Answer, Entry, Control
  <2>7. \A t \in Thread :
          pc[t] = "idle" /\ got[t] = <<>> /\ length[t] = 0
    BY DEF Init
  <2>8. 1..Len(<<>>) = {} /\ Len(<<>>) <= 0
    OBVIOUS
  <2>9. IndexIsGot
    <3>1. \A t \in Thread : Len(got[t]) <= length[t]
      BY <2>7, <2>8
    <3> QED BY <2>7, <3>1 DEF IndexIsGot
  <2>10. AllDiffer
    <3>1. \A t \in Thread : 1..Len(got[t]) = {}
      BY <2>7, <2>8
    <3> QED BY <2>8, <3>1 DEF Init, AllDiffer
  <2>11. ReceivedOnce
    <3>1. Waiting = {}
      BY <2>8 DEF Init, Waiting
    <3>2. \A t \in Thread : Held(t) = {}
      BY <2>7 DEF Held
    <3>3. 1..arrived = {} /\ consumed = {}
      BY DEF Init
    <3> QED BY <3>1, <3>2, <3>3 DEF ReceivedOnce
  <2> QED BY <2>6, <2>9, <2>10, <2>11 DEF IndInv
<1>2. IndInv /\ [Next]_vars => IndInv'
  <2> SUFFICES ASSUME IndInv, [Next]_vars PROVE IndInv'
    OBVIOUS
  <2>1. ASSUME UNCHANGED <<incoming, arrived, callVars, consumed>>,
               recvMMsg' \in BOOLEAN
        PROVE IndInv'
    <3>1. TypeOK'
      BY <2>1 DEF callVars, IndInv, TypeOK
    <3>2. IndexIsGot' /\ AllDiffer'
      BY <2>1 DEF callVars, IndInv, IndexIsGot, AllDiffer
    <3>3. ReceivedOnce'
      <4>1. (\A t \in Thread : Held(t)' = Held(t)) /\ Waiting' = Waiting
        BY <2>1 DEF callVars, Held, Waiting
      <4> QED BY <2>1, <4>1 DEF callVars, IndInv, ReceivedOnce
    <3> QED BY <3>1, <3>2, <3>3 DEF IndInv
  <2>2. CASE Initialize
    BY <2>1, <2>2 DEF Initialize
  <2>3. CASE Arrives
    BY <2>3, ArrivesKeeps
  <2>4. ASSUME NEW t \in Thread, NEW array \in [1..MaxLength -> Part],
               NEW n \in 0..MaxLength, Call(t, array, n)
        PROVE IndInv'
    BY <2>4, CallKeeps
  <2>5. ASSUME NEW t \in Thread, EmulatedReceive(t) \/ NativeReceive(t)
        PROVE IndInv'
    <3>1. i[t] < length[t] /\ pc[t] # "idle"
      BY <2>5 DEF EmulatedReceive, InLoop, NativeReceive
    <3>2. parts[t][i[t] + 1] \in [address : BOOLEAN, named : BOOLEAN]
      BY <3>1, SourceTyped DEF IndInv
    <3>3. PICK source \in BOOLEAN : Gives(t, source)
      BY <2>5, <3>2 DEF EmulatedReceive, NativeReceive
    <3> QED BY <3>1, <3>3, GivesKeeps
  <2>6. ASSUME NEW t \in Thread, NEW error \in Error,
               EmulatedFails(t, error) \/ NativeFails(t, error)
        PROVE IndInv'
    BY <2>6, EndsKeep
  <2>7. ASSUME NEW t \in Thread, EmulatedReturns(t) \/ NativeReturns(t)
        PROVE IndInv'
    BY <2>7, EndsKeep
  <2>8. CASE UNCHANGED vars
    BY <2>1, <2>8 DEF vars, IndInv, TypeOK
  <2> QED
    BY <2>2, <2>3, <2>4, <2>5, <2>6, <2>7, <2>8 DEF Next
<1> QED BY <1>1, <1>2, PTL DEF Spec

\* Every variable keeps its type.
COROLLARY TypeCorrect == Spec => []TypeOK
BY Inductive, PTL DEF IndInv

\* However many threads call with batches of whatever length, and whatever fails,
\* each message that has arrived is in exactly one place.
COROLLARY NoneLost == Spec => []ReceivedOnce
BY Inductive, PTL DEF IndInv


\* A thread that returns an answer ends the abstract call.
LEMMA AnswersEnds ==
  ASSUME IndInv, NEW t \in Thread, pc[t] # "idle",
         NEW result, NEW error \in Error \cup {NoError},
         Answers(t, result, error),
         i[t] = length[t] => error = NoError,
         i[t] = 0 /\ length[t] > 0 => error # NoError,
         result = IF error # NoError /\ i[t] = 0 THEN -1 ELSE i[t]
  PROVE  Batch!Next
<1>1. i[t] = Len(got[t])
  BY DEF IndInv, IndexIsGot
<1>2. [u \in Thread |-> pc'[u] # "idle"]
      = [[u \in Thread |-> pc[u] # "idle"] EXCEPT ![t] = FALSE]
  BY DEF Answers, IndInv, TypeOK
<1>3. [u \in Thread |-> Len(got'[u])] = [u \in Thread |-> Len(got[u])]
  BY DEF Answers
<1>4. /\ [u \in Thread |-> pc[u] # "idle"][t]
      /\ [u \in Thread |-> Len(got[u])][t] = i[t]
  BY <1>1
<1>5. Batch!End(t, error)
  BY <1>2, <1>3, <1>4 DEF Answers, Batch!End
<1> QED BY <1>5 DEF Batch!Next

\* A thread that is given a message moves one message of the abstract batch.
LEMMA GivesMoves ==
  ASSUME IndInv, NEW t \in Thread, NEW source \in BOOLEAN, Gives(t, source),
         pc[t] # "idle", i[t] < length[t]
  PROVE  Batch!Next
<1> USE DEF IndInv
<1>1. got \in [Thread -> Seq(Entry)] /\ incoming \in Seq(Message)
  BY DEF TypeOK, Entry
<1>2. incoming # <<>>
  BY DEF Gives
<1>3. Head(incoming) \in Message
  BY <1>1, <1>2, TailElements
<1>4. [message |-> Head(incoming), source |-> source] \in Entry
  BY <1>3 DEF Entry
<1>5. /\ i[t] = Len(got[t])
      /\ Len(got'[t]) = Len(got[t]) + 1
      /\ \A u \in Thread \ {t} : got'[u] = got[u]
  BY <1>1, <1>4, AppendElements, GivesOne DEF IndexIsGot
<1>6. [u \in Thread |-> Len(got'[u])]
      = [[u \in Thread |-> Len(got[u])] EXCEPT ![t] = @ + 1]
  BY <1>5
<1>7. [u \in Thread |-> pc'[u] # "idle"] = [u \in Thread |-> pc[u] # "idle"]
  BY DEF Gives
<1>8. /\ [u \in Thread |-> pc[u] # "idle"][t]
      /\ [u \in Thread |-> Len(got[u])][t] < length[t]
      /\ UNCHANGED <<length, answer>>
  BY <1>5 DEF Gives
<1>9. Batch!Move(t)
  BY <1>6, <1>7, <1>8 DEF Batch!Move
<1> QED BY <1>9 DEF Batch!Next

\* The loop and recvmmsg both implement the abstract batch: what the result says
\* is what the kernel gave.
THEOREM Refinement == Spec => ReceivesBatch
<1> USE ReceiveAssumption
<1>1. Init => Batch!Init
  <2> SUFFICES ASSUME Init PROVE Batch!Init
    OBVIOUS
  <2>1. [t \in Thread |-> pc[t] # "idle"] = [t \in Thread |-> FALSE]
    BY DEF Init
  <2>2. [t \in Thread |-> Len(got[t])] = [t \in Thread |-> 0]
    BY DEF Init
  <2> QED BY <2>1, <2>2 DEF Init, Batch!Init
<1>2. IndInv /\ [Next]_vars => [Batch!Next]_(Batch!vars)
  <2> SUFFICES ASSUME IndInv, [Next]_vars
               PROVE Batch!Next \/ UNCHANGED Batch!vars
    OBVIOUS
  <2> USE DEF IndInv
  <2>1. CASE Initialize \/ Arrives
    BY <2>1 DEF Initialize, Arrives, callVars, Batch!vars
  <2>2. ASSUME NEW t \in Thread, NEW array \in [1..MaxLength -> Part],
               NEW n \in 0..MaxLength, Call(t, array, n)
        PROVE Batch!Next
    <3>1. [u \in Thread |-> pc'[u] # "idle"]
          = [[u \in Thread |-> pc[u] # "idle"] EXCEPT ![t] = TRUE]
      BY <2>2 DEF Call, TypeOK
    <3>2. [u \in Thread |-> Len(got'[u])]
          = [[u \in Thread |-> Len(got[u])] EXCEPT ![t] = 0]
      BY <2>2 DEF Call, TypeOK
    <3>3. Batch!Begin(t, n)
      BY <2>2, <3>1, <3>2 DEF Call, Batch!Begin
    <3> QED BY <3>3 DEF Batch!Next
  <2>3. ASSUME NEW t \in Thread, EmulatedReceive(t) \/ NativeReceive(t)
        PROVE Batch!Next
    <3>1. i[t] < length[t] /\ pc[t] # "idle"
      BY <2>3 DEF EmulatedReceive, InLoop, NativeReceive
    <3>2. PICK source \in BOOLEAN : Gives(t, source)
      BY <2>3, <3>1, SourceTyped DEF EmulatedReceive, NativeReceive
    <3> QED BY <3>1, <3>2, GivesMoves
  <2>4. ASSUME NEW t \in Thread, EmulatedReturns(t) \/ NativeReturns(t)
        PROVE Batch!Next
    <3>1. i[t] \in Nat /\ length[t] \in Nat
      BY DEF TypeOK
    <3> QED BY <2>4, <3>1, AnswersEnds DEF EmulatedReturns, NativeReturns
  <2>5. ASSUME NEW t \in Thread, NEW error \in Error,
               EmulatedFails(t, error) \/ NativeFails(t, error)
        PROVE Batch!Next
    <3>1. i[t] \in Nat /\ length[t] \in Nat
      BY DEF TypeOK
    <3> QED BY <2>5, <3>1, AnswersEnds DEF EmulatedFails, InLoop, NativeFails
  <2>6. CASE UNCHANGED vars
    BY <2>6 DEF vars, callVars, Batch!vars
  <2> QED
    BY <2>1, <2>2, <2>3, <2>4, <2>5, <2>6 DEF Next
<1> QED BY <1>1, <1>2, Inductive, PTL DEF Spec, ReceivesBatch, Batch!Spec

=============================================================================
