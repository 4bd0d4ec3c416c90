------------------------- MODULE SendMultiple_proofs -------------------------
(***************************************************************************)
(* Proofs about SendMultiple, for every value of its constants.            *)
(***************************************************************************)
EXTENDS SendMultiple, TLAPS

Answer == [result : -1..MaxLength, error : Error \cup {NoError}]

\* A call that returns a result in the range of results keeps the types.
LEMMA AnswersTyped ==
  ASSUME TypeOK, NEW t \in Thread, NEW result \in -1..MaxLength,
         NEW error \in Error \cup {NoError}, Answers(t, result, error)
  PROVE  /\ sendMMsg' \in BOOLEAN
         /\ socket' \in [Thread -> Socket]
         /\ pc' \in [Thread -> {"idle", "emulated", "native", "nativeStops"}]
         /\ length' \in [Thread -> 0..MaxLength]
         /\ i' \in [Thread -> 0..MaxLength]
         /\ sent' \in [Thread -> Seq([to : Address \cup {NoAddress}, bytes : 1..MaxBytes])]
         /\ answer' \in [Thread -> Answer]
<1>1. [result |-> result, error |-> error] \in Answer
  BY DEF Answer
<1>2. answer \in [Thread -> Answer]
  BY DEF TypeOK, Answer
<1>3. answer' \in [Thread -> Answer]
  BY <1>1, <1>2 DEF Answers
<1> QED BY <1>3 DEF Answers, TypeOK

\* So does a message that the kernel takes.
LEMMA TakesTyped ==
  ASSUME TypeOK, NEW t \in Thread, NEW address \in PartAddress \cup {NoAddress},
         NEW bytes \in 1..MaxBytes, Takes(t, address, bytes), i[t] < length[t]
  PROVE  /\ sendMMsg' \in BOOLEAN
         /\ socket' \in [Thread -> Socket]
         /\ length' \in [Thread -> 0..MaxLength]
         /\ i' \in [Thread -> 0..MaxLength]
         /\ sent' \in [Thread -> Seq([to : Address \cup {NoAddress}, bytes : 1..MaxBytes])]
         /\ answer' \in [Thread -> Answer]
         /\ sent'[t] = Append(sent[t], [to |-> Destination(socket[t], address),
                                        bytes |-> bytes])
         /\ Len(sent'[t]) = Len(sent[t]) + 1
         /\ \A u \in Thread \ {t} : sent'[u] = sent[u] /\ i'[u] = i[u]
         /\ i'[t] = i[t] + 1
<1> USE SendAssumption
<1> DEFINE Message == [to : Address \cup {NoAddress}, bytes : 1..MaxBytes]
<1>1. Destination(socket[t], address) \in Address \cup {NoAddress}
  <2>1. socket[t] \in [stream : BOOLEAN, peer : Address \cup {NoAddress}]
    BY DEF TypeOK
  <2> QED BY <2>1 DEF Destination
<1>2. [to |-> Destination(socket[t], address), bytes |-> bytes] \in Message
  BY <1>1
<1>3. sent \in [Thread -> Seq(Message)]
  BY DEF TypeOK
<1> HIDE DEF Message
<1>4. /\ sent' \in [Thread -> Seq(Message)]
      /\ sent'[t] = Append(sent[t], [to |-> Destination(socket[t], address),
                                     bytes |-> bytes])
      /\ Len(sent'[t]) = Len(sent[t]) + 1
      /\ \A u \in Thread \ {t} : sent'[u] = sent[u]
  BY <1>2, <1>3 DEF Takes
<1>5. /\ i' \in [Thread -> 0..MaxLength]
      /\ i'[t] = i[t] + 1
      /\ \A u \in Thread \ {t} : i'[u] = i[u]
  BY DEF Takes, TypeOK
<1> QED BY <1>4, <1>5 DEF Takes, TypeOK, Answer, Message

\* Setting msg_namelen leaves the rest of the array alone.
LEMMA NameLengthTyped ==
  ASSUME TypeOK, NEW t \in Thread, i[t] < length[t], SetsNameLength(t)
  PROVE  /\ parts' \in [Thread -> [1..MaxLength -> Part]]
         /\ \A u \in Thread, k \in 1..MaxLength :
              parts'[u][k].address = parts[u][k].address
<1> USE SendAssumption
<1> DEFINE p == parts[t][i[t] + 1]
           q == WithNameLength(p)
<1>1. i[t] + 1 \in 1..MaxLength
  BY DEF TypeOK
<1>2. p \in Part
  BY <1>1 DEF TypeOK
<1>3. q \in Part /\ q.address = p.address
  BY <1>2 DEF Part, WithNameLength
<1>4. parts' = [parts EXCEPT ![t] = [parts[t] EXCEPT ![i[t] + 1] = q]]
  BY <1>1 DEF SetsNameLength, Current, TypeOK
<1> HIDE DEF p, q
<1>5. parts' \in [Thread -> [1..MaxLength -> Part]]
  BY <1>1, <1>3, <1>4 DEF TypeOK
<1>6. \A u \in Thread, k \in 1..MaxLength :
        parts'[u][k] = IF u = t /\ k = i[t] + 1 THEN q ELSE parts[u][k]
  BY <1>1, <1>4 DEF TypeOK
<1> QED BY <1>3, <1>5, <1>6 DEF p

\* The part that is sent next is a part, and what is taken of it is not more.
LEMMA CurrentTyped ==
  ASSUME TypeOK, NEW t \in Thread, i[t] < length[t]
  PROVE  /\ Current(t) \in Part
         /\ Accepted(socket[t], Current(t)) \subseteq 1..MaxBytes
         /\ Current(t).address \in PartAddress
         /\ Seen(Current(t)) \in PartAddress \cup {NoAddress}
         /\ Seen(WithNameLength(Current(t))) = Current(t).address
<1> USE SendAssumption
<1>1. i[t] + 1 \in 1..MaxLength
  BY DEF TypeOK
<1>2. Current(t) \in Part
  BY <1>1 DEF TypeOK, Current
<1> DEFINE part == Current(t)
<1>3. part \in [address : PartAddress, named : BOOLEAN, bytes : 1..MaxBytes]
  BY <1>2 DEF Part
<1> HIDE DEF part
<1>4. /\ WithNameLength(part).named = (part.address # NoAddress)
      /\ WithNameLength(part).address = part.address
  BY <1>3 DEF WithNameLength
<1>5. Seen(WithNameLength(part)) = part.address
  BY <1>4 DEF Seen
<1>6. /\ Accepted(socket[t], part) \subseteq 1..MaxBytes
      /\ Seen(part) \in PartAddress \cup {NoAddress}
  BY <1>3 DEF Accepted, Seen
<1> QED BY <1>2, <1>3, <1>5, <1>6 DEF part

\* The inductive invariant holds of every state that SendMultiple reaches, with
\* and without sendmmsg.
THEOREM Inductive == Spec => []IndInv
<1> USE SendAssumption
<1>1. Init => IndInv
  <2> SUFFICES ASSUME Init PROVE IndInv
    OBVIOUS
  <2>1. parts \in [Thread -> [1..MaxLength -> Part]]
    BY DEF Init
  <2>2. sent \in [Thread -> Seq([to : Address \cup {NoAddress}, bytes : 1..MaxBytes])]
    BY DEF Init
  <2>9. socket \in [Thread -> Socket]
    BY DEF Init
  <2>3. answer \in [Thread -> Answer]
    BY DEF Init, Answer
  <2>4. /\ pc \in [Thread -> {"idle", "emulated", "native", "nativeStops"}]
        /\ sendMMsg \in BOOLEAN
    BY DEF Init
  <2>5. length \in [Thread -> 0..MaxLength] /\ i \in [Thread -> 0..MaxLength]
    <3>1. 0 \in 0..MaxLength
      OBVIOUS
    <3> QED BY <3>1 DEF Init
  <2>6. TypeOK
    BY <2>1, <2>2, <2>3, <2>4, <2>5, <2>9 DEF TypeOK, Answer
  <2>7. \A t \in Thread :
          pc[t] = "idle" /\ sent[t] = <<>> /\ length[t] = 0
    BY DEF Init
  <2>8. IndexIsSent
    <3>1. Len(<<>>) <= 0
      OBVIOUS
    <3>2. \A t \in Thread : Len(sent[t]) <= length[t]
      BY <2>7, <3>1
    <3> QED BY <2>7, <3>2 DEF IndexIsSent
  <2> QED BY <2>6, <2>8 DEF IndInv
<1>2. IndInv /\ [Next]_vars => IndInv'
  <2> SUFFICES ASSUME IndInv, [Next]_vars PROVE IndInv'
    OBVIOUS
  <2> USE DEF IndInv
  <2>1. CASE Initialize
    <3>1. TypeOK'
      BY <2>1 DEF Initialize, TypeOK
    <3>2. IndexIsSent'
      BY <2>1 DEF Initialize, IndexIsSent
    <3> QED BY <3>1, <3>2
  <2>2. ASSUME NEW t \in Thread, NEW s \in Socket,
               NEW array \in [1..MaxLength -> Part],
               NEW n \in 0..MaxLength, Call(t, s, array, n)
        PROVE IndInv'
    <3>1. /\ parts' \in [Thread -> [1..MaxLength -> Part]]
          /\ socket' \in [Thread -> Socket]
          /\ UNCHANGED <<sendMMsg, answer>>
      BY <2>2 DEF Call, TypeOK
    <3>2. sent' \in [Thread -> Seq([to : Address \cup {NoAddress}, bytes : 1..MaxBytes])]
      <4> DEFINE Message == [to : Address \cup {NoAddress}, bytes : 1..MaxBytes]
      <4>1. sent \in [Thread -> Seq(Message)]
        BY DEF TypeOK
      <4> HIDE DEF Message
      <4>2. <<>> \in Seq(Message)
        OBVIOUS
      <4>3. sent' \in [Thread -> Seq(Message)]
        BY <2>2, <4>1, <4>2 DEF Call
      <4> QED BY <4>3 DEF Message
    <3>3. /\ pc' \in [Thread -> {"idle", "emulated", "native", "nativeStops"}]
          /\ length' \in [Thread -> 0..MaxLength]
          /\ i' \in [Thread -> 0..MaxLength]
      BY <2>2 DEF Call, TypeOK
    <3>4. TypeOK'
      BY <3>1, <3>2, <3>3 DEF TypeOK
    <3>5. IndexIsSent'
      <4>1. /\ pc'[t] \in {"native", "emulated"}
            /\ i'[t] = 0
            /\ sent'[t] = <<>>
            /\ length'[t] \in Nat
        BY <2>2 DEF Call, TypeOK
      <4>2. \A u \in Thread \ {t} :
              /\ pc'[u] = pc[u] /\ i'[u] = i[u]
              /\ sent'[u] = sent[u] /\ length'[u] = length[u]
        BY <2>2 DEF Call, TypeOK
      <4> QED BY <4>1, <4>2 DEF IndexIsSent
    <3> QED BY <3>4, <3>5
  <2>3. ASSUME NEW t \in Thread, EmulatedSend(t)
        PROVE IndInv'
    <3>1. PICK bytes \in Accepted(socket[t], Current(t)) :
            Takes(t, Seen(WithNameLength(Current(t))), bytes)
      BY <2>3 DEF EmulatedSend
    <3>2. i[t] < length[t] /\ pc[t] = "emulated" /\ UNCHANGED pc
      BY <2>3 DEF EmulatedSend, InLoop
    <3>3. TypeOK'
      BY <2>3, <3>1, <3>2, TakesTyped, NameLengthTyped, CurrentTyped
      DEF EmulatedSend, TypeOK, Answer
    <3>4. IndexIsSent'
      <4>1. /\ Len(sent'[t]) = Len(sent[t]) + 1
            /\ \A u \in Thread \ {t} : sent'[u] = sent[u] /\ i'[u] = i[u]
            /\ i'[t] = i[t] + 1
        BY <3>1, <3>2, TakesTyped, CurrentTyped
      <4>2. UNCHANGED length
        BY <3>1 DEF Takes
      <4>3. /\ i[t] \in Nat /\ length[t] \in Nat
            /\ i[t] = Len(sent[t])
        BY <3>2 DEF TypeOK, IndexIsSent
      <4> QED BY <3>2, <4>1, <4>2, <4>3 DEF IndexIsSent
    <3> QED BY <3>3, <3>4
  <2>4. ASSUME NEW t \in Thread, NativeSend(t)
        PROVE IndInv'
    <3>1. PICK bytes \in Accepted(socket[t], Current(t)) :
            /\ Takes(t, Seen(Current(t)), bytes)
            /\ pc' = [pc EXCEPT ![t] =
                        IF bytes < Current(t).bytes
                        THEN "nativeStops" ELSE "native"]
      BY <2>4 DEF NativeSend
    <3>2. i[t] < length[t] /\ pc[t] = "native" /\ UNCHANGED parts
      BY <2>4 DEF NativeSend
    <3>3. pc' \in [Thread -> {"idle", "emulated", "native", "nativeStops"}]
      BY <3>1 DEF TypeOK
    <3>4. TypeOK'
      BY <3>1, <3>2, <3>3, TakesTyped, CurrentTyped DEF TypeOK, Answer
    <3>5. IndexIsSent'
      <4>1. /\ Len(sent'[t]) = Len(sent[t]) + 1
            /\ \A u \in Thread \ {t} : sent'[u] = sent[u] /\ i'[u] = i[u]
            /\ i'[t] = i[t] + 1
        BY <3>1, <3>2, TakesTyped, CurrentTyped
      <4>2. UNCHANGED length
        BY <3>1 DEF Takes
      <4>3. \A u \in Thread \ {t} : pc'[u] = pc[u]
        BY <3>1 DEF TypeOK
      <4>4. /\ i[t] \in Nat /\ length[t] \in Nat
            /\ i[t] = Len(sent[t])
        BY <3>2 DEF TypeOK, IndexIsSent
      <4> QED BY <3>2, <4>1, <4>2, <4>3, <4>4 DEF IndexIsSent
    <3> QED BY <3>4, <3>5
  <2>5. ASSUME NEW t \in Thread, NEW result \in -1..MaxLength,
               NEW error \in Error \cup {NoError}, Answers(t, result, error),
               parts' \in [Thread -> [1..MaxLength -> Part]]
        PROVE IndInv'
    <3>1. TypeOK'
      BY <2>5, AnswersTyped DEF TypeOK, Answer
    <3>2. IndexIsSent'
      BY <2>5 DEF Answers, TypeOK, IndexIsSent
    <3> QED BY <3>1, <3>2
  <2>6. ASSUME NEW t \in Thread, EmulatedReturns(t) \/ NativeReturns(t)
        PROVE IndInv'
    <3>1. /\ length[t] \in -1..MaxLength
          /\ i[t] \in -1..MaxLength
          /\ UNCHANGED parts
      BY <2>6 DEF EmulatedReturns, NativeReturns, TypeOK
    <3> QED BY <2>5, <2>6, <3>1 DEF EmulatedReturns, NativeReturns, TypeOK
  <2>7. ASSUME NEW t \in Thread, NEW error \in Error, EmulatedFails(t, error)
        PROVE IndInv'
    <3>1. (IF i[t] = 0 THEN -1 ELSE i[t]) \in -1..MaxLength
      BY DEF TypeOK
    <3>2. parts' \in [Thread -> [1..MaxLength -> Part]]
      BY <2>7, NameLengthTyped DEF EmulatedFails, InLoop
    <3> QED BY <2>5, <2>7, <3>1, <3>2 DEF EmulatedFails
  <2>8. ASSUME NEW t \in Thread, NEW error \in Error, NativeFails(t, error)
        PROVE IndInv'
    <3>1. -1 \in -1..MaxLength
      OBVIOUS
    <3> QED BY <2>5, <2>8, <3>1 DEF NativeFails, TypeOK
  <2>9. CASE UNCHANGED vars
    <3>1. TypeOK'
      BY <2>9 DEF vars, TypeOK
    <3>2. IndexIsSent'
      BY <2>9 DEF vars, IndexIsSent
    <3> QED BY <3>1, <3>2
  <2> QED
    BY <2>1, <2>2, <2>3, <2>4, <2>6, <2>7, <2>8, <2>9 DEF Next, Step
<1> QED BY <1>1, <1>2, PTL DEF Spec

\* A thread that returns an answer ends the abstract call.
LEMMA AnswersEnds ==
  ASSUME IndInv, NEW t \in Thread, pc[t] # "idle",
         NEW result, NEW error \in Error \cup {NoError},
         Answers(t, result, error),
         i[t] = length[t] => error = NoError,
         i[t] = 0 /\ length[t] > 0 => error # NoError,
         result = IF error # NoError /\ i[t] = 0 THEN -1 ELSE i[t]
  PROVE  Batch!Next
<1>1. i[t] = Len(sent[t])
  BY DEF IndInv, IndexIsSent
<1>2. [u \in Thread |-> pc'[u] # "idle"]
      = [[u \in Thread |-> pc[u] # "idle"] EXCEPT ![t] = FALSE]
  BY DEF Answers, IndInv, TypeOK
<1>3. [u \in Thread |-> Len(sent'[u])] = [u \in Thread |-> Len(sent[u])]
  BY DEF Answers
<1>4. /\ [u \in Thread |-> pc[u] # "idle"][t]
      /\ [u \in Thread |-> Len(sent[u])][t] = i[t]
  BY <1>1
<1>5. Batch!End(t, error)
  BY <1>2, <1>3, <1>4 DEF Answers, Batch!End
<1> QED BY <1>5 DEF Batch!Next

\* The loop and sendmmsg both implement the abstract batch: what the result says
\* is what the kernel took.
THEOREM Refinement == Spec => SendsBatch
<1> USE SendAssumption
<1>1. Init => Batch!Init
  <2> SUFFICES ASSUME Init PROVE Batch!Init
    OBVIOUS
  <2>1. [t \in Thread |-> pc[t] # "idle"] = [t \in Thread |-> FALSE]
    BY DEF Init
  <2>2. [t \in Thread |-> Len(sent[t])] = [t \in Thread |-> 0]
    BY DEF Init
  <2> QED BY <2>1, <2>2 DEF Init, Batch!Init
<1>2. IndInv /\ [Next]_vars => [Batch!Next]_(Batch!vars)
  <2> SUFFICES ASSUME IndInv, [Next]_vars
               PROVE Batch!Next \/ UNCHANGED Batch!vars
    OBVIOUS
  <2> USE DEF IndInv
  <2>1. CASE Initialize
    BY <2>1 DEF Initialize, Batch!vars
  <2>2. ASSUME NEW t \in Thread, NEW s \in Socket,
               NEW array \in [1..MaxLength -> Part],
               NEW n \in 0..MaxLength, Call(t, s, array, n)
        PROVE Batch!Next
    <3>1. [u \in Thread |-> pc'[u] # "idle"]
          = [[u \in Thread |-> pc[u] # "idle"] EXCEPT ![t] = TRUE]
      BY <2>2 DEF Call, TypeOK
    <3>2. [u \in Thread |-> Len(sent'[u])]
          = [[u \in Thread |-> Len(sent[u])] EXCEPT ![t] = 0]
      BY <2>2 DEF Call, TypeOK
    <3>3. Batch!Begin(t, n)
      BY <2>2, <3>1, <3>2 DEF Call, Batch!Begin
    <3> QED BY <3>3 DEF Batch!Next
  <2>3. ASSUME NEW t \in Thread, i[t] < length[t], pc[t] # "idle",
               NEW address \in PartAddress \cup {NoAddress},
               NEW bytes \in 1..MaxBytes, Takes(t, address, bytes),
               \A u \in Thread : pc'[u] # "idle" <=> pc[u] # "idle"
        PROVE Batch!Next
    <3>1. /\ i[t] = Len(sent[t])
          /\ Len(sent'[t]) = Len(sent[t]) + 1
          /\ \A u \in Thread \ {t} : sent'[u] = sent[u]
      BY <2>3, TakesTyped DEF IndexIsSent
    <3>2. [u \in Thread |-> Len(sent'[u])]
          = [[u \in Thread |-> Len(sent[u])] EXCEPT ![t] = @ + 1]
      BY <3>1
    <3>3. [u \in Thread |-> pc'[u] # "idle"] = [u \in Thread |-> pc[u] # "idle"]
      BY <2>3
    <3>4. /\ [u \in Thread |-> pc[u] # "idle"][t]
          /\ [u \in Thread |-> Len(sent[u])][t] < length[t]
          /\ UNCHANGED <<length, answer>>
      BY <2>3, <3>1 DEF Takes
    <3>5. Batch!Move(t)
      BY <3>2, <3>3, <3>4 DEF Batch!Move
    <3> QED BY <3>5 DEF Batch!Next
  <2>4. ASSUME NEW t \in Thread, EmulatedSend(t)
        PROVE Batch!Next
    BY <2>3, <2>4, CurrentTyped DEF EmulatedSend, InLoop
  <2>5. ASSUME NEW t \in Thread, NativeSend(t)
        PROVE Batch!Next
    <3>1. \A u \in Thread : pc'[u] # "idle" <=> pc[u] # "idle"
      BY <2>5 DEF NativeSend, TypeOK
    <3> QED BY <2>3, <2>5, <3>1, CurrentTyped DEF NativeSend
  <2>6. ASSUME NEW t \in Thread, EmulatedReturns(t) \/ NativeReturns(t)
        PROVE Batch!Next
    <3>1. /\ i[t] \in Nat /\ length[t] \in Nat
          /\ pc[t] = "nativeStops" => i[t] > 0
      BY DEF TypeOK, IndexIsSent
    <3> QED BY <2>6, <3>1, AnswersEnds DEF EmulatedReturns, NativeReturns
  <2>7. ASSUME NEW t \in Thread, NEW error \in Error,
               EmulatedFails(t, error) \/ NativeFails(t, error)
        PROVE Batch!Next
    <3>1. i[t] \in Nat /\ length[t] \in Nat
      BY DEF TypeOK
    <3> QED BY <2>7, <3>1, AnswersEnds DEF EmulatedFails, InLoop, NativeFails
  <2>8. CASE UNCHANGED vars
    BY <2>8 DEF vars, Batch!vars
  <2> QED
    BY <2>1, <2>2, <2>4, <2>5, <2>6, <2>7, <2>8 DEF Next, Step
<1> QED BY <1>1, <1>2, Inductive, PTL DEF Spec, SendsBatch, Batch!Spec

\* The emulation sends each message of a batch to its own address.
THEOREM EmulatedToAddress == Spec => []EmulationAddresses
<1> USE SendAssumption
<1>1. Init => EmulationAddresses
  BY DEF Init, EmulationAddresses
<1>2. IndInv /\ EmulationAddresses /\ [Next]_vars => EmulationAddresses'
  <2> SUFFICES ASSUME IndInv, EmulationAddresses, [Next]_vars
               PROVE EmulationAddresses'
    OBVIOUS
  <2> USE DEF IndInv
  <2>1. ASSUME UNCHANGED <<pc, socket, parts, sent>>
        PROVE EmulationAddresses'
    BY <2>1 DEF EmulationAddresses, SentToAddress
  <2>2. ASSUME NEW t \in Thread, NEW s \in Socket,
               NEW array \in [1..MaxLength -> Part],
               NEW n \in 0..MaxLength, Call(t, s, array, n)
        PROVE EmulationAddresses'
    <3>1. Len(sent'[t]) = 0
      BY <2>2 DEF Call, TypeOK
    <3>2. \A u \in Thread \ {t} :
            /\ sent'[u] = sent[u] /\ parts'[u] = parts[u]
            /\ pc'[u] = pc[u] /\ socket'[u] = socket[u]
      BY <2>2 DEF Call, TypeOK
    <3> QED BY <3>1, <3>2 DEF EmulationAddresses, SentToAddress
  <2>3. ASSUME NEW t \in Thread, EmulatedSend(t)
        PROVE EmulationAddresses'
    <3>1. PICK bytes \in Accepted(socket[t], Current(t)) :
            Takes(t, Current(t).address, bytes)
      BY <2>3, CurrentTyped DEF EmulatedSend, InLoop
    <3>2. /\ i[t] < length[t] /\ SetsNameLength(t)
          /\ i[t] = Len(sent[t])
          /\ pc[t] = "emulated"
          /\ UNCHANGED <<pc, socket>>
      BY <2>3, <3>1 DEF EmulatedSend, InLoop, IndexIsSent, Takes
    <3>3. /\ sent'[t] = Append(sent[t],
                          [to |-> Destination(socket[t], Current(t).address),
                           bytes |-> bytes])
          /\ \A u \in Thread \ {t} : sent'[u] = sent[u]
      BY <3>1, <3>2, TakesTyped, CurrentTyped
    <3>4. \A u \in Thread, k \in 1..MaxLength :
            parts'[u][k].address = parts[u][k].address
      BY <3>2, NameLengthTyped
    <3> SUFFICES ASSUME NEW u \in Thread, pc[u] = "emulated",
                        ~ socket[u].stream, NEW k \in 1..Len(sent'[u]),
                        parts'[u][k].address # NoAddress
                 PROVE  sent'[u][k].to = parts'[u][k].address
      BY <3>2 DEF EmulationAddresses, SentToAddress
    <3>6. CASE u = t /\ k = i[t] + 1
      <4>1. sent'[u][k].to = Destination(socket[t], Current(t).address)
        BY <3>2, <3>3, <3>6 DEF TypeOK
      <4>2. parts'[u][k].address = Current(t).address
        <5>1. i[t] + 1 \in 1..MaxLength
          BY <3>2 DEF TypeOK
        <5> QED BY <3>4, <3>6, <5>1 DEF Current
      <4> QED BY <3>6, <4>1, <4>2 DEF Destination
    <3>7. CASE ~ (u = t /\ k = i[t] + 1)
      <4>1. k \in 1..Len(sent[u]) /\ sent'[u][k] = sent[u][k]
        <5>1. CASE u # t
          BY <3>3, <5>1
        <5>2. CASE u = t
          <6>1. sent[t] \in Seq([to : Address \cup {NoAddress}, bytes : 1..MaxBytes])
            BY DEF TypeOK
          <6>2. k # Len(sent[t]) + 1
            BY <3>2, <3>7, <5>2
          <6> QED BY <3>3, <5>2, <6>1, <6>2
        <5> QED BY <5>1, <5>2
      <4>2. k \in 1..MaxLength
        <5>1. Len(sent[u]) <= length[u] /\ length[u] \in 0..MaxLength
          BY DEF IndexIsSent, TypeOK
        <5> QED BY <4>1, <5>1
      <4>3. parts[u][k].address # NoAddress
        BY <3>4, <4>2
      <4> QED BY <3>4, <4>1, <4>2, <4>3 DEF EmulationAddresses, SentToAddress
    <3> QED BY <3>6, <3>7
  <2>4. ASSUME NEW t \in Thread, pc'[t] # "emulated",
               \A u \in Thread \ {t} :
                 /\ pc'[u] = pc[u] /\ socket'[u] = socket[u]
                 /\ parts'[u] = parts[u] /\ sent'[u] = sent[u]
        PROVE EmulationAddresses'
    BY <2>4 DEF EmulationAddresses, SentToAddress
  <2>5. ASSUME NEW t \in Thread, NEW result, NEW error,
               Answers(t, result, error)
        PROVE  /\ pc'[t] = "idle"
               /\ \A u \in Thread \ {t} : pc'[u] = pc[u]
               /\ UNCHANGED <<socket, sent>>
    BY <2>5 DEF Answers, TypeOK
  <2>6. ASSUME NEW t \in Thread, EmulatedReturns(t) \/ NativeReturns(t)
        PROVE EmulationAddresses'
    BY <2>4, <2>5, <2>6 DEF EmulatedReturns, NativeReturns
  <2>7. ASSUME NEW t \in Thread, NEW error \in Error,
               EmulatedFails(t, error) \/ NativeFails(t, error)
        PROVE EmulationAddresses'
    <3>1. \A u \in Thread \ {t} : parts'[u] = parts[u]
      BY <2>7 DEF EmulatedFails, NativeFails, SetsNameLength, TypeOK
    <3> QED BY <2>4, <2>5, <2>7, <3>1 DEF EmulatedFails, NativeFails
  <2>8. ASSUME NEW t \in Thread, NativeSend(t)
        PROVE EmulationAddresses'
    <3>1. /\ pc'[t] # "emulated"
          /\ \A u \in Thread \ {t} : pc'[u] = pc[u]
      BY <2>8 DEF NativeSend, TypeOK
    <3>2. /\ \A u \in Thread \ {t} : sent'[u] = sent[u]
          /\ UNCHANGED <<socket, parts>>
      BY <2>8 DEF NativeSend, Takes, TypeOK
    <3> QED BY <2>4, <3>1, <3>2
  <2>9. CASE Initialize \/ UNCHANGED vars
    BY <2>1, <2>9 DEF Initialize, vars
  <2> QED
    BY <2>2, <2>3, <2>6, <2>7, <2>8, <2>9 DEF Next, Step
<1> QED BY <1>1, <1>2, Inductive, PTL DEF Spec
=============================================================================
