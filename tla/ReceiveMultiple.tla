-------------------------- MODULE ReceiveMultiple --------------------------
(***************************************************************************)
(* IPSocket::ReceiveMultiple (src/smbb/IPSocket.h, lines 1157-1204), POSIX:*)
(* recvmmsg where Initialize() has found it, otherwise a loop over         *)
(* Receive(), on a datagram socket that several threads read.              *)
(*                                                                         *)
(* A step is the receiving of one message, so the calls of the threads     *)
(* interleave between two messages of a batch.  The flags are left out:    *)
(* they go to the kernel, where they decide when a call waits and when it  *)
(* fails instead; RECEIVE_PEEK, which consumes nothing, is not modelled.   *)
(***************************************************************************)
EXTENDS Integers, Sequences

CONSTANTS
  Thread,       \* the threads that receive on the socket
  MaxLength,    \* the longest batch: bounds the runs
  MaxArrivals,  \* how many messages arrive: bounds the runs
  PartAddress,  \* subset of BOOLEAN: whether callers put an address in a
                \* MultiMessagePart, to be told the source
  HasRecvMMsg,  \* the platform has recvmmsg
  Error, NoError

ASSUME ReceiveAssumption ==
  /\ MaxLength \in Nat
  /\ MaxArrivals \in Nat
  /\ PartAddress \subseteq BOOLEAN
  /\ HasRecvMMsg \in BOOLEAN
  /\ NoError \notin Error

\* A MultiMessagePart: whether its constructor was given an address, and whether
\* msg_namelen is not 0.  The constructor leaves msg_namelen 0, but the caller
\* may have used the part in a call before.
Part == {p \in [address : PartAddress, named : BOOLEAN] : p.named => p.address}

\* Messages are numbered in the order in which they arrive.
Message == 1..MaxArrivals

VARIABLES
  recvMMsg,     \* GetRecvMMsg() is set
  incoming,     \* kernel: the messages that wait in the socket
  arrived,      \* kernel: how many have arrived
  pc,           \* "idle", in the loop over Receive(), or in recvmmsg
  parts,        \* the array that a call is given
  length,       \* its length
  i,            \* the loop variable, here or in the kernel
  got,          \* kernel: what it put in the parts, and whether it wrote the
                \* source to the address
  answer,       \* the MessageResult that the last call returned
  consumed      \* history: the messages that a result has told a caller of

callVars == <<pc, parts, length, i, got, answer>>
vars == <<recvMMsg, incoming, arrived, callVars, consumed>>

TypeOK ==
  /\ recvMMsg \in BOOLEAN
  /\ incoming \in Seq(Message)
  /\ arrived \in 0..MaxArrivals
  /\ pc \in [Thread -> {"idle", "emulated", "native"}]
  /\ parts \in [Thread -> [1..MaxLength -> Part]]
  /\ length \in [Thread -> 0..MaxLength]
  /\ i \in [Thread -> 0..MaxLength]
  /\ got \in [Thread -> Seq([message : Message, source : BOOLEAN])]
  /\ answer \in [Thread -> [result : -1..MaxLength, error : Error \cup {NoError}]]
  /\ consumed \in SUBSET Message

Init ==
  /\ recvMMsg = FALSE
  /\ incoming = <<>>
  /\ arrived = 0
  /\ pc = [t \in Thread |-> "idle"]
  /\ parts \in [Thread -> {[k \in 1..MaxLength |-> p] : p \in Part}]
  /\ length = [t \in Thread |-> 0]
  /\ i = [t \in Thread |-> 0]
  /\ got = [t \in Thread |-> <<>>]
  /\ answer = [t \in Thread |-> [result |-> 0, error |-> NoError]]
  /\ consumed = {}

Initialize ==
  /\ recvMMsg' = HasRecvMMsg
  /\ UNCHANGED <<incoming, arrived, callVars, consumed>>

Arrives ==
  /\ arrived < MaxArrivals
  /\ arrived' = arrived + 1
  /\ incoming' = Append(incoming, arrived + 1)
  /\ UNCHANGED <<recvMMsg, callVars, consumed>>

Call(t, array, n) ==
  /\ pc[t] = "idle"
  /\ pc' = [pc EXCEPT ![t] = IF recvMMsg THEN "native" ELSE "emulated"]
  /\ parts' = [parts EXCEPT ![t] = array]
  /\ length' = [length EXCEPT ![t] = n]
  /\ i' = [i EXCEPT ![t] = 0]
  /\ got' = [got EXCEPT ![t] = <<>>]
  /\ UNCHANGED <<recvMMsg, incoming, arrived, answer, consumed>>

\* The caller looks at as many parts as the result says.
Told(t, result) == {got[t][k].message : k \in 1..result}

Answers(t, result, error) ==
  /\ answer' = [answer EXCEPT ![t] = [result |-> result, error |-> error]]
  /\ consumed' = consumed \cup Told(t, result)
  /\ pc' = [pc EXCEPT ![t] = "idle"]
  /\ UNCHANGED <<recvMMsg, incoming, arrived, length, i, got>>

\* Receive() sets msg_namelen before the call, and recvmsg and recvmmsg set it to
\* the length of the source when they give a message.
SetsNameLength(t) ==
  parts' = [parts EXCEPT ![t][i[t] + 1].named = parts[t][i[t] + 1].address]

\* The kernel gives the oldest message to the next part of thread t.
Gives(t, source) ==
  /\ incoming # <<>>
  /\ got' = [got EXCEPT ![t] =
               Append(@, [message |-> Head(incoming), source |-> source])]
  /\ incoming' = Tail(incoming)
  /\ i' = [i EXCEPT ![t] = @ + 1]
  /\ SetsNameLength(t)
  /\ UNCHANGED <<recvMMsg, arrived, pc, length, answer, consumed>>

-----------------------------------------------------------------------------
\* The loop.

InLoop(t) == pc[t] = "emulated" /\ i[t] < length[t]

\* Receive() has set msg_namelen, so the kernel writes the source.
EmulatedReceive(t) == InLoop(t) /\ Gives(t, parts[t][i[t] + 1].address)

\* Mutant: no failure of the first message has a result of its own.
EmulatedFails_NotNegative(t, error) ==
  /\ InLoop(t)
  /\ SetsNameLength(t)
  /\ Answers(t, i[t], error)

\* Mutant: an error makes the whole batch fail.
EmulatedFails_Whole(t, error) ==
  /\ InLoop(t)
  /\ SetsNameLength(t)
  /\ Answers(t, -1, error)

\* Receive() of one message fails: nothing is there, a signal interrupts it, or
\* the socket has an error of its own.
EmulatedFails(t, error) ==
  /\ InLoop(t)
  /\ SetsNameLength(t)
  /\ Answers(t, IF i[t] = 0 THEN -1 ELSE i[t], error)

EmulatedReturns(t) ==
  /\ pc[t] = "emulated"
  /\ i[t] = length[t]
  /\ Answers(t, length[t], NoError)
  /\ UNCHANGED parts

-----------------------------------------------------------------------------
\* recvmmsg.

\* Where msg_namelen is 0, as the constructor left it, no source is written.
NativeReceive(t) ==
  /\ pc[t] = "native"
  /\ i[t] < length[t]
  /\ Gives(t, parts[t][i[t] + 1].named)

\* Mutant: the result is the length of the batch, as it is after the loop.
NativeReturns_Length(t) ==
  /\ pc[t] = "native"
  /\ i[t] > 0 \/ length[t] = 0
  /\ Answers(t, length[t], NoError)
  /\ UNCHANGED parts

\* recvmmsg returns when the batch is full, or on an error, which is lost if
\* it has received something.
NativeReturns(t) ==
  /\ pc[t] = "native"
  /\ i[t] > 0 \/ length[t] = 0
  /\ Answers(t, i[t], NoError)
  /\ UNCHANGED parts

NativeFails(t, error) ==
  /\ pc[t] = "native"
  /\ i[t] = 0
  /\ length[t] > 0
  /\ Answers(t, -1, error)
  /\ UNCHANGED parts

Next ==
  \/ Initialize
  \/ Arrives
  \/ \E t \in Thread :
       \/ \E array \in [1..MaxLength -> Part], n \in 0..MaxLength :
            Call(t, array, n)
       \/ EmulatedReceive(t) \/ EmulatedReturns(t)
       \/ NativeReceive(t) \/ NativeReturns(t)
       \/ \E error \in Error : EmulatedFails(t, error) \/ NativeFails(t, error)

Spec == Init /\ [][Next]_vars

-----------------------------------------------------------------------------
\* Properties.

Batch == INSTANCE MessageBatch WITH
  running <- [t \in Thread |-> pc[t] # "idle"],
  moved <- [t \in Thread |-> Len(got[t])]

\* Both implementations keep the promise of a batch: the result counts the parts
\* that the kernel has filled, also when an error ends the loop half-way.
ReceivesBatch == Batch!Spec

\* The messages that thread t has been given and not been told of.
Held(t) ==
  IF pc[t] = "idle" THEN {} ELSE {got[t][k].message : k \in 1..Len(got[t])}

Waiting == {incoming[k] : k \in 1..Len(incoming)}

\* However the calls of the threads interleave and fail, no message is lost and
\* none is received twice: each that has arrived is in exactly one of the socket,
\* the parts of one running call, and the results that were returned.
ReceivedOnce ==
  /\ 1..arrived = Waiting \cup consumed \cup UNION {Held(t) : t \in Thread}
  /\ Waiting \cap consumed = {}
  /\ \A t \in Thread :
       /\ Held(t) \cap (Waiting \cup consumed) = {}
       /\ \A u \in Thread \ {t} : Held(t) \cap Held(u) = {}

\* What they rest on: the index of the loop, in the library or in the kernel, is
\* the number of parts that were filled.
IndexIsGot ==
  \A t \in Thread :
    /\ Len(got[t]) <= length[t]
    /\ pc[t] # "idle" => i[t] = Len(got[t])

\* The messages of the socket, and those of each call, differ from each other.
AllDiffer ==
  /\ \A j, k \in 1..Len(incoming) : j # k => incoming[j] # incoming[k]
  /\ \A t \in Thread : \A j, k \in 1..Len(got[t]) :
       j # k => got[t][j].message # got[t][k].message

IndInv == TypeOK /\ IndexIsGot /\ AllDiffer /\ ReceivedOnce
=============================================================================
