---------------------------- MODULE SendMultiple ----------------------------
(***************************************************************************)
(* IPSocket::SendMultiple (src/smbb/IPSocket.h, lines 1216-1249), POSIX:   *)
(* sendmmsg where Initialize() has found it, otherwise a loop over Send(). *)
(*                                                                         *)
(* A step is the sending of one message.  A socket is a datagram socket,   *)
(* connected or not, or a connected stream; a stream may take a part of a  *)
(* message only.                                                           *)
(***************************************************************************)
EXTENDS Integers, Sequences

CONSTANTS
  Thread,       \* the threads that send
  MaxLength,    \* the longest batch: bounds the runs
  MaxBytes,     \* the longest message
  Address,      \* addresses
  PartAddress,  \* the addresses that callers put in a MultiMessagePart
  NoAddress,    \* a NULL address, the peer of an unconnected socket
  Socket,       \* the sockets they send on
  HasSendMMsg,  \* the platform has sendmmsg
  Error, NoError

ASSUME SendAssumption ==
  /\ MaxLength \in Nat
  /\ MaxBytes \in Nat \ {0}
  /\ NoAddress \notin Address
  /\ PartAddress \subseteq Address \cup {NoAddress}
  /\ Socket \subseteq [stream : BOOLEAN, peer : Address \cup {NoAddress}]
  /\ Socket # {}
  /\ HasSendMMsg \in BOOLEAN
  /\ NoError \notin Error

\* A MultiMessagePart: the address given to its constructor, whether msg_namelen
\* is not 0, and the length of its buffers together.  The constructor leaves
\* msg_namelen 0, but the caller may have used the part in a call before.
Part ==
  {p \in [address : PartAddress, named : BOOLEAN, bytes : 1..MaxBytes] :
     p.named => p.address # NoAddress}

VARIABLES
  sendMMsg,     \* GetSendMMsg() is set
  pc,           \* "idle", in the loop over Send(), in sendmmsg, or at the end
                \* of sendmmsg
  socket,       \* the socket that a call is for
  parts,        \* the array that it is given
  length,       \* its length
  i,            \* the loop variable, here or in the kernel
  sent,         \* kernel: what it took from the call of each thread
  answer        \* the MessageResult that the last call returned

vars == <<sendMMsg, pc, socket, parts, length, i, sent, answer>>

TypeOK ==
  /\ sendMMsg \in BOOLEAN
  /\ pc \in [Thread -> {"idle", "emulated", "native", "nativeStops"}]
  /\ socket \in [Thread -> Socket]
  /\ parts \in [Thread -> [1..MaxLength -> Part]]
  /\ length \in [Thread -> 0..MaxLength]
  /\ i \in [Thread -> 0..MaxLength]
  /\ sent \in [Thread -> Seq([to : Address \cup {NoAddress}, bytes : 1..MaxBytes])]
  /\ answer \in [Thread -> [result : -1..MaxLength, error : Error \cup {NoError}]]

Init ==
  /\ sendMMsg = FALSE
  /\ pc = [t \in Thread |-> "idle"]
  /\ socket = [t \in Thread |-> CHOOSE s \in Socket : TRUE]
  /\ parts \in [Thread -> {[k \in 1..MaxLength |-> p] : p \in Part}]
  /\ length = [t \in Thread |-> 0]
  /\ i = [t \in Thread |-> 0]
  /\ sent = [t \in Thread |-> <<>>]
  /\ answer = [t \in Thread |-> [result |-> 0, error |-> NoError]]

\* Initialize() may run when other threads are sending already.
Initialize ==
  /\ sendMMsg' = HasSendMMsg
  /\ UNCHANGED <<pc, socket, parts, length, i, sent, answer>>

Call(t, s, array, n) ==
  /\ pc[t] = "idle"
  /\ pc' = [pc EXCEPT ![t] = IF sendMMsg THEN "native" ELSE "emulated"]
  /\ socket' = [socket EXCEPT ![t] = s]
  /\ parts' = [parts EXCEPT ![t] = array]
  /\ length' = [length EXCEPT ![t] = n]
  /\ i' = [i EXCEPT ![t] = 0]
  /\ sent' = [sent EXCEPT ![t] = <<>>]
  /\ UNCHANGED <<sendMMsg, answer>>

Answers(t, result, error) ==
  /\ answer' = [answer EXCEPT ![t] = [result |-> result, error |-> error]]
  /\ pc' = [pc EXCEPT ![t] = "idle"]
  /\ UNCHANGED <<sendMMsg, socket, length, i, sent>>

-----------------------------------------------------------------------------
\* The kernel's side of sending one message.

\* The part of thread t that is next.
Current(t) == parts[t][i[t] + 1]

\* Where a message goes that has this address, or NoAddress with msg_namelen 0.
Destination(s, address) ==
  IF s.stream \/ address = NoAddress THEN s.peer ELSE address

\* How much of a message a socket may take at once.
Accepted(s, part) == IF s.stream THEN 1..part.bytes ELSE {part.bytes}

\* The address that the kernel sees of a part.
Seen(part) == IF part.named THEN part.address ELSE NoAddress

\* A message without destination is refused.
Takes(t, address, bytes) ==
  /\ Destination(socket[t], address) # NoAddress
  /\ sent' = [sent EXCEPT ![t] =
                Append(@, [to |-> Destination(socket[t], address),
                           bytes |-> bytes])]
  /\ i' = [i EXCEPT ![t] = @ + 1]
  /\ UNCHANGED <<sendMMsg, socket, length, answer>>

-----------------------------------------------------------------------------
\* The loop.

InLoop(t) == pc[t] = "emulated" /\ i[t] < length[t]

\* Mutant: Send() leaves msg_namelen as it is.
WithNameLength_Kept(part) == part

\* Send() sets msg_namelen, of the array that the caller gave.
WithNameLength(part) == [part EXCEPT !.named = part.address # NoAddress]

SetsNameLength(t) ==
  parts' = [parts EXCEPT ![t][i[t] + 1] = WithNameLength(Current(t))]

\* Mutant: the loop tries the same message again after an error.
EmulatedFails_Retries(t, error) ==
  /\ InLoop(t)
  /\ SetsNameLength(t)
  /\ UNCHANGED <<sendMMsg, pc, socket, length, i, sent, answer>>

\* Mutant: the loop goes on to the next message after an error.
EmulatedFails_Skips(t, error) ==
  /\ InLoop(t)
  /\ SetsNameLength(t)
  /\ i' = [i EXCEPT ![t] = @ + 1]
  /\ UNCHANGED <<sendMMsg, pc, socket, length, sent, answer>>

\* Send() of one message fails.
EmulatedFails(t, error) ==
  /\ InLoop(t)
  /\ SetsNameLength(t)
  /\ Answers(t, IF i[t] = 0 THEN -1 ELSE i[t], error)

\* The loop does not look at how much of the message was taken.
EmulatedSend(t) ==
  /\ InLoop(t)
  /\ SetsNameLength(t)
  /\ \E bytes \in Accepted(socket[t], Current(t)) :
       Takes(t, Seen(WithNameLength(Current(t))), bytes)
  /\ UNCHANGED pc

EmulatedReturns(t) ==
  /\ pc[t] = "emulated"
  /\ i[t] = length[t]
  /\ Answers(t, length[t], NoError)
  /\ UNCHANGED parts

-----------------------------------------------------------------------------
\* sendmmsg.

\* Nothing sets msg_namelen, so the kernel sees the address of a part only if an
\* earlier call has.  It stops after a message that it took in part.
NativeSend(t) ==
  /\ pc[t] = "native"
  /\ i[t] < length[t]
  /\ \E bytes \in Accepted(socket[t], Current(t)) :
       /\ Takes(t, Seen(Current(t)), bytes)
       /\ pc' = [pc EXCEPT ![t] =
                   IF bytes < Current(t).bytes THEN "nativeStops" ELSE "native"]
  /\ UNCHANGED parts

\* Mutant: the result is the length of the batch.
NativeReturns_Length(t) ==
  /\ \/ pc[t] = "native" /\ (i[t] > 0 \/ length[t] = 0)
     \/ pc[t] = "nativeStops"
  /\ Answers(t, length[t], NoError)
  /\ UNCHANGED parts

\* The error that stopped sendmmsg is lost when it has sent something.
NativeReturns(t) ==
  /\ \/ pc[t] = "native" /\ (i[t] > 0 \/ length[t] = 0)
     \/ pc[t] = "nativeStops"
  /\ Answers(t, i[t], NoError)
  /\ UNCHANGED parts

NativeFails(t, error) ==
  /\ pc[t] = "native"
  /\ i[t] = 0
  /\ length[t] > 0
  /\ Answers(t, -1, error)
  /\ UNCHANGED parts

\* The next step of a call that runs.
Step(t) ==
  \/ EmulatedSend(t) \/ EmulatedReturns(t)
  \/ NativeSend(t) \/ NativeReturns(t)
  \/ \E error \in Error : EmulatedFails(t, error) \/ NativeFails(t, error)

Next ==
  \/ Initialize
  \/ \E t \in Thread :
       \/ \E s \in Socket, array \in [1..MaxLength -> Part],
            n \in 0..MaxLength : Call(t, s, array, n)
       \/ Step(t)

Spec == Init /\ [][Next]_vars

\* The kernel answers each send, if only that it cannot.
FairSpec == Spec /\ \A t \in Thread : WF_vars(Step(t))

-----------------------------------------------------------------------------
\* Properties.

Batch == INSTANCE MessageBatch WITH
  running <- [t \in Thread |-> pc[t] # "idle"],
  moved <- [t \in Thread |-> Len(sent[t])]

\* Both implementations keep the promise of a batch: the result counts what the
\* kernel took, is negative only if it took nothing, and comes without an error
\* only if everything was taken or the error came too late to be told.
SendsBatch == Batch!Spec

\* Every call returns, also with a message that can never be sent, since there is no
\* destination for it.
CallsReturn == \A t \in Thread : pc[t] # "idle" ~> pc[t] = "idle"

\* What SendsBatch rests on: the index of the loop, in the library or in the
\* kernel, is the number of messages sent, and sendmmsg stops early only after one.
IndexIsSent ==
  \A t \in Thread :
    /\ Len(sent[t]) <= length[t]
    /\ pc[t] # "idle" => i[t] = Len(sent[t])
    /\ pc[t] = "nativeStops" => i[t] > 0

IndInv == TypeOK /\ IndexIsSent

\* Every message that the call of thread t has sent went to its own address.
SentToAddress(t) ==
  ~ socket[t].stream =>
    \A k \in 1..Len(sent[t]) :
      parts[t][k].address # NoAddress => sent[t][k].to = parts[t][k].address

\* The emulation sends each message of a batch to its own address, also when
\* Initialize() finds sendmmsg meanwhile.
EmulationAddresses == \A t \in Thread : pc[t] = "emulated" => SentToAddress(t)

\* "Send data to the specific address" (IPSocket.h:1217) holds for each message
\* of a batch on a datagram socket.
ToItsAddress == \A t \in Thread : SentToAddress(t)
=============================================================================
