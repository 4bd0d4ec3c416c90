----------------------------- MODULE SelectSets -----------------------------
(***************************************************************************)
(* The POSIX build of IPSocket::SelectSets (src/smbb/IPSocket.h, lines     *)
(* 282-415), with IPSocket::Connect, GetError and the state of the TCP     *)
(* sockets that the sets watch.                                            *)
(*                                                                         *)
(* One thread fills one SelectSets object, waits on it and tests sockets   *)
(* against it, in any order.  The network and the peers change the sockets *)
(* between any two of its calls.  A socket is its handle, a small integer. *)
(***************************************************************************)
EXTENDS Integers, FiniteSets

CONSTANTS
  Socket,       \* the handles of the open sockets
  FdSetSize     \* FD_SETSIZE: the handles that fit in a fd_set are smaller

ASSUME SelectAssumption ==
  /\ Socket \subseteq Nat
  /\ FdSetSize \in Nat \ {0}

READ == "SELECT_CAN_READ"            \* also SELECT_CAN_ACCEPT
WRITE == "SELECT_CAN_WRITE"          \* also SELECT_IS_CONNECTED
FAILED == "SELECT_CONNECT_FAILED"

\* SELECT_CHECK_ALL.  A SelectValue is a subset of its flags.
CheckAll == {READ, WRITE, FAILED}

\* All the bits of the enumeration's integer, for the complements of flags.
Bits == CheckAll \cup {"the other bits"}

\* The flags that Wait() serves with the write set.
WriteFlags == {WRITE, FAILED}

VARIABLES
  conn,         \* kernel: the TCP state of each socket
  soError,      \* kernel: SO_ERROR of each socket is not 0
  readable,     \* kernel: there is data, or a connection to accept
  readSet,      \* _readSet
  writeSet,     \* _writeSet
  max,          \* _max
  checks,       \* _checks
  answered,     \* history: the sockets that the last Wait() answered for (those
                \* that fit in a fd_set), and that the caller has done nothing
                \* with since
  returned      \* the call that has just returned to the caller, with its
                \* arguments and its result

kernelVars == <<conn, soError, readable>>
setVars == <<readSet, writeSet, max, checks>>
vars == <<kernelVars, setVars, answered, returned>>

\* A connection is "established" by the network and "connected" once connect()
\* has told the caller.  One that is over is "refused" if that came before
\* connect() had told of success, and "reset" if it came after.
ConnState == {"new", "listening", "connecting", "established", "connected",
              "refused", "reset"}

Over == {"refused", "reset"}

ConnectResult == {"CONNECT_FAILED", "CONNECT_SUCCESS", "CONNECT_PENDING"}

Nothing == [call |-> "none"]

Return ==
  {Nothing}
  \cup [call : {"Connect"}, socket : Socket, result : ConnectResult]
  \cup [call : {"Wait"}, result : {"ready", "timeout", "error"}]
  \cup [call : {"TestSocket"}, socket : Socket, asked : SUBSET CheckAll,
        result : SUBSET CheckAll]

TypeOK ==
  /\ conn \in [Socket -> ConnState]
  /\ soError \in [Socket -> BOOLEAN]
  /\ readable \in [Socket -> BOOLEAN]
  /\ readSet \in SUBSET Socket
  /\ writeSet \in SUBSET Socket
  /\ max \in Nat
  /\ checks \in SUBSET CheckAll
  /\ answered \in SUBSET Socket
  /\ returned \in Return

Init ==
  /\ conn = [s \in Socket |-> "new"]
  /\ soError = [s \in Socket |-> FALSE]
  /\ readable = [s \in Socket |-> FALSE]
  /\ readSet = {}
  /\ writeSet = {}
  /\ max = 0
  /\ checks = {}
  /\ answered = {}
  /\ returned = Nothing

-----------------------------------------------------------------------------
\* The kernel's side: what the network does, and what select() looks at.

\* A socket that is not connected and not on its way there polls as hung up.
ReadReady(s) == readable[s] \/ conn[s] \in {"new"} \cup Over
WriteReady(s) == conn[s] \notin {"connecting", "listening"}

Changes(s, state) == conn' = [conn EXCEPT ![s] = state]

Established(s) ==
  /\ conn[s] = "connecting"
  /\ Changes(s, "established")
  /\ returned' = Nothing
  /\ UNCHANGED <<soError, readable, setVars, answered>>

\* The peer refuses the connection, or resets it later and what was not read
\* is lost.
Refused(s) ==
  /\ \/ conn[s] \in {"connecting", "established"} /\ Changes(s, "refused")
     \/ conn[s] = "connected" /\ Changes(s, "reset")
  /\ soError' = [soError EXCEPT ![s] = TRUE]
  /\ readable' = [readable EXCEPT ![s] = FALSE]
  /\ returned' = Nothing
  /\ UNCHANGED <<setVars, answered>>

Arrives(s) ==
  /\ conn[s] \in {"established", "connected", "listening"}
  /\ readable' = [readable EXCEPT ![s] = TRUE]
  /\ returned' = Nothing
  /\ UNCHANGED <<conn, soError, setVars, answered>>

-----------------------------------------------------------------------------
\* Calls on a socket.

Listen(s) ==
  /\ conn[s] = "new"
  /\ Changes(s, "listening")
  /\ answered' = answered \ {s}
  /\ returned' = Nothing
  /\ UNCHANGED <<soError, readable, setVars>>

\* Receive() or Accept() takes what there is.
Take(s) ==
  /\ readable[s]
  /\ readable' = [readable EXCEPT ![s] = FALSE]
  /\ answered' = answered \ {s}
  /\ returned' = Nothing
  /\ UNCHANGED <<conn, soError, setVars>>

\* The TCP states that connect(2) on a nonblocking socket in the given state
\* may leave, each with the errno it then reports.  A kernel may go on telling
\* of a connection that it told of before, although it was reset (Linux does).
Attempt == {<<"connecting", "EINPROGRESS">>, <<"connected", "OK">>,
            <<"new", "ECONNREFUSED">>}

ConnectOutcome(state, error) ==
  CASE state = "connecting"  -> {<<"connecting", "EALREADY">>}
    [] state = "established" -> {<<"connected", "OK">>, <<"connected", "EISCONN">>}
    [] state = "connected"   -> {<<"connected", "EISCONN">>}
    [] state = "reset"       -> {<<"reset", "EISCONN">>}
                                \cup (IF error THEN {<<"new", "ECONNREFUSED">>}
                                               ELSE Attempt)
    [] state = "refused" /\ error -> {<<"new", "ECONNREFUSED">>}
    [] OTHER -> Attempt

\* Mutant: a connection that is under way already is an error.
ConnectAnswer_NotAlready(errno) ==
  CASE errno \in {"OK", "EISCONN"} -> "CONNECT_SUCCESS"
    [] errno = "EINPROGRESS" -> "CONNECT_PENDING"
    [] OTHER -> "CONNECT_FAILED"

ConnectAnswer(errno) ==
  CASE errno \in {"OK", "EISCONN"} -> "CONNECT_SUCCESS"
    [] errno \in {"EALREADY", "EINPROGRESS"} -> "CONNECT_PENDING"
    [] OTHER -> "CONNECT_FAILED"

Connect(s) ==
  /\ conn[s] # "listening"
  /\ \E outcome \in ConnectOutcome(conn[s], soError[s]) :
       /\ Changes(s, outcome[1])
       /\ returned' = [call |-> "Connect", socket |-> s,
                       result |-> ConnectAnswer(outcome[2])]
       /\ soError' = [soError EXCEPT ![s] = @ /\ outcome[1] = "reset"]
  /\ answered' = answered \ {s}
  /\ UNCHANGED <<readable, setVars>>

-----------------------------------------------------------------------------
\* Calls on the select sets.

\* What AddSocket() does to the two sets.
Watch(s, toMonitor) ==
  /\ readSet' = IF READ \in toMonitor THEN readSet \cup {s} ELSE readSet
  /\ writeSet' = IF toMonitor \cap WriteFlags # {}
                 THEN writeSet \cup {s} ELSE writeSet
  /\ answered' = answered \ {s}
  /\ returned' = Nothing
  /\ UNCHANGED kernelVars

\* Mutant: _checks holds the flags of the last socket.
AddSocket_LastChecks(s, toMonitor) ==
  /\ toMonitor # {}
  /\ s < FdSetSize
  /\ max' = IF s > max THEN s ELSE max
  /\ checks' = toMonitor
  /\ Watch(s, toMonitor)

\* Mutant: _max is the last socket.
AddSocket_LastMax(s, toMonitor) ==
  /\ toMonitor # {}
  /\ s < FdSetSize
  /\ max' = s
  /\ checks' = checks \cup toMonitor
  /\ Watch(s, toMonitor)

\* The call that returns false changes nothing.
AddSocket(s, toMonitor) ==
  /\ toMonitor # {}
  /\ s < FdSetSize
  /\ max' = IF s > max THEN s ELSE max
  /\ checks' = checks \cup toMonitor
  /\ Watch(s, toMonitor)

RemoveSocket(s, toMonitor) ==
  /\ s < FdSetSize
  /\ readSet' = IF READ \in toMonitor THEN readSet \ {s} ELSE readSet
  /\ writeSet' = IF toMonitor \cap WriteFlags # {}
                 THEN writeSet \ {s} ELSE writeSet
  /\ returned' = Nothing
  /\ UNCHANGED <<kernelVars, max, checks, answered>>

\* select() is given a set only if _checks has one of its flags, and looks at
\* the handles up to _max.
Passed(set, flags) ==
  IF checks \cap flags = {} THEN {} ELSE {s \in set : s < max + 1}

Selected ==
  {s \in Passed(readSet, {READ}) : ReadReady(s)}
  \cup {s \in Passed(writeSet, WriteFlags) : WriteReady(s)}

\* select() takes away from a set what it looked at and found not ready.
Answers ==
  /\ readSet' = {s \in readSet : s \in Passed(readSet, {READ}) => ReadReady(s)}
  /\ writeSet' =
       {s \in writeSet : s \in Passed(writeSet, WriteFlags) => WriteReady(s)}
  /\ answered' = {s \in Socket : s < FdSetSize}
  /\ UNCHANGED <<kernelVars, max, checks>>

WaitReady ==
  /\ Selected # {}
  /\ Answers
  /\ returned' = [call |-> "Wait", result |-> "ready"]

WaitTimeout ==
  /\ Selected = {}
  /\ Answers
  /\ returned' = [call |-> "Wait", result |-> "timeout"]

\* A signal interrupts select(): the sets stay as they were.
WaitError ==
  /\ answered' = {}
  /\ returned' = [call |-> "Wait", result |-> "error"]
  /\ UNCHANGED <<kernelVars, setVars>>

\* Asked about a failure, TestSocket() means to look at the write set first.
\* "checkResult & (FD_ISSET(...) == 0)" takes a bit of checkResult, the one of
\* SELECT_CAN_READ, when the socket is not in the set.
\* (The mutant does not look at the write set at all.)
SkipsError_Never(asked, inWrite) == FALSE

SkipsError(asked, inWrite) == READ \in asked /\ ~ inWrite

AsksError(asked, inWrite) == FAILED \in asked /\ ~ SkipsError(asked, inWrite)

\* Mutant: the two verdicts are swapped.
WriteVerdict_Swapped(asked, inWrite, error) ==
  CASE FAILED \in asked /\ SkipsError(asked, inWrite) -> asked \ WriteFlags
    [] AsksError(asked, inWrite) /\ ~ error -> Bits \ {WRITE}
    [] AsksError(asked, inWrite) /\ error -> Bits \ {FAILED}
    [] OTHER -> IF inWrite THEN asked ELSE asked \ {WRITE}

\* The flags after the first "if": the complement of one flag has all others.
WriteVerdict(asked, inWrite, error) ==
  CASE FAILED \in asked /\ SkipsError(asked, inWrite) -> asked \ WriteFlags
    [] AsksError(asked, inWrite) /\ ~ error -> Bits \ {FAILED}
    [] AsksError(asked, inWrite) /\ error -> Bits \ {WRITE}
    [] OTHER -> IF inWrite THEN asked ELSE asked \ {WRITE}

ReadVerdict(flags, inRead) == IF inRead THEN flags ELSE flags \ {READ}

\* Mutant: the result is not cut down to SELECT_CHECK_ALL.
Verdict_Uncut(asked, inRead, inWrite, error) ==
  ReadVerdict(WriteVerdict(asked, inWrite, error), inRead)

Verdict(asked, inRead, inWrite, error) ==
  ReadVerdict(WriteVerdict(asked, inWrite, error), inRead) \cap CheckAll

\* Unlike AddSocket(), TestSocket() does not look at FD_SETSIZE: what FD_ISSET
\* reads for a handle that does not fit is behind the sets, and may be anything.
\* Reading SO_ERROR clears it.
TestSocket(s, asked) ==
  \E inRead, inWrite \in BOOLEAN :
    /\ s < FdSetSize => inRead = (s \in readSet) /\ inWrite = (s \in writeSet)
    /\ returned' = [call |-> "TestSocket", socket |-> s, asked |-> asked,
                    result |-> Verdict(asked, inRead, inWrite, soError[s])]
    /\ soError' = [soError EXCEPT ![s] = @ /\ ~ AsksError(asked, inWrite)]
    /\ UNCHANGED <<conn, readable, setVars, answered>>

Network == \E s \in Socket : Established(s) \/ Refused(s) \/ Arrives(s)

Next ==
  \/ Network
  \/ \E s \in Socket : Listen(s) \/ Take(s) \/ Connect(s)
  \/ \E s \in Socket, flags \in SUBSET CheckAll :
       AddSocket(s, flags) \/ RemoveSocket(s, flags) \/ TestSocket(s, flags)
  \/ WaitReady \/ WaitTimeout \/ WaitError

Spec == Init /\ [][Next]_vars

-----------------------------------------------------------------------------
\* Properties.

\* select() sees every socket that is in a set: neither _max nor _checks, which
\* are never lowered when a socket is removed, hides one from it.
EverySetIsPassed ==
  /\ Passed(readSet, {READ}) = readSet
  /\ Passed(writeSet, WriteFlags) = writeSet
  /\ max < FdSetSize

\* The inductive form of it.
Covered ==
  /\ max < FdSetSize
  /\ \A s \in readSet \cup writeSet : s <= max
  /\ readSet # {} => READ \in checks
  /\ writeSet # {} => checks \cap WriteFlags # {}

\* Wait() answers exactly: when it reports or times out, the sets hold the
\* sockets that were in them and are ready, and a time-out means that there is
\* none, so that nothing tests as ready after it.
WaitIsExact ==
  [][returned'.call = "Wait" /\ returned'.result # "error" =>
       /\ readSet' = {s \in readSet : ReadReady(s)}
       /\ writeSet' = {s \in writeSet : WriteReady(s)}
       /\ returned'.result = "timeout" <=> readSet' \cup writeSet' = {}]_vars

Tested(s) == returned.call = "TestSocket" /\ returned.socket = s

\* What TestSocket() reports of a socket after Wait() is still so: a read does
\* not wait, and a socket reported writable is not on its way to a connection,
\* whatever the network did meanwhile.  For SELECT_CAN_WRITE this needs a caller
\* that asks for a failure only together with SELECT_CAN_READ.
ReportIsReal ==
  \A s \in answered :
    Tested(s) =>
      /\ READ \in returned.result => ReadReady(s)
      /\ /\ WRITE \in returned.result
         /\ FAILED \in returned.asked => READ \in returned.asked
         => WriteReady(s)

\* The inductive form of it: nothing but the caller undoes what Wait() found.
AnswersHold ==
  \A s \in answered :
    /\ s \in readSet => ReadReady(s)
    /\ s \in writeSet => WriteReady(s)

\* Asked about SELECT_CHECK_ALL of a socket that Wait() left in the write set,
\* TestSocket() tells a connection that is over from one that stands, and takes
\* the answer from the socket as it is now, not as it was when Wait() returned.
\* It does so once: reading the error clears it.
VerdictIsRight ==
  [][\A s \in answered \cap writeSet :
       /\ returned'.call = "TestSocket"
       /\ returned'.socket = s
       /\ returned'.asked = CheckAll
       => /\ FAILED \in returned'.result <=> soError[s]
          /\ FAILED \in returned'.result => conn[s] \in Over
          /\ WRITE \in returned'.result => conn[s] \notin Over \/ ~ soError[s]
          /\ ~ soError'[s]]_vars

\* What that rests on: the error of a socket is that of a connection which is
\* over.  It goes when the caller reads it or connects again.
ErrorIsRefusal == \A s \in Socket : soError[s] => conn[s] \in Over

\* However often it is called, Connect() on a nonblocking socket answers what
\* the state of the connection is.  The success that connect() has once told of
\* may be told again after the connection was reset, and only then: a connection
\* that never came to be is not reported as one.
ConnectIsRight ==
  \A s \in Socket :
    returned.call = "Connect" /\ returned.socket = s =>
      /\ returned.result = "CONNECT_SUCCESS" <=> conn[s] \in {"connected", "reset"}
      /\ returned.result = "CONNECT_PENDING" <=> conn[s] = "connecting"

\* "Tests the socket for the specified values after a call to Wait(), returning
\* the set values" (IPSocket.h:393): with the sets watching for both outcomes of a
\* connection, one that is still pending tests as neither, and no value is
\* returned that was not specified.
SetValuesAreReturned ==
  \A s \in answered :
    Tested(s) /\ conn[s] = "connecting" /\ WriteFlags \subseteq checks =>
      returned.result \subseteq returned.asked \ {WRITE}
=============================================================================
