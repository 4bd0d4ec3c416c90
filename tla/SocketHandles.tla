---------------------------- MODULE SocketHandles ----------------------------
(***************************************************************************)
(* Who has which socket: IPSocket::Open, Close, Accept and the containers  *)
(* AutoCloseIPSocket with Swap (src/smbb/IPSocket.h, lines 600-700,        *)
(* 1050-1073 and 1315-1339), POSIX.                                        *)
(*                                                                         *)
(* An IPSocket is a descriptor, a number that the kernel gives to a new    *)
(* socket as soon as the old one is closed.  A step is one system call with*)
(* the code around it, so calls of different threads, each with objects of *)
(* its own, interleave inside Open() and inside Close().                   *)
(***************************************************************************)
EXTENDS Integers

CONSTANTS
  Object,       \* the AutoCloseIPSocket objects of all threads
  Number,       \* the descriptors that the process may have
  Address,      \* the addresses to bind to and to connect to
  Entity,       \* the sockets there can ever be: bounds the creations
  INVALID_HANDLE,
  NoEntity      \* a descriptor that is not in use, an object without socket

ASSUME HandlesAssumption ==
  /\ Number \subseteq Nat
  /\ INVALID_HANDLE \notin Number
  /\ NoEntity \notin Entity
  /\ Address # {}

OpenAttempt ==
  {"OPEN_ONLY", "OPEN_AND_BIND", "OPEN_BIND_AND_LISTEN", "OPEN_AND_CONNECT"}

Request == [attempt : OpenAttempt, address : Address]

\* A socket is "connected" also when it is on its way there.
Phase == {"none", "new", "bound", "listening", "connected", "closed"}

VARIABLES
  descriptor,   \* kernel: the socket that each number denotes
  phase,        \* kernel: the state of each socket
  bound,        \* kernel: the addresses that each socket is bound to
  handle,       \* _handle
  pc,           \* the system call that an object's function is about to make,
                \* "reset" in Close() when close() has returned, or "idle"
  req,          \* the arguments of the last Open()
  result,       \* what it returned, until something else is done to the object
  made          \* history: the socket that was created for the object, moved
                \* by Swap(), until Close() has returned

kernelVars == <<descriptor, phase, bound>>
vars == <<kernelVars, handle, pc, req, result, made>>

TypeOK ==
  /\ descriptor \in [Number -> Entity \cup {NoEntity}]
  /\ phase \in [Entity -> Phase]
  /\ bound \in [Entity -> SUBSET Address]
  /\ handle \in [Object -> Number \cup {INVALID_HANDLE}]
  /\ pc \in [Object -> {"idle", "socket", "bind", "listen", "connect", "reset"}]
  /\ req \in [Object -> Request]
  /\ result \in [Object -> {"none", "true", "false"}]
  /\ made \in [Object -> Entity \cup {NoEntity}]

IsValid(o) == handle[o] # INVALID_HANDLE

Init ==
  /\ descriptor = [n \in Number |-> NoEntity]
  /\ phase = [e \in Entity |-> "none"]
  /\ bound = [e \in Entity |-> {}]
  /\ handle = [o \in Object |-> INVALID_HANDLE]
  /\ pc = [o \in Object |-> "idle"]
  /\ req \in [Object -> {[attempt |-> "OPEN_ONLY", address |-> a] : a \in Address}]
  /\ result = [o \in Object |-> "none"]
  /\ made = [o \in Object |-> NoEntity]

Goto(o, label) == pc' = [pc EXCEPT ![o] = label]

Returns(o, value) ==
  /\ Goto(o, "idle")
  /\ result' = [result EXCEPT ![o] = value]

-----------------------------------------------------------------------------
\* The kernel gives a new socket the lowest number that is free.

Free(n) == descriptor[n] = NoEntity

Creates(o, state) ==
  \E n \in Number, e \in Entity :
    /\ Free(n)
    /\ \A m \in Number : Free(m) => n <= m
    /\ phase[e] = "none"
    /\ descriptor' = [descriptor EXCEPT ![n] = e]
    /\ phase' = [phase EXCEPT ![e] = state]
    /\ handle' = [handle EXCEPT ![o] = n]
    /\ made' = [made EXCEPT ![o] = e]
    /\ UNCHANGED bound

\* What a call does to the socket that the number of o denotes now.
Becomes(o, state) ==
  /\ phase' = [phase EXCEPT ![descriptor[handle[o]]] = state]
  /\ UNCHANGED <<descriptor, handle, made>>

-----------------------------------------------------------------------------
\* Open()

\* Mutant: no look at IsValid().
Open_Again(o, r) ==
  /\ pc[o] = "idle"
  /\ req' = [req EXCEPT ![o] = r]
  /\ Goto(o, "socket")
  /\ result' = [result EXCEPT ![o] = "none"]
  /\ UNCHANGED <<kernelVars, handle, made>>

Open(o, r) ==
  /\ pc[o] = "idle"
  /\ req' = [req EXCEPT ![o] = r]
  /\ ~ IsValid(o)
  /\ Goto(o, "socket")
  /\ result' = [result EXCEPT ![o] = "none"]
  /\ UNCHANGED <<kernelVars, handle, made>>

\* Open() of an object that is open.
OpenRefused(o, r) ==
  /\ pc[o] = "idle"
  /\ IsValid(o)
  /\ req' = [req EXCEPT ![o] = r]
  /\ Returns(o, "false")
  /\ UNCHANGED <<kernelVars, handle, made>>

NextCall(attempt) ==
  CASE attempt \in {"OPEN_AND_BIND", "OPEN_BIND_AND_LISTEN"} -> "bind"
    [] attempt = "OPEN_AND_CONNECT" -> "connect"
    [] OTHER -> "idle"

SocketSucceeds(o) ==
  /\ pc[o] = "socket"
  /\ Creates(o, "new")
  /\ Goto(o, NextCall(req[o].attempt))
  /\ result' = [result EXCEPT
                  ![o] = IF req[o].attempt = "OPEN_ONLY" THEN "true" ELSE "none"]
  /\ UNCHANGED req

\* socket() fails: no number is free, or for a reason of its own.
SocketFails(o) ==
  /\ pc[o] = "socket"
  /\ handle' = [handle EXCEPT ![o] = INVALID_HANDLE]
  /\ Returns(o, "false")
  /\ UNCHANGED <<kernelVars, req, made>>

\* Mutant: "Bind(address) || Listen()"
BindSucceeds_NoListen(o) ==
  /\ pc[o] = "bind"
  /\ \A e \in Entity : req[o].address \notin bound[e]
  /\ Becomes(o, "bound")
  /\ bound' = [bound EXCEPT ![descriptor[handle[o]]] = {req[o].address}]
  /\ Returns(o, "true")
  /\ UNCHANGED req

\* The address is free.  "Bind(address) && Listen()" goes on to listen.
BindSucceeds(o) ==
  /\ pc[o] = "bind"
  /\ \A e \in Entity : req[o].address \notin bound[e]
  /\ Becomes(o, "bound")
  /\ bound' = [bound EXCEPT ![descriptor[handle[o]]] = {req[o].address}]
  /\ IF req[o].attempt = "OPEN_BIND_AND_LISTEN"
     THEN Goto(o, "listen") /\ UNCHANGED result
     ELSE Returns(o, "true")
  /\ UNCHANGED req

ListenSucceeds(o) ==
  /\ pc[o] = "listen"
  /\ Becomes(o, "listening")
  /\ Returns(o, "true")
  /\ UNCHANGED <<bound, req>>

\* Connect() is not CONNECT_FAILED: the connection stands or is pending.
ConnectSucceeds(o) ==
  /\ pc[o] = "connect"
  /\ Becomes(o, "connected")
  /\ Returns(o, "true")
  /\ UNCHANGED <<bound, req>>

\* The socket stays open when what was to follow its creation fails.
AttemptFails(o) ==
  /\ pc[o] \in {"bind", "listen", "connect"}
  /\ Returns(o, "false")
  /\ UNCHANGED <<kernelVars, handle, req, made>>

-----------------------------------------------------------------------------
\* The object o is constructed from what Accept() of the object l returns.

AcceptSucceeds(l, o) ==
  /\ pc[l] = "idle" /\ pc[o] = "idle"
  /\ IsValid(l) /\ ~ Free(handle[l])
  /\ phase[descriptor[handle[l]]] = "listening"
  /\ ~ IsValid(o)
  /\ Creates(o, "connected")
  /\ result' = [result EXCEPT ![o] = "none"]
  /\ UNCHANGED <<pc, req>>

-----------------------------------------------------------------------------
\* Close(), called by the user and by the destructor.

\* close() of a number that is not in use is an error that is ignored.
CloseDescriptor(o) ==
  /\ pc[o] = "idle"
  /\ IF IsValid(o) /\ ~ Free(handle[o])
     THEN LET e == descriptor[handle[o]]
          IN  /\ descriptor' = [descriptor EXCEPT ![handle[o]] = NoEntity]
              /\ phase' = [phase EXCEPT ![e] = "closed"]
              /\ bound' = [bound EXCEPT ![e] = {}]
     ELSE UNCHANGED kernelVars
  /\ Goto(o, "reset")
  /\ result' = [result EXCEPT ![o] = "none"]
  /\ UNCHANGED <<handle, req, made>>

\* Mutant: Close() leaves _handle.
CloseReturns_KeepsHandle(o) ==
  /\ pc[o] = "reset"
  /\ made' = [made EXCEPT ![o] = NoEntity]
  /\ Goto(o, "idle")
  /\ UNCHANGED <<kernelVars, handle, req, result>>

CloseReturns(o) ==
  /\ pc[o] = "reset"
  /\ handle' = [handle EXCEPT ![o] = INVALID_HANDLE]
  /\ made' = [made EXCEPT ![o] = NoEntity]
  /\ Goto(o, "idle")
  /\ UNCHANGED <<kernelVars, req, result>>

-----------------------------------------------------------------------------
\* Swap(): three assignments to objects that no other thread uses.

\* Mutant: "other = *this" comes first.
Swap_NoTemporary(o, p) ==
  /\ pc[o] = "idle" /\ pc[p] = "idle"
  /\ handle' = [handle EXCEPT ![p] = handle[o]]
  /\ made' = [made EXCEPT ![o] = made[p], ![p] = made[o]]
  /\ result' = [result EXCEPT ![o] = "none", ![p] = "none"]
  /\ UNCHANGED <<kernelVars, pc, req>>

Swap(o, p) ==
  /\ pc[o] = "idle" /\ pc[p] = "idle"
  /\ handle' = [handle EXCEPT ![o] = handle[p], ![p] = handle[o]]
  /\ made' = [made EXCEPT ![o] = made[p], ![p] = made[o]]
  /\ result' = [result EXCEPT ![o] = "none", ![p] = "none"]
  /\ UNCHANGED <<kernelVars, pc, req>>

Next ==
  \/ \E o \in Object, r \in Request : Open(o, r) \/ OpenRefused(o, r)
  \/ \E o \in Object :
       \/ SocketSucceeds(o) \/ SocketFails(o)
       \/ BindSucceeds(o) \/ ListenSucceeds(o) \/ ConnectSucceeds(o)
       \/ AttemptFails(o)
       \/ CloseDescriptor(o) \/ CloseReturns(o)
  \/ \E o, p \in Object : AcceptSucceeds(o, p) \/ Swap(o, p)

Spec == Init /\ [][Next]_vars

-----------------------------------------------------------------------------
\* Properties.

\* An object has a socket unless close() has returned already.
Holds(o) == IsValid(o) /\ pc[o] # "reset"

\* No two objects would close the same descriptor, although between close() and
\* the reset of _handle another thread may be given its number.
SoleOwner ==
  \A o, p \in Object :
    Holds(o) /\ Holds(p) /\ handle[o] = handle[p] => o = p

\* What an object has is the socket that was created for it, and not a later one
\* with the same number.
HandleIsMine ==
  \A o \in Object :
    Holds(o) => made[o] # NoEntity /\ descriptor[handle[o]] = made[o]

\* An object that is about to create a socket has none.
CreatesOnce == \A o \in Object : pc[o] = "socket" => ~ IsValid(o)

\* Every open descriptor is in an object whose destructor will close it: an Open()
\* that fails half-way, a second Open(), Accept() and Swap() leak none.
NothingLeaks ==
  \A n \in Number :
    ~ Free(n) => \E o \in Object : Holds(o) /\ handle[o] = n

\* The state of a socket that an Open() asked for.
IsAsAsked(e, r) ==
  /\ phase[e] = CASE r.attempt = "OPEN_ONLY" -> "new"
                  [] r.attempt = "OPEN_AND_BIND" -> "bound"
                  [] r.attempt = "OPEN_BIND_AND_LISTEN" -> "listening"
                  [] r.attempt = "OPEN_AND_CONNECT" -> "connected"
  /\ NextCall(r.attempt) = "bind" => bound[e] = {r.address}

\* Open() returned true only if the socket is in the state that was asked for, and
\* it stays so whatever the other threads open and close.
OpenTells ==
  \A o \in Object :
    pc[o] = "idle" /\ result[o] = "true" =>
      /\ descriptor[handle[o]] # NoEntity
      /\ IsAsAsked(descriptor[handle[o]], req[o])

\* A socket is closed only by Close() of the object that it was created for.
ClosesItsOwn ==
  [][\A n \in Number :
       ~ Free(n) /\ descriptor'[n] # descriptor[n] =>
         \E o \in Object :
           /\ pc[o] = "idle" /\ pc'[o] = "reset"
           /\ handle[o] = n /\ made[o] = descriptor[n]]_vars

IndInv ==
  TypeOK /\ SoleOwner /\ HandleIsMine /\ CreatesOnce /\ NothingLeaks

\* What OpenTells rests on: no two numbers denote one socket, and an Open() that
\* runs or has returned true has a socket, which is bound before it listens.
DescriptorsDiffer ==
  \A n \in Number :
    ~ Free(n) => /\ phase[descriptor[n]] # "none"
                 /\ \A m \in Number : descriptor[m] = descriptor[n] => m = n

GoesOn(o) ==
  /\ pc[o] = "bind" => Holds(o) /\ NextCall(req[o].attempt) = "bind"
  /\ pc[o] = "listen" => /\ Holds(o) /\ req[o].attempt = "OPEN_BIND_AND_LISTEN"
                         /\ bound[descriptor[handle[o]]] = {req[o].address}
  /\ pc[o] = "connect" => Holds(o) /\ req[o].attempt = "OPEN_AND_CONNECT"
  /\ pc[o] = "reset" => result[o] # "true"
  /\ pc[o] = "idle" /\ result[o] = "true" =>
       Holds(o) /\ IsAsAsked(descriptor[handle[o]], req[o])

OpenInv == IndInv /\ DescriptorsDiffer /\ \A o \in Object : GoesOn(o)
=============================================================================
