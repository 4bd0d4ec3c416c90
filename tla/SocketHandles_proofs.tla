------------------------ MODULE SocketHandles_proofs ------------------------
(***************************************************************************)
(* Proofs about SocketHandles, for every value of its constants.           *)
(***************************************************************************)
EXTENDS SocketHandles, TLAPS

\* The four ways in which a step may disturb the invariant: it leaves alone who
\* has what, creates a socket for an object, closes one, or exchanges two.

\* What keeps every handle and descriptor, and does not turn to or from the end
\* of Close(), keeps who has what.
LEMMA QuietKeeps ==
  ASSUME IndInv, TypeOK', UNCHANGED <<descriptor, handle, made>>,
         \A o \in Object : pc'[o] = "reset" <=> pc[o] = "reset",
         \A o \in Object : pc'[o] = "socket" => ~ IsValid(o)
  PROVE  IndInv'
BY DEF IndInv, SoleOwner, HandleIsMine, CreatesOnce, NothingLeaks, Holds,
       IsValid, Free

\* A new socket goes to one object that had none.
LEMMA CreatesKeeps ==
  ASSUME IndInv, TypeOK', NEW o \in Object, NEW state, Creates(o, state),
         ~ IsValid(o), pc[o] # "reset", pc'[o] \notin {"reset", "socket"},
         \A p \in Object \ {o} : pc'[p] = pc[p]
  PROVE  IndInv'
<1> USE HandlesAssumption DEF IndInv
<1>1. PICK n \in Number, e \in Entity :
        /\ Free(n)
        /\ descriptor' = [descriptor EXCEPT ![n] = e]
        /\ handle' = [handle EXCEPT ![o] = n]
        /\ made' = [made EXCEPT ![o] = e]
  BY DEF Creates
<1>2. /\ descriptor'[n] = e /\ handle'[o] = n /\ made'[o] = e
      /\ \A m \in Number \ {n} : descriptor'[m] = descriptor[m]
      /\ \A p \in Object \ {o} : handle'[p] = handle[p] /\ made'[p] = made[p]
  BY <1>1 DEF TypeOK
<1>3. Holds(o)' /\ ~ Holds(o)
  BY <1>2 DEF Holds, IsValid
<1>4. \A p \in Object \ {o} : Holds(p)' <=> Holds(p)
  BY <1>2 DEF Holds, IsValid
<1>5. \A p \in Object \ {o} : Holds(p) => handle[p] \in Number /\ handle[p] # n
  BY <1>1 DEF HandleIsMine, Holds, IsValid, Free, TypeOK
<1>6. SoleOwner'
  BY <1>2, <1>4, <1>5 DEF SoleOwner
<1>7. HandleIsMine'
  <2> SUFFICES ASSUME NEW p \in Object, Holds(p)'
               PROVE  made'[p] # NoEntity /\ descriptor'[handle'[p]] = made'[p]
    BY DEF HandleIsMine
  <2>1. CASE p = o
    BY <1>2, <2>1
  <2>2. CASE p # o
    <3>1. /\ Holds(p) /\ handle'[p] = handle[p] /\ made'[p] = made[p]
          /\ handle[p] \in Number \ {n}
      BY <1>2, <1>4, <1>5, <2>2
    <3>2. descriptor'[handle[p]] = descriptor[handle[p]]
      BY <1>2, <3>1
    <3> QED BY <3>1, <3>2 DEF HandleIsMine
  <2> QED BY <2>1, <2>2
<1>8. CreatesOnce'
  BY <1>2 DEF CreatesOnce, IsValid
<1>9. NothingLeaks'
  <2> SUFFICES ASSUME NEW m \in Number, ~ Free(m)'
               PROVE  \E p \in Object : Holds(p)' /\ handle'[p] = m
    BY DEF NothingLeaks
  <2>1. CASE m = n
    BY <1>2, <1>3, <2>1
  <2>2. CASE m # n
    <3>1. ~ Free(m)
      BY <1>2, <2>2 DEF Free
    <3>2. PICK p \in Object : Holds(p) /\ handle[p] = m
      BY <3>1 DEF NothingLeaks
    <3>3. p # o
      BY <1>3, <3>2
    <3> QED BY <1>2, <1>4, <3>2, <3>3
  <2> QED BY <2>1, <2>2
<1> QED BY <1>6, <1>7, <1>8, <1>9

\* close() gives up one descriptor, and the object that had it has it no more.
LEMMA CloseKeeps ==
  ASSUME IndInv, TypeOK', NEW o \in Object, CloseDescriptor(o)
  PROVE  IndInv'
<1> USE HandlesAssumption DEF IndInv
<1>1. /\ UNCHANGED <<handle, made>>
      /\ pc'[o] = "reset" /\ pc[o] = "idle"
      /\ \A p \in Object \ {o} : pc'[p] = pc[p]
  BY DEF CloseDescriptor, Goto, TypeOK
<1>2. ~ Holds(o)' /\ \A p \in Object \ {o} : Holds(p)' <=> Holds(p)
  BY <1>1 DEF Holds, IsValid
<1>3. \A m \in Number : m # handle[o] => descriptor'[m] = descriptor[m]
  <2>1. CASE IsValid(o) /\ ~ Free(handle[o])
    BY <2>1 DEF CloseDescriptor, TypeOK
  <2>2. CASE ~ (IsValid(o) /\ ~ Free(handle[o]))
    BY <2>2 DEF CloseDescriptor, kernelVars
  <2> QED BY <2>1, <2>2
<1>4. handle[o] \in Number => descriptor'[handle[o]] = NoEntity
  <2>1. CASE IsValid(o) /\ ~ Free(handle[o])
    BY <2>1 DEF CloseDescriptor, TypeOK
  <2>2. CASE ~ (IsValid(o) /\ ~ Free(handle[o]))
    BY <2>2 DEF CloseDescriptor, IsValid, Free, kernelVars, TypeOK
  <2> QED BY <2>1, <2>2
<1>5. \A p \in Object \ {o} : Holds(p) => handle[p] \in Number
                                          /\ handle[p] # handle[o]
  BY <1>1 DEF SoleOwner, Holds, IsValid, TypeOK
<1>6. SoleOwner'
  BY <1>1, <1>2 DEF SoleOwner
<1>7. HandleIsMine'
  BY <1>1, <1>2, <1>3, <1>5 DEF HandleIsMine
<1>8. CreatesOnce'
  BY <1>1 DEF CreatesOnce, IsValid
<1>9. NothingLeaks'
  <2> SUFFICES ASSUME NEW m \in Number, ~ Free(m)'
               PROVE  \E p \in Object : Holds(p)' /\ handle'[p] = m
    BY DEF NothingLeaks
  <2>1. m # handle[o] /\ ~ Free(m)
    BY <1>3, <1>4 DEF Free
  <2>2. PICK p \in Object : Holds(p) /\ handle[p] = m
    BY <2>1 DEF NothingLeaks
  <2> QED BY <1>1, <1>2, <2>1, <2>2
<1> QED BY <1>6, <1>7, <1>8, <1>9

\* The end of Close() takes the number from an object that has no socket.
LEMMA ResetKeeps ==
  ASSUME IndInv, TypeOK', NEW o \in Object, CloseReturns(o)
  PROVE  IndInv'
<1> USE HandlesAssumption DEF IndInv
<1>1. /\ UNCHANGED descriptor
      /\ pc[o] = "reset" /\ pc'[o] = "idle"
      /\ handle'[o] = INVALID_HANDLE
      /\ \A p \in Object \ {o} : /\ pc'[p] = pc[p] /\ handle'[p] = handle[p]
                                 /\ made'[p] = made[p]
  BY DEF CloseReturns, Goto, kernelVars, TypeOK
<1>2. /\ ~ Holds(o)' /\ ~ Holds(o)
      /\ \A p \in Object \ {o} : Holds(p)' <=> Holds(p)
  BY <1>1 DEF Holds, IsValid
<1>3. SoleOwner' /\ HandleIsMine'
  BY <1>1, <1>2 DEF SoleOwner, HandleIsMine
<1>4. CreatesOnce'
  BY <1>1 DEF CreatesOnce, IsValid
<1>5. NothingLeaks'
  BY <1>1, <1>2 DEF NothingLeaks, Free
<1> QED BY <1>3, <1>4, <1>5

\* Swap() exchanges what two objects have.
LEMMA SwapKeeps ==
  ASSUME IndInv, TypeOK', NEW o \in Object, NEW p \in Object, Swap(o, p)
  PROVE  IndInv'
<1> USE HandlesAssumption DEF IndInv
<1> DEFINE other(q) == IF q = o THEN p ELSE IF q = p THEN o ELSE q
<1>1. /\ UNCHANGED <<descriptor, pc>>
      /\ pc[o] = "idle" /\ pc[p] = "idle"
  BY DEF Swap, kernelVars
<1>2. \A q \in Object : handle'[q] = handle[other(q)] /\ made'[q] = made[other(q)]
  BY DEF Swap, TypeOK
<1>3. \A q \in Object : other(q) \in Object /\ other(other(q)) = q
  OBVIOUS
<1>4. \A q \in Object : pc[other(q)] = pc[q]
  BY <1>1
<1> HIDE DEF other
<1>5. \A q \in Object : Holds(q)' <=> Holds(other(q))
  BY <1>1, <1>2, <1>4 DEF Holds, IsValid
<1>6. SoleOwner'
  BY <1>2, <1>3, <1>5 DEF SoleOwner
<1>7. HandleIsMine'
  BY <1>1, <1>2, <1>3, <1>5 DEF HandleIsMine
<1>8. CreatesOnce'
  BY <1>1, <1>2, <1>3, <1>4 DEF CreatesOnce, IsValid
<1>9. NothingLeaks'
  <2> SUFFICES ASSUME NEW m \in Number, ~ Free(m)'
               PROVE  \E q \in Object : Holds(q)' /\ handle'[q] = m
    BY DEF NothingLeaks
  <2>1. ~ Free(m)
    BY <1>1 DEF Free
  <2>2. PICK q \in Object : Holds(q) /\ handle[q] = m
    BY <2>1 DEF NothingLeaks
  <2>3. Holds(other(q))' /\ handle'[other(q)] = m
    BY <1>2, <1>3, <1>5, <2>2
  <2> QED BY <1>3, <2>3
<1> QED BY <1>6, <1>7, <1>8, <1>9

-----------------------------------------------------------------------------
\* The inductive invariant: every descriptor that is open belongs to exactly one
\* object, and the object to it.
THEOREM Inductive == Spec => []IndInv
<1> USE HandlesAssumption
<1>1. Init => IndInv
  <2> SUFFICES ASSUME Init PROVE IndInv
    OBVIOUS
  <2>1. req \in [Object -> Request]
    BY DEF Init, Request, OpenAttempt
  <2>2. TypeOK
    BY <2>1 DEF Init, TypeOK, Phase
  <2>3. \A o \in Object : ~ IsValid(o) /\ ~ Holds(o)
    BY DEF Init, Holds, IsValid
  <2>4. \A n \in Number : Free(n)
    BY DEF Init, Free
  <2> QED BY <2>2, <2>3, <2>4
          DEF IndInv, SoleOwner, HandleIsMine, CreatesOnce, NothingLeaks
<1>2. IndInv /\ [Next]_vars => IndInv'
  <2> SUFFICES ASSUME IndInv, [Next]_vars PROVE IndInv'
    OBVIOUS
  <2> USE DEF IndInv
  <2>1. ASSUME NEW o \in Object, NEW r \in Request, Open(o, r) \/ OpenRefused(o, r)
        PROVE IndInv'
    <3>1. TypeOK'
      BY <2>1 DEF Open, OpenRefused, Returns, Goto, kernelVars, TypeOK
    <3>2. UNCHANGED <<descriptor, handle, made>>
      BY <2>1 DEF Open, OpenRefused, kernelVars
    <3>3. \A p \in Object : /\ pc'[p] = "reset" <=> pc[p] = "reset"
                            /\ pc'[p] = "socket" => ~ IsValid(p)
      BY <2>1 DEF Open, OpenRefused, Returns, Goto, CreatesOnce, TypeOK
    <3> QED BY <3>1, <3>2, <3>3, QuietKeeps
  <2>2. ASSUME NEW o \in Object, SocketSucceeds(o)
        PROVE IndInv'
    <3>1. TypeOK'
      BY <2>2 DEF SocketSucceeds, Creates, Goto, NextCall, TypeOK, Phase, Request,
                  OpenAttempt
    <3>2. /\ Creates(o, "new") /\ pc[o] = "socket"
          /\ pc'[o] \notin {"reset", "socket"}
          /\ \A p \in Object \ {o} : pc'[p] = pc[p]
      BY <2>2 DEF SocketSucceeds, Goto, NextCall, TypeOK
    <3> QED BY <3>1, <3>2, CreatesKeeps DEF CreatesOnce
  <2>3. ASSUME NEW o \in Object, SocketFails(o)
        PROVE IndInv'
    <3>1. TypeOK'
      BY <2>3 DEF SocketFails, Returns, Goto, kernelVars, TypeOK
    <3>2. UNCHANGED <<descriptor, handle, made>>
      BY <2>3 DEF SocketFails, CreatesOnce, IsValid, kernelVars, TypeOK
    <3>3. \A p \in Object : /\ pc'[p] = "reset" <=> pc[p] = "reset"
                            /\ pc'[p] = "socket" => ~ IsValid(p)
      BY <2>3 DEF SocketFails, Returns, Goto, CreatesOnce, TypeOK
    <3> QED BY <3>1, <3>2, <3>3, QuietKeeps
  <2>4. ASSUME NEW o \in Object,
               BindSucceeds(o) \/ ListenSucceeds(o) \/ ConnectSucceeds(o)
        PROVE IndInv'
    <3>1. TypeOK'
      <4>1. \A state \in Phase : Becomes(o, state) =>
              phase' \in [Entity -> Phase]
        BY DEF Becomes, TypeOK
      <4>2. phase' \in [Entity -> Phase] /\ UNCHANGED <<descriptor, handle, made>>
        BY <2>4, <4>1 DEF BindSucceeds, ListenSucceeds, ConnectSucceeds, Becomes,
                          Phase
      <4>3. bound' \in [Entity -> SUBSET Address]
        BY <2>4 DEF BindSucceeds, ListenSucceeds, ConnectSucceeds, TypeOK, Request
      <4>4. /\ pc' \in [Object -> {"idle", "socket", "bind", "listen", "connect",
                                   "reset"}]
            /\ result' \in [Object -> {"none", "true", "false"}]
            /\ UNCHANGED req
        BY <2>4 DEF BindSucceeds, ListenSucceeds, ConnectSucceeds, Returns, Goto,
                    TypeOK
      <4> QED BY <4>2, <4>3, <4>4 DEF TypeOK
    <3>2. UNCHANGED <<descriptor, handle, made>>
      BY <2>4 DEF BindSucceeds, ListenSucceeds, ConnectSucceeds, Becomes
    <3>3. \A p \in Object : /\ pc'[p] = "reset" <=> pc[p] = "reset"
                            /\ pc'[p] = "socket" => ~ IsValid(p)
      BY <2>4 DEF BindSucceeds, ListenSucceeds, ConnectSucceeds, Returns, Goto,
                  CreatesOnce, TypeOK
    <3> QED BY <3>1, <3>2, <3>3, QuietKeeps
  <2>5. ASSUME NEW o \in Object, AttemptFails(o)
        PROVE IndInv'
    <3>1. TypeOK'
      BY <2>5 DEF AttemptFails, Returns, Goto, kernelVars, TypeOK
    <3>2. UNCHANGED <<descriptor, handle, made>>
      BY <2>5 DEF AttemptFails, kernelVars
    <3>3. \A p \in Object : /\ pc'[p] = "reset" <=> pc[p] = "reset"
                            /\ pc'[p] = "socket" => ~ IsValid(p)
      BY <2>5 DEF AttemptFails, Returns, Goto, CreatesOnce, TypeOK
    <3> QED BY <3>1, <3>2, <3>3, QuietKeeps
  <2>6. ASSUME NEW o \in Object, CloseDescriptor(o)
        PROVE IndInv'
    <3>1. TypeOK'
      BY <2>6 DEF CloseDescriptor, IsValid, Goto, kernelVars, TypeOK, Phase
    <3> QED BY <2>6, <3>1, CloseKeeps
  <2>7. ASSUME NEW o \in Object, CloseReturns(o)
        PROVE IndInv'
    <3>1. TypeOK'
      BY <2>7 DEF CloseReturns, Goto, kernelVars, TypeOK
    <3> QED BY <2>7, <3>1, ResetKeeps
  <2>8. ASSUME NEW l \in Object, NEW o \in Object, AcceptSucceeds(l, o)
        PROVE IndInv'
    <3>1. TypeOK'
      BY <2>8 DEF AcceptSucceeds, Creates, TypeOK, Phase
    <3> QED BY <2>8, <3>1, CreatesKeeps DEF AcceptSucceeds
  <2>9. ASSUME NEW o \in Object, NEW p \in Object, Swap(o, p)
        PROVE IndInv'
    <3>1. TypeOK'
      BY <2>9 DEF Swap, kernelVars, TypeOK
    <3> QED BY <2>9, <3>1, SwapKeeps
  <2>10. CASE UNCHANGED vars
    <3>1. TypeOK'
      BY <2>10 DEF vars, kernelVars, TypeOK
    <3> QED BY <2>10, <3>1, QuietKeeps DEF vars, kernelVars, CreatesOnce
  <2> QED
    BY <2>1, <2>2, <2>3, <2>4, <2>5, <2>6, <2>7, <2>8, <2>9, <2>10 DEF Next
<1> QED BY <1>1, <1>2, PTL DEF Spec

\* However many objects and threads there are, no open descriptor is lost.
COROLLARY NoneLeaks == Spec => []NothingLeaks
BY Inductive, PTL DEF IndInv

\* Whatever the threads do meanwhile, close() never takes the socket of another
\* object, not even one that was given the same number.
THEOREM OwnerCloses == Spec => ClosesItsOwn
<1> USE HandlesAssumption
<1> DEFINE Own ==
      \A n \in Number :
        ~ Free(n) /\ descriptor'[n] # descriptor[n] =>
          \E o \in Object :
            /\ pc[o] = "idle" /\ pc'[o] = "reset"
            /\ handle[o] = n /\ made[o] = descriptor[n]
<1>1. IndInv /\ [Next]_vars => [Own]_vars
  <2> SUFFICES ASSUME IndInv, Next PROVE Own
    BY DEF vars
  <2> SUFFICES ASSUME NEW n \in Number, ~ Free(n), descriptor'[n] # descriptor[n]
               PROVE  \E o \in Object :
                        /\ pc[o] = "idle" /\ pc'[o] = "reset"
                        /\ handle[o] = n /\ made[o] = descriptor[n]
    OBVIOUS
  <2> USE DEF IndInv
  <2>1. ASSUME NEW o \in Object, NEW state, Creates(o, state)
        PROVE FALSE
    BY <2>1 DEF Creates, Free, TypeOK
  <2>2. PICK o \in Object : CloseDescriptor(o)
    BY <2>1 DEF Next, Open, OpenRefused, SocketSucceeds, SocketFails, BindSucceeds,
                ListenSucceeds, ConnectSucceeds, AttemptFails, CloseReturns,
                AcceptSucceeds, Swap, Becomes, kernelVars
  <2>3. pc[o] = "idle" /\ pc'[o] = "reset"
    BY <2>2 DEF CloseDescriptor, Goto, TypeOK
  <2>4. IsValid(o) /\ handle[o] = n
    BY <2>2 DEF CloseDescriptor, kernelVars, IsValid, TypeOK
  <2>5. made[o] = descriptor[n]
    BY <2>3, <2>4 DEF HandleIsMine, Holds
  <2> QED BY <2>3, <2>4, <2>5
<1> QED BY <1>1, Inductive, PTL DEF Spec, ClosesItsOwn

-----------------------------------------------------------------------------
\* What Open() tells.

\* An object that a step leaves alone, with its socket, goes on as before.
LEMMA OthersGoOn ==
  ASSUME NEW o \in Object, GoesOn(o), pc'[o] = pc[o], req'[o] = req[o],
         result'[o] = result[o], handle'[o] = handle[o],
         Holds(o) => LET e == descriptor[handle[o]]
                     IN  /\ descriptor'[handle[o]] = e
                         /\ phase'[e] = phase[e] /\ bound'[e] = bound[e]
  PROVE  GoesOn(o)'
<1>1. Holds(o)' <=> Holds(o)
  BY DEF Holds, IsValid
<1>2. ASSUME Holds(o)
      PROVE  /\ IsAsAsked(descriptor[handle[o]], req[o])' <=>
                  IsAsAsked(descriptor[handle[o]], req[o])
             /\ bound'[descriptor'[handle'[o]]] = bound[descriptor[handle[o]]]
  BY <1>2 DEF IsAsAsked
<1> QED BY <1>1, <1>2 DEF GoesOn

\* The sockets of two objects differ.
LEMMA SocketsDiffer ==
  ASSUME IndInv, DescriptorsDiffer, NEW o \in Object, NEW p \in Object,
         Holds(o), Holds(p), o # p
  PROVE  /\ handle[o] \in Number /\ handle[p] \in Number /\ handle[o] # handle[p]
         /\ ~ Free(handle[o]) /\ ~ Free(handle[p])
         /\ descriptor[handle[o]] # descriptor[handle[p]]
<1>1. handle[o] \in Number /\ handle[p] \in Number /\ handle[o] # handle[p]
  BY DEF IndInv, SoleOwner, Holds, IsValid, TypeOK
<1>2. ~ Free(handle[o]) /\ ~ Free(handle[p])
  BY DEF IndInv, HandleIsMine, Free
<1> QED BY <1>1, <1>2 DEF DescriptorsDiffer

\* A call of one object on its own socket.
LEMMA CallsGoOn ==
  ASSUME OpenInv, NEW p \in Object,
         BindSucceeds(p) \/ ListenSucceeds(p) \/ ConnectSucceeds(p)
  PROVE  DescriptorsDiffer' /\ \A o \in Object : GoesOn(o)'
<1> USE HandlesAssumption DEF OpenInv
<1> DEFINE e == descriptor[handle[p]]
<1>1. Holds(p) /\ handle[p] \in Number /\ e \in Entity /\ pc[p] \in {"bind", "listen", "connect"}
  <2>1. Holds(p) /\ pc[p] \in {"bind", "listen", "connect"}
    BY DEF GoesOn, BindSucceeds, ListenSucceeds, ConnectSucceeds
  <2> QED BY <2>1 DEF IndInv, TypeOK, HandleIsMine, Holds, IsValid
<1>2. PICK state \in Phase \ {"none"} : phase' = [phase EXCEPT ![e] = state]
  BY DEF BindSucceeds, ListenSucceeds, ConnectSucceeds, Becomes, Phase
<1>3. /\ UNCHANGED <<descriptor, handle, req>>
      /\ \A d \in Entity \ {e} : bound'[d] = bound[d]
      /\ \A o \in Object \ {p} : pc'[o] = pc[o] /\ result'[o] = result[o]
  BY DEF BindSucceeds, ListenSucceeds, ConnectSucceeds, Becomes, Returns, Goto, IndInv,
         TypeOK
<1>4. DescriptorsDiffer'
  BY <1>1, <1>2, <1>3 DEF DescriptorsDiffer, Free, IndInv, TypeOK
<1>5. ASSUME NEW o \in Object, o # p PROVE GoesOn(o)'
  <2>1. Holds(o) => /\ descriptor[handle[o]] \in Entity
                    /\ descriptor[handle[o]] # e
    BY <1>1, <1>5, SocketsDiffer DEF IndInv, TypeOK, Free
  <2>2. Holds(o) => phase'[descriptor[handle[o]]] = phase[descriptor[handle[o]]]
    BY <1>2, <2>1 DEF IndInv, TypeOK
  <2> QED BY <1>3, <1>5, <2>1, <2>2, OthersGoOn
<1>6. GoesOn(p)'
  <2>1. Holds(p)' <=> pc'[p] # "reset"
    BY <1>1, <1>3 DEF Holds, IsValid
  <2>2. CASE BindSucceeds(p)
    <3>1. /\ NextCall(req[p].attempt) = "bind" /\ bound'[e] = {req[p].address}
          /\ phase'[e] = "bound"
      BY <1>1, <2>2 DEF BindSucceeds, Becomes, GoesOn, IndInv, TypeOK
    <3>2. req[p].attempt \in {"OPEN_AND_BIND", "OPEN_BIND_AND_LISTEN"}
      BY <3>1 DEF NextCall, IndInv, TypeOK, Request, OpenAttempt
    <3>3. CASE req[p].attempt = "OPEN_BIND_AND_LISTEN"
      <4>1. pc'[p] = "listen"
        BY <2>2, <3>3 DEF BindSucceeds, Goto, IndInv, TypeOK
      <4> QED BY <1>3, <2>1, <3>1, <3>3, <4>1 DEF GoesOn
    <3>4. CASE req[p].attempt = "OPEN_AND_BIND"
      <4>1. pc'[p] = "idle"
        BY <2>2, <3>4 DEF BindSucceeds, Returns, Goto, IndInv, TypeOK
      <4>2. IsAsAsked(descriptor[handle[p]], req[p])'
        BY <1>3, <3>1, <3>4 DEF IsAsAsked
      <4> QED BY <2>1, <4>1, <4>2 DEF GoesOn
    <3> QED BY <3>2, <3>3, <3>4
  <2>3. CASE ListenSucceeds(p)
    <3>1. /\ pc'[p] = "idle" /\ phase'[e] = "listening" /\ bound'[e] = bound[e]
          /\ req[p].attempt = "OPEN_BIND_AND_LISTEN" /\ bound[e] = {req[p].address}
      BY <1>1, <2>3 DEF ListenSucceeds, Becomes, Returns, Goto, GoesOn, IndInv, TypeOK
    <3>2. IsAsAsked(descriptor[handle[p]], req[p])'
      BY <1>3, <3>1 DEF IsAsAsked
    <3> QED BY <2>1, <3>1, <3>2 DEF GoesOn
  <2>4. CASE ConnectSucceeds(p)
    <3>1. /\ pc'[p] = "idle" /\ phase'[e] = "connected"
          /\ req[p].attempt = "OPEN_AND_CONNECT"
      BY <1>1, <2>4 DEF ConnectSucceeds, Becomes, Returns, Goto, GoesOn, IndInv, TypeOK
    <3>2. IsAsAsked(descriptor[handle[p]], req[p])'
      BY <1>3, <3>1 DEF IsAsAsked, NextCall
    <3> QED BY <2>1, <3>1, <3>2 DEF GoesOn
  <2> QED BY <2>2, <2>3, <2>4
<1> QED BY <1>4, <1>5, <1>6

\* A new socket is none that anybody has.
LEMMA CreatesGoOn ==
  ASSUME OpenInv, NEW p \in Object, NEW state \in Phase \ {"none"}, Creates(p, state),
         ~ IsValid(p), UNCHANGED req, \A o \in Object \ {p} : pc'[o] = pc[o]
                                                   /\ result'[o] = result[o]
  PROVE  /\ DescriptorsDiffer'
         /\ \A o \in Object \ {p} : GoesOn(o)'
         /\ handle'[p] \in Number /\ phase'[descriptor'[handle'[p]]] = state
<1> USE HandlesAssumption DEF OpenInv, IndInv
<1>1. PICK n \in Number, e \in Entity :
        /\ Free(n) /\ phase[e] = "none"
        /\ descriptor' = [descriptor EXCEPT ![n] = e]
        /\ phase' = [phase EXCEPT ![e] = state]
        /\ handle' = [handle EXCEPT ![p] = n]
        /\ UNCHANGED bound
  BY DEF Creates
<1>2. /\ descriptor'[n] = e /\ phase'[e] = state /\ handle'[p] = n
      /\ \A m \in Number \ {n} : descriptor'[m] = descriptor[m]
      /\ \A d \in Entity \ {e} : phase'[d] = phase[d]
      /\ \A o \in Object \ {p} : handle'[o] = handle[o]
  BY <1>1 DEF TypeOK
<1>3. \A m \in Number : ~ Free(m) => m # n /\ descriptor[m] # e /\ descriptor[m] \in Entity
  BY <1>1 DEF DescriptorsDiffer, Free, TypeOK
<1>4. DescriptorsDiffer'
  <2> SUFFICES ASSUME NEW m \in Number, ~ Free(m)'
               PROVE  /\ phase'[descriptor'[m]] # "none"
                      /\ \A k \in Number : descriptor'[k] = descriptor'[m] => k = m
    BY DEF DescriptorsDiffer
  <2>1. \A k \in Number \ {n} : descriptor[k] # e
    BY <1>1, <1>3 DEF Free
  <2>2. CASE m = n
    BY <1>2, <2>1, <2>2
  <2>3. CASE m # n
    <3>1. ~ Free(m) /\ descriptor'[m] = descriptor[m]
      BY <1>2, <2>3 DEF Free
    <3>2. descriptor[m] # e /\ descriptor[m] \in Entity
      BY <1>3, <3>1
    <3>3. /\ phase[descriptor[m]] # "none"
          /\ \A k \in Number : descriptor[k] = descriptor[m] => k = m
      BY <3>1 DEF DescriptorsDiffer
    <3>4. phase'[descriptor'[m]] # "none"
      BY <1>2, <3>1, <3>2, <3>3
    <3>5. ASSUME NEW k \in Number, descriptor'[k] = descriptor'[m] PROVE k = m
      <4>1. k # n
        BY <1>2, <3>1, <3>2, <3>5
      <4> QED BY <1>2, <3>1, <3>3, <3>5, <4>1
    <3> QED BY <3>4, <3>5
  <2> QED BY <2>2, <2>3
<1>5. ASSUME NEW o \in Object, o # p PROVE GoesOn(o)'
  <2>1. Holds(o) => handle[o] \in Number /\ ~ Free(handle[o])
    BY DEF Holds, IsValid, HandleIsMine, Free, TypeOK
  <2>2. Holds(o) => /\ descriptor'[handle[o]] = descriptor[handle[o]]
                    /\ phase'[descriptor[handle[o]]] = phase[descriptor[handle[o]]]
    BY <1>2, <1>3, <2>1
  <2> QED BY <1>1, <1>2, <1>5, <2>2, OthersGoOn
<1> QED BY <1>2, <1>4, <1>5

\* close() ends one socket, which no other object has.
LEMMA CloseGoesOn ==
  ASSUME OpenInv, NEW p \in Object, CloseDescriptor(p)
  PROVE  DescriptorsDiffer' /\ \A o \in Object : GoesOn(o)'
<1> USE HandlesAssumption DEF OpenInv, IndInv
<1>1. /\ UNCHANGED <<handle, req>> /\ pc[p] = "idle" /\ pc'[p] = "reset"
      /\ result'[p] = "none"
      /\ \A o \in Object \ {p} : pc'[o] = pc[o] /\ result'[o] = result[o]
  BY DEF CloseDescriptor, Goto, TypeOK
<1>2. GoesOn(p)'
  BY <1>1 DEF GoesOn
<1>3. CASE UNCHANGED kernelVars
  <2>1. DescriptorsDiffer'
    BY <1>3 DEF kernelVars, DescriptorsDiffer, Free
  <2>2. \A o \in Object \ {p} : GoesOn(o)'
    BY <1>1, <1>3, OthersGoOn DEF kernelVars
  <2> QED BY <1>2, <2>1, <2>2
<1>4. CASE IsValid(p) /\ ~ Free(handle[p])
  <2> DEFINE e == descriptor[handle[p]]
  <2>1. /\ handle[p] \in Number /\ e \in Entity /\ Holds(p)
        /\ descriptor' = [descriptor EXCEPT ![handle[p]] = NoEntity]
        /\ phase' = [phase EXCEPT ![e] = "closed"]
        /\ bound' = [bound EXCEPT ![e] = {}]
    BY <1>1, <1>4, ZenonT(60) DEF CloseDescriptor, IsValid, Free, Holds, TypeOK
  <2>2. DescriptorsDiffer'
    BY <2>1 DEF DescriptorsDiffer, Free, TypeOK
  <2>3. ASSUME NEW o \in Object, o # p PROVE GoesOn(o)'
    <3>1. Holds(o) => /\ handle[o] \in Number /\ handle[o] # handle[p]
                      /\ descriptor[handle[o]] \in Entity /\ descriptor[handle[o]] # e
      BY <2>1, <2>3, SocketsDiffer, ZenonT(60) DEF TypeOK, Free
    <3>2. Holds(o) => /\ descriptor'[handle[o]] = descriptor[handle[o]]
                      /\ phase'[descriptor[handle[o]]] = phase[descriptor[handle[o]]]
                      /\ bound'[descriptor[handle[o]]] = bound[descriptor[handle[o]]]
      BY <2>1, <3>1 DEF TypeOK
    <3> QED BY <1>1, <2>3, <3>2, OthersGoOn
  <2> QED BY <1>2, <2>2, <2>3
<1> QED BY <1>3, <1>4 DEF CloseDescriptor

LEMMA OpenStep ==
  ASSUME OpenInv, [Next]_vars
  PROVE  DescriptorsDiffer' /\ \A o \in Object : GoesOn(o)'
<1> USE HandlesAssumption DEF OpenInv
<1> DEFINE Right == DescriptorsDiffer' /\ \A o \in Object : GoesOn(o)'
<1>1. UNCHANGED <<descriptor, phase>> => DescriptorsDiffer'
  BY DEF DescriptorsDiffer, Free
<1>2. ASSUME NEW p \in Object, NEW r \in Request, Open(p, r) \/ OpenRefused(p, r)
      PROVE  Right
  <2>1. /\ UNCHANGED <<kernelVars, handle>> /\ pc'[p] \in {"socket", "idle"}
        /\ result'[p] # "true"
        /\ \A o \in Object \ {p} : pc'[o] = pc[o] /\ result'[o] = result[o] /\ req'[o] = req[o]
    BY <1>2 DEF Open, OpenRefused, Returns, Goto, IndInv, TypeOK
  <2>2. GoesOn(p)'
    BY <2>1 DEF GoesOn
  <2>3. \A o \in Object \ {p} : GoesOn(o)'
    BY <2>1, OthersGoOn DEF kernelVars
  <2> QED BY <1>1, <2>1, <2>2, <2>3 DEF kernelVars
<1>3. ASSUME NEW p \in Object, SocketSucceeds(p) PROVE Right
  <2>1. /\ pc[p] = "socket" /\ Creates(p, "new") /\ ~ IsValid(p) /\ UNCHANGED req
        /\ \A o \in Object \ {p} : pc'[o] = pc[o] /\ result'[o] = result[o]
    BY <1>3 DEF SocketSucceeds, Goto, IndInv, CreatesOnce, TypeOK
  <2>2. /\ DescriptorsDiffer' /\ \A o \in Object \ {p} : GoesOn(o)'
        /\ handle'[p] \in Number /\ phase'[descriptor'[handle'[p]]] = "new"
    BY <2>1, CreatesGoOn DEF Phase
  <2>3. /\ pc'[p] = NextCall(req[p].attempt)
        /\ result'[p] = "true" => req[p].attempt = "OPEN_ONLY"
    BY <1>3 DEF SocketSucceeds, Goto, IndInv, TypeOK
  <2>4. Holds(p)'
    BY <2>2, <2>3 DEF Holds, IsValid, NextCall
  <2>5. req[p].attempt = "OPEN_ONLY" => IsAsAsked(descriptor[handle[p]], req[p])'
    BY <2>1, <2>2 DEF IsAsAsked, NextCall
  <2>6. GoesOn(p)'
    BY <2>1, <2>3, <2>4, <2>5 DEF GoesOn, NextCall, IndInv, TypeOK, Request, OpenAttempt
  <2> QED BY <2>2, <2>6
<1>4. ASSUME NEW p \in Object, SocketFails(p) \/ AttemptFails(p) PROVE Right
  <2>1. /\ UNCHANGED <<kernelVars, req>> /\ pc'[p] = "idle" /\ result'[p] = "false"
        /\ \A o \in Object \ {p} : /\ pc'[o] = pc[o] /\ result'[o] = result[o]
                                   /\ handle'[o] = handle[o]
    BY <1>4 DEF SocketFails, AttemptFails, Returns, Goto, IndInv, TypeOK
  <2>2. GoesOn(p)'
    BY <2>1 DEF GoesOn
  <2>3. \A o \in Object \ {p} : GoesOn(o)'
    BY <2>1, OthersGoOn DEF kernelVars
  <2> QED BY <1>1, <2>1, <2>2, <2>3 DEF kernelVars
<1>5. ASSUME NEW p \in Object, CloseReturns(p) PROVE Right
  <2>1. /\ UNCHANGED <<kernelVars, req, result>> /\ pc[p] = "reset" /\ pc'[p] = "idle"
        /\ \A o \in Object \ {p} : pc'[o] = pc[o] /\ handle'[o] = handle[o]
    BY <1>5 DEF CloseReturns, Goto, IndInv, TypeOK
  <2>2. result[p] # "true"
    BY <2>1 DEF GoesOn
  <2>3. GoesOn(p)'
    BY <2>1, <2>2 DEF GoesOn
  <2>4. \A o \in Object \ {p} : GoesOn(o)'
    BY <2>1, OthersGoOn DEF kernelVars
  <2> QED BY <1>1, <2>1, <2>3, <2>4 DEF kernelVars
<1>6. ASSUME NEW l \in Object, NEW p \in Object, AcceptSucceeds(l, p) PROVE Right
  <2>1. /\ Creates(p, "connected") /\ ~ IsValid(p) /\ UNCHANGED <<req, pc>>
        /\ pc[p] = "idle" /\ result'[p] = "none"
        /\ \A o \in Object \ {p} : pc'[o] = pc[o] /\ result'[o] = result[o]
    BY <1>6 DEF AcceptSucceeds, IndInv, TypeOK
  <2>2. DescriptorsDiffer' /\ \A o \in Object \ {p} : GoesOn(o)'
    BY <2>1, CreatesGoOn DEF Phase
  <2>3. GoesOn(p)'
    BY <2>1 DEF GoesOn
  <2> QED BY <2>2, <2>3
<1>7. ASSUME NEW q \in Object, NEW p \in Object, Swap(q, p) PROVE Right
  <2>1. /\ UNCHANGED <<kernelVars, pc, req>> /\ pc[q] = "idle" /\ pc[p] = "idle"
        /\ result'[q] = "none" /\ result'[p] = "none"
        /\ \A o \in Object \ {p, q} : result'[o] = result[o] /\ handle'[o] = handle[o]
    BY <1>7 DEF Swap, IndInv, TypeOK
  <2>2. GoesOn(p)' /\ GoesOn(q)'
    BY <2>1 DEF GoesOn
  <2>3. \A o \in Object \ {p, q} : GoesOn(o)'
    BY <2>1, OthersGoOn DEF kernelVars
  <2> QED BY <1>1, <2>1, <2>2, <2>3 DEF kernelVars
<1>8. CASE UNCHANGED vars
  <2>1. \A o \in Object : GoesOn(o)'
    BY <1>8, OthersGoOn DEF vars, kernelVars
  <2> QED BY <1>1, <1>8, <2>1 DEF vars, kernelVars
<1> QED BY <1>2, <1>3, <1>4, <1>5, <1>6, <1>7, <1>8, CallsGoOn, CloseGoesOn DEF Next

\* Open() returns true only with the socket in the state that was asked for, which
\* no other object disturbs although all share the numbers.
THEOREM OpenTellsTrue == Spec => []OpenTells
<1>1. Init => DescriptorsDiffer /\ \A o \in Object : GoesOn(o)
  BY DEF Init, DescriptorsDiffer, GoesOn, Free
<1>2. IndInv /\ DescriptorsDiffer /\ (\A o \in Object : GoesOn(o)) /\ [Next]_vars
        => (DescriptorsDiffer /\ \A o \in Object : GoesOn(o))'
  BY OpenStep DEF OpenInv
<1>3. IndInv /\ (\A o \in Object : GoesOn(o)) => OpenTells
  BY HandlesAssumption DEF OpenTells, GoesOn, IndInv, HandleIsMine
<1> QED BY <1>1, <1>2, <1>3, Inductive, PTL DEF Spec
=============================================================================
