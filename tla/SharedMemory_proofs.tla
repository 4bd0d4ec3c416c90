------------------------ MODULE SharedMemory_proofs ------------------------
(***************************************************************************)
(* Proofs about SharedMemory and, after them, about SharedMemorySection,   *)
(* for every set of objects, sections, names, sizes, offsets and inodes.   *)
(***************************************************************************)
EXTENDS SharedMemorySection, TLAPS, WellFoundedInduction


\* The fields of a request have their types, and a Create*() of size 0 with
\* deleteOnClose is about a contested name.
LEMMA RequestFields ==
  ASSUME NEW r \in Request
  PROVE  /\ r.api \in {"Open", "Create"}
         /\ r.usingFile \in Backing
         /\ r.name \in Name \cup {NoName}
         /\ r.readOnly \in BOOLEAN
         /\ r.size \in Int
         /\ r.deleteOnClose \in BOOLEAN
         /\ r.size = 0 /\ r.deleteOnClose => r.name \in Contested \cup {NoName}
<1>1. CASE r \in OpenRequest
  <2>1. r.deleteOnClose \in {FALSE} /\ r.size \in {0} /\ r.api \in {"Open"}
    BY <1>1 DEF OpenRequest
  <2>2. ~ r.deleteOnClose
    BY <2>1
  <2>3. r.deleteOnClose \in BOOLEAN
    BY <2>1
  <2>4. /\ r.usingFile \in Backing
        /\ r.name \in Name \cup {NoName}
        /\ r.readOnly \in BOOLEAN
        /\ r.size \in Int
    BY <1>1 DEF OpenRequest
  <2> QED BY <2>1, <2>2, <2>3, <2>4
<1>2. CASE r \in CreateRequest /\ (Adopts(r) => r.name \in Contested \cup {NoName})
  <2>1. r.size \in Int
    BY <1>2, ConstantsAssumption DEF CreateRequest
  <2> QED BY <1>2, <2>1 DEF CreateRequest, Adopts
<1> QED BY <1>1, <1>2 DEF Request

LEMMA NoRequestType == NoRequest \in Request
<1>1. (CHOOSE b \in Backing : TRUE) \in Backing
  BY ConstantsAssumption
<1> QED BY <1>1 DEF NoRequest, Request, OpenRequest

LEMMA InitInd == Init => IndInv
<1> SUFFICES ASSUME Init PROVE IndInv
  OBVIOUS
<1>1. TypeOK
  BY NoRequestType, ConstantsAssumption
  DEF Init, TypeOK, Key, LoadResult, NoLoad
<1>2. CallState /\ LinkedIsCreated /\ LoadIsAllOrNothing /\ CreateIsExclusive
  BY ConstantsAssumption
  DEF Init, CallState, LinkedIsCreated, LoadIsAllOrNothing, CreateIsExclusive
<1>3. HeldNameIsOwn
  BY ConstantsAssumption DEF Init, HeldNameIsOwn, Key
<1>4. AutoDeleteHasOwner
  BY DEF Init, AutoDeleteHasOwner
<1> QED BY <1>1, <1>2, <1>3, <1>4 DEF IndInv

LEMMA CloseInd ==
  ASSUME IndInv, NEW o \in Object, Close(o)
  PROVE  IndInv'
<1> USE DEF IndInv
<1>1. TypeOK'
  BY ConstantsAssumption
  DEF Close, Decides, Goto, TypeOK, LoadResult, NoLoad, kernelVars, historyVars
<1>2. CallState'
  BY DEF Close, Decides, Goto, TypeOK, CallState, kernelVars, historyVars
<1>3. LinkedIsCreated'
  BY DEF Close, LinkedIsCreated, kernelVars, historyVars
<1>4. HeldNameIsOwn'
  BY DEF Close, HeldNameIsOwn, Uncontested, kernelVars, historyVars
<1>5. AutoDeleteHasOwner'
  BY DEF Close, AutoDeleteHasOwner, Uncontested, kernelVars, historyVars
<1>6. LoadIsAllOrNothing'
  BY DEF Close, Decides, Goto, TypeOK, LoadIsAllOrNothing
<1>7. CreateIsExclusive'
  BY DEF Close, Decides, Goto, NoLoad, TypeOK, CreateIsExclusive,
         kernelVars, historyVars
<1> QED BY <1>1, <1>2, <1>3, <1>4, <1>5, <1>6, <1>7

LEMMA UnlinkInd ==
  ASSUME IndInv, NEW o \in Object, Unlink(o)
  PROVE  IndInv'
<1> USE DEF IndInv
<1>1. TypeOK'
  BY DEF Unlink, TypeOK, historyVars
<1>2. CallState'
  BY DEF Unlink, TypeOK, CallState, historyVars
<1>3. LinkedIsCreated'
  BY DEF Unlink, TypeOK, LinkedIsCreated, historyVars
<1>4. HeldNameIsOwn'
  \* Nobody else holds the name that o removes: both would be its creator.
  <2> SUFFICES ASSUME NEW p \in Object, NEW k \in Key,
                      own'[p] = k, Uncontested(k)
               PROVE  /\ link'[k] = handle[p]
                      /\ handle[p] \in autoDelete
                      /\ creator[handle[p]] = p
    BY DEF Unlink, HeldNameIsOwn, Uncontested, historyVars
  <2>1. p # o /\ own[p] = k
    BY ConstantsAssumption DEF Unlink, TypeOK, Key
  <2>2. own[o] # k
    BY <2>1 DEF HeldNameIsOwn
  <2> QED BY <2>1, <2>2 DEF Unlink, TypeOK, HeldNameIsOwn
<1>5. AutoDeleteHasOwner'
  <2> SUFFICES ASSUME NEW k \in Key, Uncontested(k), link'[k] \in autoDelete
               PROVE  /\ creator[link'[k]] \in Object
                      /\ own'[creator[link'[k]]] = k
                      /\ handle[creator[link'[k]]] = link'[k]
    BY DEF Unlink, AutoDeleteHasOwner, Uncontested, historyVars
  <2>1. k # own[o] /\ link'[k] = link[k]
    BY ConstantsAssumption DEF Unlink, TypeOK
  <2> QED BY <2>1 DEF Unlink, TypeOK, AutoDeleteHasOwner
<1>6. LoadIsAllOrNothing'
  BY DEF Unlink, TypeOK, LoadIsAllOrNothing
<1>7. CreateIsExclusive'
  BY DEF Unlink, CreateIsExclusive, historyVars
<1> QED BY <1>1, <1>2, <1>3, <1>4, <1>5, <1>6, <1>7

LEMMA CloseHandleInd ==
  ASSUME IndInv, NEW o \in Object, CloseHandle(o)
  PROVE  IndInv'
<1> USE DEF IndInv
<1>1. TypeOK'
  BY NoRequestType, SMTT(30)
  DEF CloseHandle, Returns, Goto, TypeOK, kernelVars, historyVars
<1>2. CallState'
  BY ZenonT(60) DEF CloseHandle, Returns, Goto, TypeOK, CallState, kernelVars, historyVars
<1>3. LinkedIsCreated'
  BY DEF CloseHandle, LinkedIsCreated, kernelVars, historyVars
<1>4. HeldNameIsOwn'
  BY ConstantsAssumption
  DEF CloseHandle, TypeOK, HeldNameIsOwn, Uncontested, Key, kernelVars,
      historyVars
<1>5. AutoDeleteHasOwner'
  BY ConstantsAssumption
  DEF CloseHandle, TypeOK, AutoDeleteHasOwner, Uncontested, Key, kernelVars,
      historyVars
<1>6. LoadIsAllOrNothing'
  BY DEF CloseHandle, Returns, Goto, TypeOK, CallState, LoadIsAllOrNothing
<1>7. CreateIsExclusive'
  BY DEF CloseHandle, Returns, Goto, TypeOK, CallState, CreateIsExclusive,
         kernelVars, historyVars
<1> QED BY <1>1, <1>2, <1>3, <1>4, <1>5, <1>6, <1>7

LEMMA LoadInd ==
  ASSUME IndInv, NEW o \in Object, NEW r \in Request, Load(o, r)
  PROVE  IndInv'
<1> USE DEF IndInv
<1>1. TypeOK'
  BY DEF Load, Decides, Goto, TypeOK, NoLoad, kernelVars, historyVars
<1>2. CallState'
  BY DEF Load, Decides, Goto, TypeOK, CallState, kernelVars, historyVars
<1>3. LinkedIsCreated'
  BY DEF Load, LinkedIsCreated, kernelVars, historyVars
<1>4. HeldNameIsOwn'
  BY DEF Load, HeldNameIsOwn, Uncontested, kernelVars, historyVars
<1>5. AutoDeleteHasOwner'
  BY DEF Load, AutoDeleteHasOwner, Uncontested, kernelVars, historyVars
<1>6. LoadIsAllOrNothing'
  BY DEF Load, Decides, Goto, TypeOK, LoadIsAllOrNothing
<1>7. CreateIsExclusive'
  BY DEF Load, Decides, Goto, TypeOK, CreateIsExclusive, kernelVars, historyVars
<1> QED BY <1>1, <1>2, <1>3, <1>4, <1>5, <1>6, <1>7

\* Both refusals return from an object that is closed.
LEMMA BadArgumentInd ==
  ASSUME IndInv, NEW o \in Object, BadSize(o) \/ BadName(o)
  PROVE  IndInv'
<1> USE DEF IndInv
<1>0. /\ pc[o] = "load"
      /\ pc' = [pc EXCEPT ![o] = "idle"]
      /\ req' = [req EXCEPT ![o] = NoRequest]
      /\ \E res \in LoadResult \ {"LOAD_SUCCESS"} :
           result' = [result EXCEPT ![o] = res]
      /\ UNCHANGED <<link, fileSize, creator, autoDelete, mode, handle, own,
                     readOnly, last>>
  BY DEF BadSize, BadName, Decides, Returns, Goto, LoadResult, kernelVars,
         historyVars
<1> PICK res \in LoadResult \ {"LOAD_SUCCESS"} :
           result' = [result EXCEPT ![o] = res]
  BY <1>0
<1>1. TypeOK'
  BY <1>0, NoRequestType DEF TypeOK
<1>2. CallState'
  BY <1>0 DEF TypeOK, CallState, LoadResult
<1>3. LinkedIsCreated'
  BY <1>0 DEF LinkedIsCreated
<1>4. HeldNameIsOwn'
  BY <1>0 DEF HeldNameIsOwn, Uncontested
<1>5. AutoDeleteHasOwner'
  BY <1>0 DEF AutoDeleteHasOwner, Uncontested
<1>6. LoadIsAllOrNothing'
  BY <1>0 DEF TypeOK, CallState, LoadIsAllOrNothing, LoadResult
<1>7. CreateIsExclusive'
  BY <1>0 DEF TypeOK, CreateIsExclusive, LoadResult
<1> QED BY <1>1, <1>2, <1>3, <1>4, <1>5, <1>6, <1>7

\* Where Load() opens the target: the name is good and the object still empty.
LEMMA OpeningFacts ==
  ASSUME IndInv, NEW o \in Object, Opening(o)
  PROVE  /\ pc[o] = "load"
         /\ result[o] = "none"
         /\ handle[o] = NoInode
         /\ own[o] = NoKey
         /\ req[o] \in Request
         /\ req[o].size \in Nat
         /\ Target(o) \in Key
         /\ NoKey \notin Key
         /\ req[o].api \in {"Open", "Create"}
         /\ req[o].readOnly \in BOOLEAN
         /\ req[o].size = 0 /\ req[o].deleteOnClose => ~ Uncontested(Target(o))
<1>1. pc[o] = "load" /\ req[o].size >= 0 /\ GoodName(req[o])
  BY DEF Opening
<1>2. result[o] = "none" /\ handle[o] = NoInode /\ own[o] = NoKey
  BY <1>1 DEF IndInv, CallState
<1>3. req[o] \in Request
  BY DEF IndInv, TypeOK
<1>4. /\ req[o].size \in Nat
      /\ req[o].name \in Name
      /\ req[o].usingFile \in Backing
      /\ req[o].readOnly \in BOOLEAN
      /\ req[o].api \in {"Open", "Create"}
  BY <1>1, <1>3, RequestFields DEF GoodName
<1>5. req[o].size = 0 /\ req[o].deleteOnClose => req[o].name \in Contested
  BY <1>3, <1>4, RequestFields, ConstantsAssumption
<1>6. Target(o) \in Key /\ NoKey \notin Key
  BY <1>4, ConstantsAssumption DEF Target, Key
<1>7. Target(o)[2] = req[o].name
  BY DEF Target
<1> QED BY <1>1, <1>2, <1>3, <1>4, <1>5, <1>6, <1>7 DEF Uncontested

LEMMA OpenFailsInd ==
  ASSUME IndInv, NEW o \in Object, OpenFails(o)
  PROVE  IndInv'
<1> USE DEF IndInv
<1>0. Opening(o) /\ pc[o] = "load" /\ own[o] = NoKey /\ handle[o] = NoInode
  BY OpeningFacts DEF OpenFails
<1>1. TypeOK'
  BY DEF OpenFails, Decides, Goto, TypeOK, LoadResult, kernelVars, historyVars
<1>2. CallState'
  BY DEF OpenFails, Decides, Goto, TypeOK, CallState, kernelVars, historyVars
<1>3. LinkedIsCreated'
  BY DEF OpenFails, LinkedIsCreated, kernelVars, historyVars
<1>. own' = own
  BY <1>0 DEF OpenFails, TypeOK
<1>4. HeldNameIsOwn'
  BY DEF OpenFails, HeldNameIsOwn, Uncontested, kernelVars, historyVars
<1>5. AutoDeleteHasOwner'
  BY DEF OpenFails, AutoDeleteHasOwner, Uncontested, kernelVars, historyVars
<1>6. LoadIsAllOrNothing'
  BY DEF OpenFails, Decides, Goto, TypeOK, LoadIsAllOrNothing
<1>7. CreateIsExclusive'
  BY DEF OpenFails, Decides, Goto, TypeOK, CreateIsExclusive, kernelVars,
         historyVars
<1> QED BY <1>1, <1>2, <1>3, <1>4, <1>5, <1>6, <1>7

LEMMA ResizeFailsInd ==
  ASSUME IndInv, NEW o \in Object, ResizeFails(o)
  PROVE  IndInv'
<1> USE DEF IndInv
<1>1. TypeOK'
  BY DEF ResizeFails, Decides, Goto, TypeOK, LoadResult, kernelVars, historyVars
<1>2. CallState'
  BY DEF ResizeFails, Decides, Goto, TypeOK, CallState, kernelVars, historyVars
<1>3. LinkedIsCreated'
  BY DEF ResizeFails, LinkedIsCreated, kernelVars, historyVars
<1>4. HeldNameIsOwn'
  BY DEF ResizeFails, HeldNameIsOwn, Uncontested, kernelVars, historyVars
<1>5. AutoDeleteHasOwner'
  BY DEF ResizeFails, AutoDeleteHasOwner, Uncontested, kernelVars, historyVars
<1>6. LoadIsAllOrNothing'
  BY DEF ResizeFails, Decides, Goto, TypeOK, LoadIsAllOrNothing
<1>7. CreateIsExclusive'
  BY DEF ResizeFails, Decides, Goto, TypeOK, CreateIsExclusive, kernelVars,
         historyVars
<1> QED BY <1>1, <1>2, <1>3, <1>4, <1>5, <1>6, <1>7

LEMMA ResizeSucceedsInd ==
  ASSUME IndInv, NEW o \in Object, ResizeSucceeds(o)
  PROVE  IndInv'
<1> USE DEF IndInv
<1>0. /\ handle[o] \in Inode /\ handle[o] # NoInode
      /\ creator[handle[o]] = o /\ mode[o] = req[o].readOnly
      /\ req[o].size \in Nat /\ req[o].size > 0
      /\ req[o].api \in {"Open", "Create"} /\ req[o].readOnly \in BOOLEAN
  BY RequestFields DEF ResizeSucceeds, CallState, TypeOK
<1>1. TypeOK'
  BY <1>0, NoRequestType
  DEF ResizeSucceeds, Succeeds, Decides, Returns, Goto, TypeOK, LoadResult,
      historyVars
<1>2. CallState'
  BY DEF ResizeSucceeds, Succeeds, Decides, Returns, Goto, TypeOK, CallState,
         historyVars
<1>3. LinkedIsCreated'
  BY DEF ResizeSucceeds, LinkedIsCreated, historyVars
<1>4. HeldNameIsOwn'
  BY DEF ResizeSucceeds, HeldNameIsOwn, Uncontested, historyVars
<1>5. AutoDeleteHasOwner'
  BY DEF ResizeSucceeds, AutoDeleteHasOwner, Uncontested, historyVars
<1>6. LoadIsAllOrNothing'
  BY <1>0 DEF ResizeSucceeds, Succeeds, Decides, Returns, Goto, TypeOK,
              LoadIsAllOrNothing
<1>7. CreateIsExclusive'
  \* The inode that o resizes is its own, so nobody else counts on its size.
  <2> SUFFICES ASSUME NEW p \in Object, pc'[p] = "idle",
                      result'[p] = "LOAD_SUCCESS", last'[p].size # 0
               PROVE  /\ creator[handle[p]] = p
                      /\ fileSize'[handle[p]] = last'[p].size
    BY DEF ResizeSucceeds, CreateIsExclusive, historyVars
  <2>1. CASE p = o
    BY <1>0, <2>1 DEF ResizeSucceeds, Succeeds, TypeOK
  <2>2. CASE p # o
    <3>1. /\ creator[handle[p]] = p
          /\ fileSize[handle[p]] = last[p].size
          /\ last'[p] = last[p]
      BY <2>2 DEF ResizeSucceeds, Succeeds, Decides, Returns, Goto, TypeOK,
                  CreateIsExclusive
    <3>2. handle[p] # handle[o]
      BY <1>0, <2>2, <3>1
    <3> QED BY <3>1, <3>2 DEF ResizeSucceeds, TypeOK
  <2> QED BY <2>1, <2>2
<1> QED BY <1>1, <1>2, <1>3, <1>4, <1>5, <1>6, <1>7

LEMMA OpenExistingInd ==
  ASSUME IndInv, NEW o \in Object, OpenExisting(o)
  PROVE  IndInv'
<1> USE DEF IndInv
<1>0. /\ pc[o] = "load" /\ own[o] = NoKey /\ NoKey \notin Key
      /\ req[o] \in Request /\ req[o].size = 0
      /\ req[o].api \in {"Open", "Create"} /\ req[o].readOnly \in BOOLEAN
      /\ Target(o) \in Key
      /\ req[o].deleteOnClose => ~ Uncontested(Target(o))
  BY OpeningFacts DEF OpenExisting
<1>a. link[Target(o)] \in Inode
  BY <1>0 DEF OpenExisting, TypeOK
<1>1. TypeOK'
  BY <1>0, <1>a, NoRequestType
  DEF OpenExisting, KeepName, Succeeds, Decides, Returns, Goto, TypeOK,
      LoadResult, kernelVars, historyVars
<1>2. CallState'
  BY DEF OpenExisting, KeepName, Succeeds, Decides, Returns, Goto, TypeOK,
         CallState, kernelVars, historyVars
<1>3. LinkedIsCreated'
  BY DEF OpenExisting, LinkedIsCreated, kernelVars, historyVars
<1>b. UNCHANGED <<link, creator, autoDelete>>
  BY DEF OpenExisting, kernelVars, historyVars
<1>4. HeldNameIsOwn'
  \* o may adopt a contested name only.
  <2> SUFFICES ASSUME NEW p \in Object, NEW k \in Key,
                      own'[p] = k, Uncontested(k)
               PROVE  /\ link[k] = handle'[p]
                      /\ handle'[p] \in autoDelete
                      /\ creator[handle'[p]] = p
    BY <1>b DEF HeldNameIsOwn, Uncontested
  <2>1. p # o
    BY <1>0 DEF OpenExisting, KeepName, TypeOK
  <2> QED BY <2>1 DEF OpenExisting, KeepName, TypeOK, HeldNameIsOwn
<1>5. AutoDeleteHasOwner'
  \* What o creates and has to remove is not linked: o held no name.
  <2> SUFFICES ASSUME NEW k \in Key, Uncontested(k), link[k] \in autoDelete
               PROVE  /\ creator[link[k]] \in Object
                      /\ own'[creator[link[k]]] = k
                      /\ handle'[creator[link[k]]] = link[k]
    BY <1>b DEF AutoDeleteHasOwner, Uncontested
  <2> DEFINE p == creator[link[k]]
  <2>1. p \in Object /\ own[p] = k /\ handle[p] = link[k]
    BY DEF AutoDeleteHasOwner
  <2>2. p # o
    BY <1>0, <2>1
  <2> QED BY <2>1, <2>2 DEF OpenExisting, KeepName, TypeOK
<1>6. LoadIsAllOrNothing'
  BY <1>0, <1>a, ConstantsAssumption
  DEF OpenExisting, KeepName, Succeeds, Decides, Returns, Goto, TypeOK,
      LoadIsAllOrNothing
<1>7. CreateIsExclusive'
  BY <1>0 DEF OpenExisting, Succeeds, Decides, Returns, Goto, TypeOK,
              CreateIsExclusive, kernelVars, historyVars
<1> QED BY <1>1, <1>2, <1>3, <1>4, <1>5, <1>6, <1>7

LEMMA OpenCreatesInd ==
  ASSUME IndInv, NEW o \in Object, OpenCreates(o)
  PROVE  IndInv'
<1> USE DEF IndInv
<1>0. /\ Opening(o) /\ pc[o] = "load" /\ result[o] = "none"
      /\ own[o] = NoKey /\ NoKey \notin Key
      /\ Target(o) \in Key
      /\ req[o].size \in Nat /\ req[o].size > 0
      /\ req[o].readOnly \in BOOLEAN
  BY OpeningFacts DEF OpenCreates
<1> PICK i \in Inode :
       /\ creator[i] = NoObject
       /\ link' = [link EXCEPT ![Target(o)] = i]
       /\ handle' = [handle EXCEPT ![o] = i]
       /\ creator' = [creator EXCEPT ![i] = o]
       /\ autoDelete' = IF req[o].deleteOnClose
                        THEN autoDelete \cup {i} ELSE autoDelete
  BY DEF OpenCreates
<1>a. /\ i # NoInode /\ o # NoObject
      /\ link[Target(o)] = NoInode
      /\ \A k \in Key : link[k] # i
      /\ i \notin autoDelete
  BY ConstantsAssumption DEF OpenCreates, LinkedIsCreated
<1>b. /\ pc' = [pc EXCEPT ![o] = "resize"]
      /\ mode' = [mode EXCEPT ![o] = req[o].readOnly]
      /\ UNCHANGED <<fileSize, readOnly, req, result, last>>
  BY DEF OpenCreates, Goto
<1>c. /\ own'[o] \in {Target(o), NoKey}
      /\ own'[o] = Target(o) => req[o].deleteOnClose
      /\ req[o].deleteOnClose => own'[o] = Target(o)
      /\ \A p \in Object \ {o} : own'[p] = own[p]
      /\ own' \in [Object -> Key \cup {NoKey}]
  BY <1>0 DEF OpenCreates, KeepName, TypeOK
<1>1. TypeOK'
  BY <1>0, <1>b, <1>c DEF TypeOK
<1>2. CallState'
  <2> SUFFICES ASSUME NEW p \in Object
               PROVE  /\ pc'[p] \in {"load", "resize"} => result'[p] = "none"
                      /\ pc'[p] = "load" => handle'[p] = NoInode /\ own'[p] = NoKey
                      /\ pc'[p] = "resize" =>
                           /\ req'[p].size > 0
                           /\ handle'[p] # NoInode
                           /\ creator'[handle'[p]] = p
                           /\ mode'[p] = req'[p].readOnly
                      /\ result'[p] = "LOAD_SUCCESS" => pc'[p] = "idle"
    BY DEF CallState
  <2>1. CASE p = o
    BY <1>0, <1>a, <1>b, <2>1 DEF TypeOK
  <2>2. CASE p # o
    <3>1. pc[p] = "resize" => handle[p] \in Inode \ {i}
      BY <1>a, ConstantsAssumption DEF TypeOK, CallState
    <3> QED BY <1>b, <1>c, <2>2, <3>1 DEF TypeOK, CallState
  <2> QED BY <2>1, <2>2
<1>3. LinkedIsCreated'
  BY <1>a DEF TypeOK, LinkedIsCreated
<1>4. HeldNameIsOwn'
  <2> SUFFICES ASSUME NEW p \in Object, NEW k \in Key,
                      own'[p] = k, Uncontested(k)
               PROVE  /\ link'[k] = handle'[p]
                      /\ handle'[p] \in autoDelete'
                      /\ creator'[handle'[p]] = p
    BY DEF HeldNameIsOwn, Uncontested
  <2>1. CASE p = o
    BY <1>0, <1>c, <2>1 DEF TypeOK
  <2>2. CASE p # o
    \* The name that p holds is linked, so it is not the one o has created.
    <3>1. link[k] = handle[p] /\ handle[p] \in autoDelete /\ creator[handle[p]] = p
      BY <1>c, <2>2 DEF HeldNameIsOwn
    <3>2. k # Target(o) /\ handle[p] # i
      BY <1>a, <3>1, ConstantsAssumption DEF TypeOK
    <3> QED BY <2>2, <3>1, <3>2 DEF TypeOK
  <2> QED BY <2>1, <2>2
<1>5. AutoDeleteHasOwner'
  <2> SUFFICES ASSUME NEW k \in Key, Uncontested(k), link'[k] \in autoDelete'
               PROVE  /\ creator'[link'[k]] \in Object
                      /\ own'[creator'[link'[k]]] = k
                      /\ handle'[creator'[link'[k]]] = link'[k]
    BY DEF AutoDeleteHasOwner, Uncontested
  <2>1. CASE k = Target(o)
    <3>1. link'[k] = i /\ creator'[i] = o /\ handle'[o] = i
      BY <2>1 DEF TypeOK
    <3>2. i \notin autoDelete
      BY <1>a
    <3> QED BY <1>c, <2>1, <3>1, <3>2
  <2>2. CASE k # Target(o)
    <3>1. link'[k] = link[k] /\ link[k] # i /\ link[k] \in autoDelete
      BY <1>a, <2>2 DEF TypeOK
    <3>2. /\ creator[link[k]] \in Object
          /\ own[creator[link[k]]] = k
          /\ handle[creator[link[k]]] = link[k]
      BY <3>1 DEF AutoDeleteHasOwner
    <3>3. creator[link[k]] # o
      BY <1>0, <3>2
    <3> QED BY <1>c, <3>1, <3>2, <3>3 DEF TypeOK
  <2> QED BY <2>1, <2>2
<1>6. LoadIsAllOrNothing'
  BY <1>b, <1>c DEF TypeOK, LoadIsAllOrNothing
<1>7. CreateIsExclusive'
  BY <1>a, <1>b, ConstantsAssumption DEF TypeOK, CreateIsExclusive
<1> QED BY <1>1, <1>2, <1>3, <1>4, <1>5, <1>6, <1>7

LEMMA DeleteInd ==
  ASSUME IndInv, NEW usesFile \in Backing, NEW n \in Contested,
         Delete(usesFile, n)
  PROVE  IndInv'
<1> USE DEF IndInv
<1>0. /\ link' = [link EXCEPT ![<<usesFile, n>>] = NoInode]
      /\ ~ Uncontested(<<usesFile, n>>)
      /\ UNCHANGED <<fileSize, mode, handle, own, readOnly, pc, req, result,
                     creator, autoDelete, last>>
  BY DEF Delete, Uncontested, objectVars, historyVars
<1>1. TypeOK'
  BY <1>0 DEF TypeOK
<1>2. CallState'
  BY <1>0 DEF CallState
<1>3. LinkedIsCreated'
  BY <1>0 DEF TypeOK, LinkedIsCreated
<1>4. HeldNameIsOwn'
  BY <1>0 DEF TypeOK, HeldNameIsOwn, Uncontested
<1>5. AutoDeleteHasOwner'
  BY <1>0 DEF TypeOK, AutoDeleteHasOwner, Uncontested
<1>6. LoadIsAllOrNothing'
  BY <1>0 DEF LoadIsAllOrNothing
<1>7. CreateIsExclusive'
  BY <1>0 DEF CreateIsExclusive
<1> QED BY <1>1, <1>2, <1>3, <1>4, <1>5, <1>6, <1>7

LEMMA CrashInd ==
  ASSUME IndInv, NEW o \in Object, Crash(o)
  PROVE  IndInv'
<1> USE DEF IndInv
<1>0. /\ mode' = [mode EXCEPT ![o] = FALSE]
      /\ handle' = [handle EXCEPT ![o] = NoInode]
      /\ own' = [own EXCEPT ![o] = NoKey]
      /\ readOnly' = [readOnly EXCEPT ![o] = FALSE]
      /\ pc' = [pc EXCEPT ![o] = "idle"]
      /\ req' = [req EXCEPT ![o] = NoRequest]
      /\ result' = [result EXCEPT ![o] = "closed"]
      /\ last' = [last EXCEPT ![o] = NoLoad]
      /\ autoDelete' = {i \in autoDelete : creator[i] # o}
      /\ UNCHANGED <<link, fileSize, creator>>
      /\ NoKey \notin Key
  BY ConstantsAssumption
  DEF Crash, Returns, Goto, Decides, kernelVars, Key
<1>1. TypeOK'
  BY <1>0, NoRequestType DEF TypeOK, NoLoad
<1>2. CallState'
  BY <1>0 DEF TypeOK, CallState
<1>3. LinkedIsCreated'
  BY <1>0 DEF LinkedIsCreated
<1>4. HeldNameIsOwn'
  BY <1>0 DEF TypeOK, HeldNameIsOwn, Uncontested
<1>5. AutoDeleteHasOwner'
  BY <1>0 DEF TypeOK, AutoDeleteHasOwner, Uncontested
<1>6. LoadIsAllOrNothing'
  BY <1>0 DEF TypeOK, LoadIsAllOrNothing
<1>7. CreateIsExclusive'
  BY <1>0 DEF TypeOK, CreateIsExclusive
<1> QED BY <1>1, <1>2, <1>3, <1>4, <1>5, <1>6, <1>7

LEMMA StepInd == IndInv /\ [Next]_vars => IndInv'
<1> SUFFICES ASSUME IndInv, [Next]_vars PROVE IndInv'
  OBVIOUS
<1>1. CASE UNCHANGED vars
  BY <1>1
  DEF vars, kernelVars, objectVars, historyVars, IndInv, TypeOK, CallState,
      LinkedIsCreated, HeldNameIsOwn, AutoDeleteHasOwner, LoadIsAllOrNothing,
      CreateIsExclusive, Uncontested
<1>2. ASSUME NEW o \in Object, Close(o) \/ Advance(o) \/ Crash(o) PROVE IndInv'
  BY <1>2, CloseInd, UnlinkInd, CloseHandleInd, BadArgumentInd, OpenFailsInd,
     OpenCreatesInd, OpenExistingInd, ResizeSucceedsInd, ResizeFailsInd, CrashInd
  DEF Advance
<1>3. ASSUME NEW o \in Object, NEW r \in Request, Load(o, r) PROVE IndInv'
  BY <1>3, LoadInd
<1>4. ASSUME NEW usesFile \in Backing, NEW n \in Contested, Delete(usesFile, n)
      PROVE  IndInv'
  BY <1>4, DeleteInd
<1> QED BY <1>1, <1>2, <1>3, <1>4, PassedAssumption DEF Next

THEOREM Inductive == Spec => []IndInv
BY InitInd, StepInd, PTL DEF Spec

\* Type correctness.
THEOREM TypeCorrect == Spec => []TypeOK
<1>1. IndInv => TypeOK
  BY DEF IndInv
<1> QED BY <1>1, Inductive, PTL

\* deleteOnClose: what an object is going to remove is its own, and what has to
\* be removed is held by the object that will.
THEOREM DeleteOnClose == Spec => []DeleteOnCloseExact
<1>1. IndInv => DeleteOnCloseExact
  BY DEF IndInv, DeleteOnCloseExact
<1> QED BY <1>1, Inductive, PTL

\* Load() and Close() leave an object either open or empty.
THEOREM AllOrNothing == Spec => []LoadIsAllOrNothing
<1>1. IndInv => LoadIsAllOrNothing
  BY DEF IndInv
<1> QED BY <1>1, Inductive, PTL

\* Create*() with a size never shares what it returns with another creator.
THEOREM Exclusive == Spec => []CreateIsExclusive
<1>1. IndInv => CreateIsExclusive
  BY DEF IndInv
<1> QED BY <1>1, Inductive, PTL

\* The effect of a step on a link under an uncontested name.
LEMMA StepRemoves ==
  ASSUME IndInv, [Next]_vars, NEW k \in Key,
         Uncontested(k), link[k] # NoInode, link'[k] # link[k]
  PROVE  /\ link'[k] = NoInode
         /\ link[k] \in autoDelete
         /\ \E o \in Object :
              o = creator[link[k]] /\ pc[o] = "closing" /\ own[o] = k
<1>1. CASE \E o \in Object : Unlink(o)
  <2> PICK o \in Object : Unlink(o)
    BY <1>1
  <2>1. own[o] = k /\ link'[k] = NoInode /\ pc[o] = "closing"
    BY DEF Unlink, IndInv, TypeOK
  <2> QED BY <2>1 DEF IndInv, HeldNameIsOwn
<1>2. CASE \E o \in Object : OpenCreates(o)
  <2> PICK o \in Object : OpenCreates(o)
    BY <1>2
  <2>1. link[Target(o)] = NoInode
        /\ \E i \in Inode : link' = [link EXCEPT ![Target(o)] = i]
    BY DEF OpenCreates
  <2> QED BY <2>1 DEF IndInv, TypeOK
<1>3. CASE \E usesFile \in Backing, n \in Contested : Delete(usesFile, n)
  <2> PICK usesFile \in Backing, n \in Contested : Delete(usesFile, n)
    BY <1>3
  <2>1. k # <<usesFile, n>>
    BY DEF Uncontested
  <2> QED BY <2>1 DEF Delete, IndInv, TypeOK
<1>4. CASE UNCHANGED link
  BY <1>4
<1>5. \/ \E o \in Object : Unlink(o) \/ OpenCreates(o)
      \/ \E usesFile \in Backing, n \in Contested : Delete(usesFile, n)
      \/ UNCHANGED link
  BY DEF Next, Advance, Close, Crash, Load, CloseHandle, BadSize, BadName,
         OpenFails, OpenExisting, ResizeSucceeds, ResizeFails, vars, kernelVars
<1> QED BY <1>1, <1>2, <1>3, <1>4, <1>5

\* Nobody but the creator of a deleteOnClose entity takes it away from an
\* uncontested name, and everything else stays for ever.
THEOREM OwnerRemoves == Spec => OnlyOwnerRemoves
<1> DEFINE Removal(k) ==
      Uncontested(k) /\ link[k] # NoInode /\ link'[k] # link[k] =>
        /\ link'[k] = NoInode
        /\ link[k] \in autoDelete
        /\ \E o \in Object :
             o = creator[link[k]] /\ pc[o] = "closing" /\ own[o] = k
<1>1. IndInv /\ [Next]_vars => \A k \in Key : Removal(k)
  BY StepRemoves
<1>2. IndInv /\ [Next]_vars => [\A k \in Key : Removal(k)]_vars
  BY <1>1
<1> QED BY <1>2, Inductive, PTL DEF Spec, OnlyOwnerRemoves

\* A step of the operation itself always brings it nearer.
LEMMA AdvanceGetsNearer ==
  ASSUME IndInv, NEW o \in Object, Advance(o)
  PROVE  Remaining(o)' < Remaining(o)
<1>1. CASE Unlink(o)
  BY <1>1, ConstantsAssumption DEF Unlink, Remaining, IndInv, TypeOK
<1>2. CASE CloseHandle(o)
  BY <1>2 DEF CloseHandle, Returns, Goto, Remaining, IndInv, TypeOK
<1>3. CASE BadSize(o) \/ BadName(o)
  BY <1>3 DEF BadSize, BadName, Returns, Goto, Decides, Remaining, IndInv, TypeOK
<1>4. CASE OpenFails(o)
  BY <1>4 DEF OpenFails, Opening, Goto, Decides, Remaining, IndInv, TypeOK
<1>5. CASE OpenCreates(o)
  <2>1. pc[o] = "load" /\ pc' = [pc EXCEPT ![o] = "resize"]
    BY <1>5 DEF OpenCreates, Opening, Goto
  <2> QED BY <2>1 DEF Remaining, IndInv, TypeOK
<1>6. CASE OpenExisting(o)
  <2>1. pc[o] = "load" /\ pc' = [pc EXCEPT ![o] = "idle"]
    BY <1>6 DEF OpenExisting, Opening, Succeeds, Returns, Goto
  <2> QED BY <2>1 DEF Remaining, IndInv, TypeOK
<1>7. CASE ResizeSucceeds(o)
  <2>1. pc[o] = "resize" /\ pc' = [pc EXCEPT ![o] = "idle"]
    BY <1>7 DEF ResizeSucceeds, Succeeds, Returns, Goto
  <2> QED BY <2>1 DEF Remaining, IndInv, TypeOK
<1>8. CASE ResizeFails(o)
  BY <1>8 DEF ResizeFails, Goto, Decides, Remaining, IndInv, TypeOK
<1> QED BY <1>1, <1>2, <1>3, <1>4, <1>5, <1>6, <1>7, <1>8 DEF Advance

\* A step of another object leaves an operation where it is.
LEMMA OthersStay ==
  ASSUME IndInv, NEW o \in Object, NEW other \in Object, o # other,
         \/ Close(other) \/ Advance(other) \/ Crash(other)
         \/ \E r \in Passed : Load(other, r)
  PROVE  UNCHANGED <<pc[o], own[o], result[o]>>
<1>1. /\ \/ UNCHANGED pc
         \/ \E label : pc' = [pc EXCEPT ![other] = label]
      /\ \/ UNCHANGED own
         \/ \E k : own' = [own EXCEPT ![other] = k]
      /\ \/ UNCHANGED result
         \/ \E res : result' = [result EXCEPT ![other] = res]
  <2>1. CASE Close(other) \/ Crash(other) \/ \E r \in Passed : Load(other, r)
    BY <2>1 DEF Close, Crash, Load, Returns, Goto, Decides
  <2>2. CASE Unlink(other) \/ CloseHandle(other)
    BY <2>2 DEF Unlink, CloseHandle, Returns, Goto
  <2>3. CASE BadSize(other) \/ BadName(other) \/ OpenFails(other)
    BY <2>3 DEF BadSize, BadName, OpenFails, Returns, Goto, Decides
  <2>4. CASE OpenCreates(other) \/ OpenExisting(other)
    BY <2>4 DEF OpenCreates, OpenExisting, KeepName, Succeeds, Returns, Goto,
                Decides
  <2>5. CASE ResizeSucceeds(other) \/ ResizeFails(other)
    BY <2>5 DEF ResizeSucceeds, ResizeFails, Succeeds, Returns, Goto, Decides
  <2> QED BY <2>1, <2>2, <2>3, <2>4, <2>5 DEF Advance
<1> QED BY <1>1 DEF IndInv, TypeOK

\* No Load() or Close() goes on for ever, failure paths included: an operation
\* has at most six steps to go, and nothing ever adds one.
THEOREM CallsEnd == Spec => CallsGetNearer
<1> DEFINE Nearer(o) ==
      pc[o] # "idle" =>
        \/ UNCHANGED <<pc[o], own[o], result[o]>>
        \/ Remaining(o)' < Remaining(o)
<1>1. ASSUME IndInv, [Next]_vars, NEW o \in Object PROVE Nearer(o)
  <2> SUFFICES ASSUME pc[o] # "idle"
               PROVE  \/ UNCHANGED <<pc[o], own[o], result[o]>>
                      \/ Remaining(o)' < Remaining(o)
    OBVIOUS
  <2>1. CASE Advance(o)
    BY <1>1, <2>1, AdvanceGetsNearer
  <2>2. CASE Crash(o)
    <3>1. pc' = [pc EXCEPT ![o] = "idle"]
      BY <2>2 DEF Crash, Returns, Goto
    <3> QED BY <1>1, <3>1 DEF Remaining, IndInv, TypeOK
  <2>3. CASE Close(o) \/ \E r \in Passed : Load(o, r)
    BY <2>3 DEF Close, Load
  <2>4. ASSUME NEW other \in Object, o # other,
               \/ Close(other) \/ Advance(other) \/ Crash(other)
               \/ \E r \in Passed : Load(other, r)
        PROVE  UNCHANGED <<pc[o], own[o], result[o]>>
    BY <1>1, <2>4, OthersStay
  <2>5. CASE (\E usesFile \in Backing, n \in Contested : Delete(usesFile, n))
             \/ UNCHANGED vars
    BY <2>5 DEF Delete, vars, objectVars
  <2> QED BY <1>1, <2>1, <2>2, <2>3, <2>4, <2>5 DEF Next
<1>2. IndInv /\ [Next]_vars => [\A o \in Object : Nearer(o)]_vars
  BY <1>1
<1> QED BY <1>2, Inductive, PTL DEF Spec, CallsGetNearer

\* A name is copied only if it fits, so what Close() passes to unlink or
\* shm_unlink is a terminated copy of what the caller passed.
THEOREM NameFits == Spec => []HeldNameFits
<1> DEFINE FitsIn(k) ==
      Length[k[2]] + 1 + (IF k[1] THEN 0 ELSE 1) <= MaxFilename
<1>1. Init => HeldNameFits
  BY DEF Init, HeldNameFits
<1>2. ASSUME HeldNameFits, UNCHANGED own PROVE HeldNameFits'
  BY <1>2 DEF HeldNameFits
<1>3. ASSUME IndInv, HeldNameFits, NEW o \in Object, NEW k \in Key \cup {NoKey},
             own' = [own EXCEPT ![o] = k], k # NoKey => FitsIn(k)
      PROVE  HeldNameFits'
  BY <1>3 DEF IndInv, TypeOK, HeldNameFits
<1>4. ASSUME IndInv, NEW o \in Object, Opening(o) PROVE FitsIn(Target(o))
  <2>1. /\ req[o].name \in Name /\ Fits(req[o].usingFile, req[o].name)
        /\ req[o].usingFile \in BOOLEAN
    BY <1>4, RequestFields, ConstantsAssumption
    DEF Opening, GoodName, IndInv, TypeOK
  <2>2. Length[req[o].name] \in Nat /\ MaxFilename \in Nat
    BY <2>1, ConstantsAssumption
  <2> QED BY <2>1, <2>2 DEF Fits, Target
<1>5. ASSUME IndInv, HeldNameFits, [Next]_vars PROVE HeldNameFits'
  <2>1. CASE UNCHANGED own
    BY <1>2, <1>5, <2>1
  <2>2. CASE \E o \in Object : own' = [own EXCEPT ![o] = NoKey]
    BY <1>3, <1>5, <2>2
  <2>3. CASE \E o \in Object :
               Opening(o) /\ own' = [own EXCEPT ![o] = Target(o)]
    BY <1>3, <1>4, <1>5, <2>3, OpeningFacts
  <2>4. \/ UNCHANGED own
        \/ \E o \in Object : own' = [own EXCEPT ![o] = NoKey]
        \/ \E o \in Object : Opening(o) /\ own' = [own EXCEPT ![o] = Target(o)]
    BY <1>5 DEF Next, Advance, Close, Crash, Load, Delete, Unlink, CloseHandle,
                BadSize, BadName, OpenFails, OpenCreates, OpenExisting,
                KeepName, ResizeSucceeds, ResizeFails, vars, objectVars
  <2> QED BY <2>1, <2>2, <2>3, <2>4
<1> QED BY <1>1, <1>5, Inductive, PTL DEF Spec

-----------------------------------------------------------------------------
\* The arithmetic of map offsets.

\* Induction over the natural numbers, for a set.
LEMMA Induction ==
  ASSUME NEW S, 0 \in S, \A n \in Nat : n \in S => n + 1 \in S
  PROVE  Nat \subseteq S
<1> SUFFICES ASSUME Nat \ S # {} PROVE FALSE
  OBVIOUS
<1>1. PICK n \in Nat \ S : \A m \in Nat \ S : <<m, n>> \notin OpToRel(<, Nat)
  BY NatLessThanWellFounded, WFMin
<1>2. \A m \in Nat \ S : ~ (m < n)
  BY <1>1 DEF OpToRel
<1>3. n # 0 /\ n - 1 \in Nat
  OBVIOUS
<1>4. n - 1 \in S
  BY <1>2, <1>3
<1> QED BY <1>3, <1>4

\* f is what a recursion over the numbers up to end defines, in R.
Recurs(f, end, R, base, step) ==
  /\ f \in [0 .. end -> R] /\ f[0] = base
  /\ \A k \in 1 .. end : f[k] = step[k][f[k - 1]]

\* Such a recursion has a solution.
LEMMA Recursion ==
  ASSUME NEW end \in Nat, NEW R, NEW base \in R, NEW step \in [1 .. end -> [R -> R]]
  PROVE  \E f : Recurs(f, end, R, base, step)
<1> DEFINE Solves(f, n) == /\ f \in [0 .. n -> R] /\ f[0] = base
                           /\ \A k \in 1 .. n : f[k] = step[k][f[k - 1]]
           S == {n \in Nat : n <= end => \E f : Solves(f, n)}
<1>1. \E f : Solves(f, 0)
  <2> DEFINE f == [k \in 0 .. 0 |-> base]
  <2>1. Solves(f, 0)
    OBVIOUS
  <2> QED BY <2>1
<1>2. ASSUME NEW n \in Nat, n + 1 <= end, NEW f, Solves(f, n)
      PROVE  \E g : Solves(g, n + 1)
  <2> DEFINE g == [k \in 0 .. n + 1 |-> IF k = n + 1 THEN step[n + 1][f[n]] ELSE f[k]]
  <2>1. step[n + 1] \in [R -> R] /\ f[n] \in R
    BY <1>2
  <2>2. g \in [0 .. n + 1 -> R] /\ g[0] = base
    BY <1>2, <2>1
  <2>3. ASSUME NEW k \in 1 .. n + 1 PROVE g[k] = step[k][g[k - 1]]
    <3>1. CASE k = n + 1
      <4>1. g[k] = step[n + 1][f[n]] /\ g[k - 1] = f[n]
        BY <3>1
      <4> QED BY <3>1, <4>1
    <3>2. CASE k # n + 1
      <4>1. k \in 1 .. n /\ k \in 0 .. n + 1 /\ k - 1 \in 0 .. n + 1 /\ k - 1 # n + 1
        BY <3>2
      <4>2. g[k] = f[k] /\ g[k - 1] = f[k - 1]
        BY <3>2, <4>1
      <4> QED BY <1>2, <4>1, <4>2
    <3> QED BY <3>1, <3>2
  <2> HIDE DEF g
  <2>4. Solves(g, n + 1)
    BY <2>2, <2>3
  <2> HIDE DEF Solves
  <2> QED BY <2>4
<1> HIDE DEF Solves
<1>3. 0 \in S
  BY <1>1
<1>4. ASSUME NEW n \in Nat, n \in S PROVE n + 1 \in S
  BY <1>2, <1>4
<1>5. end \in S
  <2> HIDE DEF S
  <2> QED BY <1>3, <1>4, Induction
<1>6. PICK f : Solves(f, end)
  BY <1>5
<1> QED BY <1>6 DEF Solves, Recurs

\* The recursive definition of Power2 defines a function.
LEMMA Power2Defined ==
  /\ Power2 \in [0 .. OffsetBits -> Nat \ {0}]
  /\ Power2[0] = 1
  /\ \A k \in 1 .. OffsetBits : Power2[k] = 2 * Power2[k - 1]
<1> USE OffsetSizeAssumption
<1> DEFINE R == Nat \ {0}
           step == [k \in 1 .. OffsetBits |-> [r \in R |-> 2 * r]]
<1>1. step \in [1 .. OffsetBits -> [R -> R]] /\ 1 \in R
  OBVIOUS
<1>2. \A k \in 1 .. OffsetBits, r \in R : step[k][r] = 2 * r
  OBVIOUS
<1> HIDE DEF R, step
<1>3. PICK f : Recurs(f, OffsetBits, R, 1, step)
  BY <1>1, Recursion
<1>4. f = [k \in 0 .. OffsetBits |-> IF k = 0 THEN 1 ELSE 2 * f[k - 1]]
  BY <1>2, <1>3 DEF Recurs
<1>5. Power2 = [k \in 0 .. OffsetBits |-> IF k = 0 THEN 1 ELSE 2 * Power2[k - 1]]
  BY <1>4 DEF Power2
<1>6. Power2[0] = 1 /\ \A k \in 1 .. OffsetBits : Power2[k] = 2 * Power2[k - 1]
  BY <1>5
<1>7. ASSUME NEW k \in 0 .. OffsetBits PROVE Power2[k] \in R
  <2> DEFINE T == {n \in Nat : n <= OffsetBits => Power2[n] \in R}
  <2>1. 0 \in T
    BY <1>1, <1>6
  <2>2. ASSUME NEW n \in Nat, n \in T PROVE n + 1 \in T
    <3>1. n + 1 <= OffsetBits => Power2[n + 1] = 2 * Power2[(n + 1) - 1]
      BY <1>6
    <3>2. (n + 1) - 1 = n
      OBVIOUS
    <3> QED BY <2>2, <3>1, <3>2 DEF R
  <2> HIDE DEF T
  <2>3. k \in Nat /\ k \in T
    BY <2>1, <2>2, Induction
  <2> QED BY <2>3 DEF T
<1> QED BY <1>5, <1>6, <1>7 DEF R
LEMMA Division ==
  ASSUME NEW d \in Nat \ {0}, NEW q \in Nat, NEW r \in 0 .. d - 1
  PROVE  ((d * q) + r) \div d = q /\ ((d * q) + r) % d = r
OBVIOUS

LEMMA Divided ==
  ASSUME NEW n \in Nat, NEW d \in Nat \ {0}
  PROVE  n \div d \in Nat /\ n % d \in 0 .. d - 1 /\ n = (d * (n \div d)) + (n % d)
OBVIOUS

\* A power divides those above it.
LEMMA PowersDivide ==
  ASSUME NEW k \in 0 .. OffsetBits, NEW j \in k .. OffsetBits
  PROVE  Power2[j] = Power2[k] * Power2[j - k]
<1> USE OffsetSizeAssumption
<1> DEFINE S == {n \in Nat : k + n <= OffsetBits => Power2[k + n] = Power2[k] * Power2[n]}
<1>1. 0 \in S
  BY Power2Defined
<1>2. ASSUME NEW n \in Nat, n \in S PROVE n + 1 \in S
  <2> SUFFICES ASSUME k + (n + 1) <= OffsetBits
               PROVE  Power2[k + (n + 1)] = Power2[k] * Power2[n + 1]
    OBVIOUS
  <2>1. Power2[k + (n + 1)] = 2 * Power2[k + n]
    <3>1. k + (n + 1) \in 1 .. OffsetBits /\ (k + (n + 1)) - 1 = k + n
      OBVIOUS
    <3> QED BY <3>1, Power2Defined
  <2>2. Power2[n + 1] = 2 * Power2[n]
    <3>1. n + 1 \in 1 .. OffsetBits /\ (n + 1) - 1 = n
      OBVIOUS
    <3> QED BY <3>1, Power2Defined
  <2>3. Power2[k + n] = Power2[k] * Power2[n]
    BY <1>2
  <2>4. Power2[k] \in Nat /\ Power2[n] \in Nat
    BY Power2Defined
  <2> QED BY <2>1, <2>2, <2>3, <2>4
<1> HIDE DEF S
<1>3. j - k \in Nat /\ j - k \in S
  BY <1>1, <1>2, Induction
<1>4. k + (j - k) = j
  OBVIOUS
<1> QED BY <1>3, <1>4 DEF S

\* The remainders of a number are made of its bits.
LEMMA LowBits ==
  ASSUME NEW n \in Nat, NEW k \in 0 .. OffsetBits - 1
  PROVE  n % Power2[k + 1] = (n % Power2[k]) + (Power2[k] * Bit(n, k))
<1> USE OffsetSizeAssumption
<1> DEFINE p == Power2[k]
           r == n % p
           h == (n \div p) \div 2
           b == (n \div p) % 2
<1>1. p \in Nat \ {0} /\ Power2[k + 1] = 2 * p
  <2>1. k + 1 \in 1 .. OffsetBits /\ (k + 1) - 1 = k
    OBVIOUS
  <2> QED BY <2>1, Power2Defined
<1>2. r \in 0 .. p - 1 /\ n \div p \in Nat /\ n = (p * (n \div p)) + r
  BY <1>1, Divided
<1>3. h \in Nat /\ b \in 0 .. 1 /\ n \div p = (2 * h) + b
  BY <1>2
<1> HIDE DEF p, r, h, b
<1>4. n = ((2 * p) * h) + ((p * b) + r)
  BY <1>1, <1>2, <1>3
<1>5. (p * b) + r \in 0 .. (2 * p) - 1
  <2>1. CASE b = 0
    BY <1>1, <1>2, <2>1
  <2>2. CASE b = 1
    BY <1>1, <1>2, <2>2
  <2> QED BY <1>3, <2>1, <2>2
<1>6. n % (2 * p) = (p * b) + r
  <2>1. 2 * p \in Nat \ {0}
    BY <1>1
  <2> QED BY <1>3, <1>4, <1>5, <2>1, Division
<1>7. (p * b) + r = r + (p * b)
  BY <1>1, <1>2, <1>3
<1> QED BY <1>1, <1>6, <1>7 DEF p, r, b, Bit

\* Numbers with the same bits are the same.
LEMMA SameBits ==
  ASSUME NEW m \in 0 .. Power2[OffsetBits] - 1, NEW n \in 0 .. Power2[OffsetBits] - 1,
         \A k \in 0 .. OffsetBits - 1 : Bit(m, k) = Bit(n, k)
  PROVE  m = n
<1> USE OffsetSizeAssumption
<1>0. Power2[OffsetBits] \in Nat \ {0} /\ m \in Nat /\ n \in Nat
  BY Power2Defined
<1> DEFINE S == {k \in Nat : k <= OffsetBits => m % Power2[k] = n % Power2[k]}
<1>1. 0 \in S
  BY <1>0, Power2Defined
<1>2. ASSUME NEW k \in Nat, k \in S PROVE k + 1 \in S
  <2>1. k + 1 <= OffsetBits => k \in 0 .. OffsetBits - 1
    OBVIOUS
  <2> QED BY <1>0, <1>2, <2>1, LowBits
<1> HIDE DEF S
<1>3. OffsetBits \in S
  BY <1>1, <1>2, Induction
<1>4. m % Power2[OffsetBits] = n % Power2[OffsetBits]
  BY <1>3 DEF S
<1> QED BY <1>0, <1>4

\* Clearing the bits of OffsetSize - 1 rounds down to a multiple of OffsetSize.
LEMMA MapOffsetRounds ==
  ASSUME NEW n \in Offset
  PROVE  GetMapOffset(n) = n - (n % OffsetSize)
<1> USE OffsetSizeAssumption
<1> DEFINE B == Power2[OffsetBits]
           m == n - (n % OffsetSize)
           mask == OffsetSize - 1
<1>0. PICK j \in 0 .. OffsetBits : OffsetSize = Power2[j]
  OBVIOUS
<1>1. OffsetSize \in Nat \ {0} /\ B \in Nat \ {0} /\ n \in Nat /\ n < B
  BY <1>0, Power2Defined
<1>2. /\ n % OffsetSize \in 0 .. OffsetSize - 1 /\ n \div OffsetSize \in Nat
      /\ n = (OffsetSize * (n \div OffsetSize)) + (n % OffsetSize)
  BY <1>1, Divided
<1>3. m = OffsetSize * (n \div OffsetSize) /\ m \in 0 .. B - 1
  <2> DEFINE q == n \div OffsetSize
             r == n % OffsetSize
  <2>1. q \in Nat /\ r \in 0 .. OffsetSize - 1 /\ n = (OffsetSize * q) + r /\ m = n - r
    BY <1>2
  <2> HIDE DEF m, q, r
  <2>2. OffsetSize * q \in Nat
    BY <1>1, <2>1
  <2>3. m = OffsetSize * q /\ m \in 0 .. B - 1
    BY <1>1, <2>1, <2>2
  <2> QED BY <2>3 DEF q
<1> HIDE DEF B, m
<1>4. ASSUME NEW k \in 0 .. OffsetBits - 1
      PROVE  Bit(m, k) = IF Bit(mask, k) = 1 THEN 0 ELSE Bit(n, k)
  <2> DEFINE p == Power2[k]
  <2>1. p \in Nat \ {0}
    BY Power2Defined
  <2>2. CASE k < j
    <3>1. j - k \in 1 .. OffsetBits
      BY <2>2
    <3> DEFINE e == Power2[(j - k) - 1]
    <3>2. e \in Nat \ {0} /\ Power2[j - k] = 2 * e
      BY <3>1, Power2Defined
    <3>3. OffsetSize = p * (2 * e)
      BY <1>0, <2>2, <3>2, PowersDivide
    <3> HIDE DEF e, p
    <3>4. Bit(mask, k) = 1
      <4>1. mask = (p * ((2 * e) - 1)) + (p - 1)
        BY <2>1, <3>2, <3>3
      <4>2. mask \div p = (2 * e) - 1
        <5>1. (2 * e) - 1 \in Nat /\ p - 1 \in 0 .. p - 1
          BY <2>1, <3>2
        <5> HIDE DEF mask
        <5> QED BY <2>1, <4>1, <5>1, Division, ZenonT(60)
      <4>3. ((2 * e) - 1) % 2 = 1
        BY <3>2
      <4> QED BY <4>2, <4>3 DEF Bit, p
    <3>5. Bit(m, k) = 0
      <4> DEFINE q == n \div OffsetSize
      <4>1. q \in Nat
        BY <1>2
      <4>2. m = (p * (2 * (e * q))) + 0
        <5> HIDE DEF q
        <5>1. m = OffsetSize * q
          BY <1>3 DEF q
        <5> QED BY <2>1, <3>2, <3>3, <4>1, <5>1
      <4> HIDE DEF q
      <4>3. e * q \in Nat
        BY <3>2, <4>1
      <4>4. m \div p = 2 * (e * q)
        <5>1. 2 * (e * q) \in Nat /\ 0 \in 0 .. p - 1
          BY <2>1, <4>3
        <5> QED BY <2>1, <4>2, <5>1, Division
      <4>5. (2 * (e * q)) % 2 = 0
        BY <4>3
      <4> QED BY <4>4, <4>5 DEF Bit, p
    <3> QED BY <3>4, <3>5
  <2>3. CASE j <= k
    <3> DEFINE e == Power2[k - j]
    <3>1. e \in Nat \ {0} /\ p = OffsetSize * e
      <4>1. j \in 0 .. OffsetBits /\ k \in j .. OffsetBits /\ k - j \in 0 .. OffsetBits
        BY <2>3
      <4>2. Power2[k] = Power2[j] * Power2[k - j]
        BY <4>1, PowersDivide
      <4> QED BY <1>0, <4>1, <4>2, Power2Defined
    <3> HIDE DEF e, p
    <3>2. Bit(mask, k) = 0
      <4>1. mask \in 0 .. p - 1
        BY <1>1, <3>1
      <4>2. mask = (p * 0) + mask
        BY <1>1, <2>1
      <4> HIDE DEF mask
      <4>3. mask \div p = 0
        BY <2>1, <4>1, <4>2, Division
      <4> QED BY <4>3 DEF Bit, p
    <3>3. Bit(m, k) = Bit(n, k)
      <4> DEFINE a == n \div p
                 b == n % p
                 f == b \div OffsetSize
                 g == b % OffsetSize
      <4>1. a \in Nat /\ b \in 0 .. p - 1 /\ n = (p * a) + b
        BY <1>1, <2>1, Divided
      <4> HIDE DEF a, b
      <4>2. f \in Nat /\ g \in 0 .. OffsetSize - 1 /\ b = (OffsetSize * f) + g
        <5>1. b \in Nat
          BY <2>1, <4>1
        <5> QED BY <1>1, <5>1, Divided
      <4> HIDE DEF f, g
      <4>3. n = (OffsetSize * ((e * a) + f)) + g
        BY <1>1, <3>1, <4>1, <4>2
      <4>4. (e * a) + f \in Nat
        BY <3>1, <4>1, <4>2
      <4>5. n \div OffsetSize = (e * a) + f
        BY <1>1, <4>2, <4>3, <4>4, Division
      <4>6. m = (p * a) + (OffsetSize * f)
        BY <1>1, <1>3, <3>1, <4>1, <4>2, <4>5
      <4>7. OffsetSize * f \in 0 .. p - 1
        <5>1. OffsetSize * f \in Nat
          BY <1>1, <4>2
        <5> QED BY <2>1, <4>1, <4>2, <5>1
      <4>8. m \div p = a
        BY <2>1, <4>1, <4>6, <4>7, Division
      <4> QED BY <4>8 DEF Bit, a, p
    <3> QED BY <3>2, <3>3
  <2> QED BY <2>2, <2>3
<1> DEFINE Matches(x) == \A k \in 0 .. OffsetBits - 1 :
                           Bit(x, k) = IF Bit(mask, k) = 1 THEN 0 ELSE Bit(n, k)
<1>5. m \in 0 .. B - 1 /\ Matches(m)
  BY <1>3, <1>4
<1>6. GetMapOffset(n) = CHOOSE x \in 0 .. B - 1 : Matches(x)
  BY DEF GetMapOffset, AndNot, B
<1> HIDE DEF Matches
<1>7. GetMapOffset(n) \in 0 .. B - 1 /\ Matches(GetMapOffset(n))
  BY <1>5, <1>6
<1> HIDE DEF GetMapOffset
<1>8. \A k \in 0 .. OffsetBits - 1 : Bit(GetMapOffset(n), k) = Bit(m, k)
  BY <1>5, <1>7 DEF Matches
<1>9. GetMapOffset(n) = m
  BY <1>5, <1>7, <1>8, SameBits DEF B
<1> QED BY <1>9 DEF m

LEMMA OffsetIsRounded ==
  ASSUME NEW n \in Offset
  PROVE  /\ OffsetSize \in Nat \ {0} /\ n \in Nat
         /\ n % OffsetSize \in 0 .. n
         /\ n % OffsetSize \in 0 .. OffsetSize - 1
         /\ (n - (n % OffsetSize)) % OffsetSize = 0
<1> USE OffsetSizeAssumption
<1> DEFINE q == n \div OffsetSize
           r == n % OffsetSize
<1>1. OffsetSize \in Nat \ {0} /\ n \in Nat
  BY Power2Defined
<1>2. q \in Nat /\ r \in 0 .. OffsetSize - 1 /\ n = (OffsetSize * q) + r
  BY <1>1, Divided
<1> HIDE DEF q, r
<1>3. OffsetSize * q \in Nat
  BY <1>1, <1>2
<1>4. r \in 0 .. n /\ n - r = (OffsetSize * q) + 0
  BY <1>1, <1>2, <1>3
<1>5. 0 \in 0 .. OffsetSize - 1
  BY <1>1
<1>6. ((OffsetSize * q) + 0) % OffsetSize = 0
  BY <1>1, <1>2, <1>5, Division
<1> QED BY <1>1, <1>2, <1>4, <1>6 DEF r

-----------------------------------------------------------------------------
\* SharedMemorySection.


LEMMA SectionFields ==
  ASSUME SectionTypeOK, NEW s \in Section, Live(s)
  PROVE  section[s] \in SectionState
BY DEF SectionTypeOK, Live

LEMMA NoSectionIsFine ==
  /\ NoSection \notin SectionState
  /\ NoSection.error \notin {"EACCES", "EINVAL"}
BY DEF NoSection, SectionState

LEMMA SectionInitInd == SectionInit => SectionInv
<1> SUFFICES ASSUME SectionInit PROVE SectionInv
  OBVIOUS
<1>1. IndInv
  BY InitInd DEF SectionInit
<1>2. SectionTypeOK /\ MapIsPermitted /\ SectionStaysBacked /\ RefusedIsUnaligned
  BY NoSectionIsFine
  DEF SectionInit, SectionTypeOK, MapIsPermitted, SectionStaysBacked,
      RefusedIsUnaligned, Live
<1>3. UnsizedIsEmpty
  BY DEF SectionInit, Init, UnsizedIsEmpty
<1> QED BY <1>1, <1>2, <1>3 DEF SectionInv

\* The sections are as before, or fewer: an entity that still has its size
\* stays behind the sections that show it.
LEMMA SectionsKept ==
  ASSUME SectionInv,
         \A s \in Section : section'[s] = section[s] \/ section'[s] = NoSection,
         section' \in [Section -> SectionState \cup {NoSection}],
         \A i \in Inode : fileSize'[i] = fileSize[i]
                          \/ (fileSize[i] = 0 /\ fileSize'[i] \in Nat)
  PROVE  /\ SectionTypeOK' /\ MapIsPermitted' /\ SectionStaysBacked'
         /\ RefusedIsUnaligned'
<1>1. SectionTypeOK'
  BY DEF SectionTypeOK
<1>2. MapIsPermitted'
  BY NoSectionIsFine DEF SectionInv, MapIsPermitted
<1>3. SectionStaysBacked'
  <2> SUFFICES ASSUME NEW s \in Section, Live(s)', section'[s].data # NoInode
               PROVE  section'[s].had <= fileSize'[section'[s].data]
    BY DEF SectionStaysBacked
  <2>1. section'[s] = section[s] /\ Live(s)
    BY DEF Live
  <2>2. section[s] \in SectionState
    BY <2>1, SectionFields DEF SectionInv
  <2>3. /\ section[s].had \in Nat /\ section[s].data \in Inode
        /\ section[s].had <= fileSize[section[s].data]
    BY <2>1, <2>2 DEF SectionState, SectionInv, SectionStaysBacked
  <2>4. fileSize[section[s].data] \in Nat
    BY <2>3 DEF SectionInv, IndInv, TypeOK
  <2> QED BY <2>1, <2>3, <2>4
<1>4. RefusedIsUnaligned'
  BY NoSectionIsFine DEF SectionInv, RefusedIsUnaligned
<1> QED BY <1>1, <1>2, <1>3, <1>4

\* The only step that changes a size is the ftruncate of a creator.
LEMMA SizesGrow ==
  ASSUME SectionInv, [Next]_vars
  PROVE  /\ UnsizedIsEmpty'
         /\ \A i \in Inode : fileSize'[i] = fileSize[i]
                             \/ (fileSize[i] = 0 /\ fileSize'[i] \in Nat)
<1> USE DEF SectionInv
<1> DEFINE Kept == \A i \in Inode : fileSize'[i] = fileSize[i]
                                    \/ (fileSize[i] = 0 /\ fileSize'[i] \in Nat)
<1>1. CASE \E o \in Object : ResizeSucceeds(o)
  <2> PICK o \in Object : ResizeSucceeds(o)
    BY <1>1
  <2>1. /\ pc[o] = "resize"
        /\ fileSize' = [fileSize EXCEPT ![handle[o]] = req[o].size]
        /\ UNCHANGED <<creator, handle>>
        /\ pc' = [pc EXCEPT ![o] = "idle"]
    BY DEF ResizeSucceeds, Succeeds, Returns, Goto, historyVars
  <2>2. /\ req[o].size > 0 /\ handle[o] \in Inode /\ creator[handle[o]] = o
        /\ fileSize[handle[o]] = 0
    BY <2>1 DEF IndInv, CallState, TypeOK, UnsizedIsEmpty
  <2>3. req[o].size \in Nat
    BY <2>2, RequestFields DEF IndInv, TypeOK
  <2>4. Kept
    BY <2>1, <2>2, <2>3 DEF IndInv, TypeOK
  <2>5. \A i \in Inode : creator'[i] = NoObject => fileSize'[i] = 0
    BY <2>1, <2>2, ConstantsAssumption DEF IndInv, TypeOK, UnsizedIsEmpty
  <2>6. ASSUME NEW p \in Object, pc'[p] = "resize" PROVE fileSize'[handle'[p]] = 0
    <3>1. p # o /\ pc[p] = "resize"
      BY <2>1, <2>6 DEF IndInv, TypeOK
    <3>2. creator[handle[p]] = p /\ handle[p] \in Inode
      BY <3>1 DEF IndInv, CallState, TypeOK
    <3> QED BY <2>1, <2>2, <3>1, <3>2 DEF IndInv, TypeOK, UnsizedIsEmpty
  <2> QED BY <2>4, <2>5, <2>6 DEF UnsizedIsEmpty
<1>2. CASE \E o \in Object : OpenCreates(o)
  <2> PICK o \in Object : OpenCreates(o)
    BY <1>2
  <2>1. PICK i \in Inode : /\ creator[i] = NoObject
                           /\ handle' = [handle EXCEPT ![o] = i]
                           /\ creator' = [creator EXCEPT ![i] = o]
    BY DEF OpenCreates
  <2>2. pc' = [pc EXCEPT ![o] = "resize"] /\ UNCHANGED fileSize
    BY DEF OpenCreates, Goto
  <2> QED BY <2>1, <2>2, ConstantsAssumption DEF IndInv, TypeOK, UnsizedIsEmpty
<1>3. CASE /\ UNCHANGED <<fileSize, creator>>
           /\ \A p \in Object :
                pc'[p] = "resize" => pc[p] = "resize" /\ handle'[p] = handle[p]
  BY <1>3 DEF UnsizedIsEmpty
<1>4. ASSUME NEW o \in Object, NEW l \in {"idle", "closing", "load"},
             pc' = [pc EXCEPT ![o] = l], UNCHANGED <<fileSize, creator>>,
             \A p \in Object \ {o} : handle'[p] = handle[p]
      PROVE  UnsizedIsEmpty' /\ Kept
  <2>1. \A p \in Object :
          pc'[p] = "resize" => pc[p] = "resize" /\ handle'[p] = handle[p]
    BY <1>4 DEF IndInv, TypeOK
  <2> QED BY <1>3, <1>4, <2>1
<1>5. CASE \E o \in Object : Close(o) \/ CloseHandle(o) \/ BadSize(o)
             \/ BadName(o) \/ OpenFails(o) \/ OpenExisting(o) \/ ResizeFails(o)
             \/ Crash(o) \/ \E r \in Passed : Load(o, r)
  <2> PICK o \in Object : Close(o) \/ CloseHandle(o) \/ BadSize(o)
             \/ BadName(o) \/ OpenFails(o) \/ OpenExisting(o) \/ ResizeFails(o)
             \/ Crash(o) \/ \E r \in Passed : Load(o, r)
    BY <1>5
  <2>1. UNCHANGED <<fileSize, creator>>
    BY DEF Close, CloseHandle, BadSize, BadName, OpenFails, OpenExisting,
           ResizeFails, Crash, Load, kernelVars, historyVars
  <2>2. \E l \in {"idle", "closing", "load"} : pc' = [pc EXCEPT ![o] = l]
    BY DEF Close, CloseHandle, BadSize, BadName, OpenFails, OpenExisting,
           ResizeFails, Crash, Load, Goto, Returns, Succeeds
  <2>3. UNCHANGED handle \/ \E i : handle' = [handle EXCEPT ![o] = i]
    BY DEF Close, CloseHandle, BadSize, BadName, OpenFails, OpenExisting,
           ResizeFails, Crash, Load
  <2>4. \A p \in Object \ {o} : handle'[p] = handle[p]
    BY <2>3 DEF IndInv, TypeOK
  <2> QED BY <1>4, <2>1, <2>2, <2>4
<1>6. CASE \/ \E o \in Object : Unlink(o)
           \/ \E usesFile \in Backing, n \in Contested : Delete(usesFile, n)
           \/ UNCHANGED vars
  BY <1>3, <1>6
  DEF Unlink, Delete, vars, kernelVars, objectVars, historyVars
<1> QED BY <1>1, <1>2, <1>5, <1>6 DEF Next, Advance

\* mmap is asked for what the handle allows, and backs a section only with an
\* entity that is there.
LEMMA MapInd ==
  ASSUME SectionInv, NEW s \in Section, NEW o \in Object, NEW size \in MapSize,
         NEW wanted \in Offset, NEW offset \in {wanted, GetMapOffset(wanted)},
         Map(s, o, size, wanted, offset)
  PROVE  SectionInv'
<1> USE DEF SectionInv
<1> DEFINE new == [data |-> NoInode, size |-> size, offset |-> offset,
                   readOnly |-> readOnly[o], by |-> o, wanted |-> wanted,
                   had |-> 0, error |-> "none"]
<1>1. UNCHANGED vars /\ pc[o] = "idle"
  BY DEF Map
<1>2. IndInv' /\ UnsizedIsEmpty'
  BY <1>1, StepInd, SizesGrow
<1>3. offset \in Nat
  <2>1. wanted \in Nat /\ wanted % OffsetSize \in 0 .. wanted
    BY OffsetIsRounded
  <2>2. GetMapOffset(wanted) = wanted - (wanted % OffsetSize)
    BY MapOffsetRounds
  <2> QED BY <2>1, <2>2
<1>4. new \in SectionState
  BY <1>3 DEF SectionState, IndInv, TypeOK
<1>5. Obstacle(o, new) # "EACCES"
  <2>1. handle[o] # NoInode => readOnly[o] = mode[o]
    BY <1>1 DEF IndInv, LoadIsAllOrNothing
  <2>2. new.readOnly = readOnly[o]
    OBVIOUS
  <2> HIDE DEF new
  <2>3. CASE handle[o] = NoInode
    BY <2>3 DEF Obstacle
  <2>4. CASE handle[o] # NoInode
    <3>1. ~ (~ new.readOnly /\ mode[o])
      BY <2>1, <2>2, <2>4
    <3> QED BY <3>1 DEF Obstacle
  <2> QED BY <2>3, <2>4
<1>6. CASE \E why \in {"none", "EBADF", "EINVAL", "ENOMEM"} :
             /\ why = "EINVAL" => offset % OffsetSize # 0
             /\ Refused(s, new, why)
  <2> PICK why \in {"none", "EBADF", "EINVAL", "ENOMEM"} :
             /\ why = "EINVAL" => offset % OffsetSize # 0
             /\ Refused(s, new, why)
    BY <1>6
  <2> DEFINE done == [new EXCEPT !.error = why]
  <2>1. /\ done \in SectionState /\ done.data = NoInode /\ done.error # "EACCES"
        /\ done.error = "EINVAL" => done.offset % OffsetSize # 0
    BY <1>4 DEF SectionState
  <2>2. section' = [section EXCEPT ![s] = done]
    BY DEF Refused
  <2> HIDE DEF done
  <2>3. SectionTypeOK' /\ MapIsPermitted' /\ RefusedIsUnaligned'
    BY <2>1, <2>2 DEF SectionTypeOK, MapIsPermitted, RefusedIsUnaligned
  <2>4. SectionStaysBacked'
    BY <1>1, <2>1, <2>2
    DEF SectionTypeOK, SectionStaysBacked, Live, vars, kernelVars
  <2> QED BY <1>2, <2>3, <2>4
<1>7. CASE Obstacle(o, new) = "none" /\ Mapped(s, new, handle[o])
  <2> DEFINE done == [new EXCEPT !.data = handle[o], !.had = fileSize[handle[o]]]
  <2>1. handle[o] \in Inode /\ fileSize[handle[o]] \in Nat
    BY <1>7 DEF Obstacle, IndInv, TypeOK
  <2>2. /\ done \in SectionState /\ done.error = "none" /\ done.data = handle[o]
        /\ done.had = fileSize[handle[o]]
    BY <1>4, <2>1 DEF SectionState
  <2>3. section' = [section EXCEPT ![s] = done]
    BY <1>7 DEF Mapped
  <2> HIDE DEF done
  <2>4. SectionTypeOK' /\ MapIsPermitted' /\ RefusedIsUnaligned'
    BY <2>2, <2>3 DEF SectionTypeOK, MapIsPermitted, RefusedIsUnaligned
  <2>5. SectionStaysBacked'
    BY <1>1, <2>1, <2>2, <2>3
    DEF SectionTypeOK, SectionStaysBacked, Live, vars, kernelVars
  <2> QED BY <1>2, <2>4, <2>5
<1>8. /\ Obstacle(o, new) \in {"none", "EBADF", "EINVAL", "EACCES"}
      /\ Obstacle(o, new) = "EINVAL" => offset % OffsetSize # 0
  BY DEF Obstacle
<1> HIDE DEF new
<1> QED BY <1>5, <1>6, <1>7, <1>8 DEF Map, new

LEMMA SectionStepInd == SectionInv /\ [SectionNext]_sectionVars => SectionInv'
<1> SUFFICES ASSUME SectionInv, [SectionNext]_sectionVars PROVE SectionInv'
  OBVIOUS
<1>1. ASSUME [Next]_vars,
             \A s \in Section : section'[s] = section[s] \/ section'[s] = NoSection,
             section' \in [Section -> SectionState \cup {NoSection}]
      PROVE  SectionInv'
  BY <1>1, StepInd, SizesGrow, SectionsKept DEF SectionInv
<1>2. CASE [Next]_vars /\ UNCHANGED section
  BY <1>1, <1>2 DEF SectionInv, SectionTypeOK
<1>3. CASE \E o \in Object : CrashUnmaps(o)
  <2>1. [Next]_vars
    BY <1>3 DEF CrashUnmaps, Next
  <2>2. section' \in [Section -> SectionState \cup {NoSection}]
    BY <1>3 DEF CrashUnmaps, SectionInv, SectionTypeOK
  <2>3. \A s \in Section : section'[s] = section[s] \/ section'[s] = NoSection
    BY <1>3 DEF CrashUnmaps
  <2> QED BY <1>1, <2>1, <2>2, <2>3
<1>4. CASE \E s \in Section : Unmap(s)
  <2>1. [Next]_vars
    BY <1>4 DEF Unmap
  <2>2. section' \in [Section -> SectionState \cup {NoSection}]
    BY <1>4 DEF Unmap, SectionInv, SectionTypeOK
  <2>3. \A s \in Section : section'[s] = section[s] \/ section'[s] = NoSection
    BY <1>4 DEF Unmap, SectionInv, SectionTypeOK
  <2> QED BY <1>1, <2>1, <2>2, <2>3
<1>5. CASE \E s \in Section, o \in Object, size \in MapSize, wanted \in Offset :
             \E offset \in {wanted, GetMapOffset(wanted)} :
               Map(s, o, size, wanted, offset)
  BY <1>5, MapInd
<1> QED BY <1>2, <1>3, <1>4, <1>5 DEF SectionNext, sectionVars, Next

\* The invariant of the sections and of the objects they are mapped from.
THEOREM SectionInductive == SectionSpec => []SectionInv
BY SectionInitInd, SectionStepInd, PTL DEF SectionSpec

\* Every section keeps its type.
THEOREM SectionTypeCorrect == SectionSpec => []SectionTypeOK
<1>1. SectionInv => SectionTypeOK
  BY DEF SectionInv
<1> QED BY <1>1, SectionInductive, PTL

\* No constructor asks for more than the mode of the handle allows.
THEOREM Permitted == SectionSpec => []MapIsPermitted
<1>1. SectionInv => MapIsPermitted
  BY DEF SectionInv
<1> QED BY <1>1, SectionInductive, PTL

\* Memory that a section showed when it was mapped does not go away under it.
THEOREM StaysBacked == SectionSpec => []SectionStaysBacked
<1>1. SectionInv => SectionStaysBacked
  BY DEF SectionInv
<1> QED BY <1>1, SectionInductive, PTL

\* A section at a rounded offset is aligned and has what the caller wanted in its
\* first page, whatever the page size and the width of an offset.
THEOREM MapOffsets == SectionSpec => []MapOffsetIsRight
<1>1. SectionInv => MapOffsetIsRight
  <2> SUFFICES ASSUME SectionInv, NEW s \in Section, Live(s),
                      section[s].offset = GetMapOffset(section[s].wanted)
               PROVE  /\ section[s].error # "EINVAL"
                      /\ section[s].wanted \in
                           section[s].offset .. section[s].offset + OffsetSize - 1
    BY DEF MapOffsetIsRight
  <2> DEFINE n == section[s].wanted
  <2>1. n \in Offset
    BY SectionFields DEF SectionInv, SectionState
  <2>2. section[s].offset = n - (n % OffsetSize)
    BY <2>1, MapOffsetRounds
  <2>3. section[s].error # "EINVAL"
    BY <2>1, <2>2, OffsetIsRounded DEF SectionInv, RefusedIsUnaligned
  <2> HIDE DEF n
  <2>4. n \in section[s].offset .. section[s].offset + OffsetSize - 1
    BY <2>1, <2>2, OffsetIsRounded
  <2> QED BY <2>3, <2>4 DEF n
<1> QED BY <1>1, SectionInductive, PTL

\* Sections only add to the objects: these behave as SharedMemory says.
THEOREM SectionsAddNothing == SectionSpec => Spec
<1>1. SectionInit => Init
  BY DEF SectionInit
<1>2. ASSUME [SectionNext]_sectionVars PROVE [Next]_vars
  <2>1. Next \/ UNCHANGED vars \/ \E o \in Object : CrashUnmaps(o)
    <3>1. (\E s \in Section, o \in Object, size \in MapSize, wanted \in Offset :
             \E offset \in {wanted, GetMapOffset(wanted)} :
               Map(s, o, size, wanted, offset)) => UNCHANGED vars
      BY DEF Map
    <3>2. (\E s \in Section : Unmap(s)) => UNCHANGED vars
      BY DEF Unmap
    <3> QED BY <1>2, <3>1, <3>2 DEF SectionNext, sectionVars, Next
  <2>2. (\E o \in Object : CrashUnmaps(o)) => Next
    BY DEF CrashUnmaps, Next
  <2> QED BY <2>1, <2>2
<1> QED BY <1>1, <1>2, PTL DEF SectionSpec, Spec
=============================================================================
