---------------------------- MODULE SharedMemory ----------------------------
(***************************************************************************)
(* The POSIX build of smbb::SharedMemory (src/smbb/SharedMemory.cxx,       *)
(* lines 114-229): objects that create or open an entity by name and close *)
(* it again, over the part of the kernel they use.                         *)
(*                                                                         *)
(* An entity is an inode.  A key <<usingFile, name>> is an entry of one of *)
(* the two name spaces: the file system (open, unlink) and the POSIX shared*)
(* memory objects (shm_open, shm_unlink).  A step is one system call with  *)
(* the code around it, so the calls of different objects interleave        *)
(* between the unlink and the close of Close(), and between the open and   *)
(* the ftruncate of Load().  Each object is driven by one thread of a      *)
(* process of its own, which may crash between any two steps.              *)
(***************************************************************************)
EXTENDS Integers

CONSTANTS
  Object,       \* the SharedMemory objects
  Name,         \* the names and file names that callers pass
  Length,       \* strlen of each of them
  MaxFilename,  \* MAX_SHARED_MEMORY_FILENAME_SIZE, the size of _name
  Backing,      \* the name spaces in use: TRUE for files, FALSE for named memory
  Contested,    \* names that are also passed to Delete*() or adopted by a
                \* Create*() of size 0 with deleteOnClose
  Size,         \* the sizes that callers pass
  Passed,       \* the arguments of Load() that callers pass
  Inode,        \* the entities there can ever be: bounds the creations
  NoName,       \* a NULL argument
  NoKey,        \* an empty _name
  NoInode,      \* the handle -1, and a key that denotes nothing
  NoObject      \* the creator of an inode that is not created yet

ASSUME ConstantsAssumption ==
  /\ NoName \notin Name
  /\ NoKey \notin Backing \X Name
  /\ Backing \subseteq BOOLEAN
  /\ Backing # {}
  /\ NoInode \notin Inode
  /\ NoObject \notin Object
  /\ Contested \subseteq Name
  /\ Size \subseteq Int
  /\ Length \in [Name -> Nat]
  /\ MaxFilename \in Nat \ {0}

Key == Backing \X Name

LoadResult == {"LOAD_SUCCESS", "LOAD_FAILED_BAD_SIZE", "LOAD_FAILED_BAD_NAME",
               "LOAD_FAILED_TO_OPEN_FILE", "LOAD_FAILED_TO_RESIZE_FILE"}

\* The arguments of Load().  Open*() always passes size 0 and no
\* deleteOnClose, Create*() always passes readOnly = false.  Load() itself
\* never looks at "api".
OpenRequest ==
  [api : {"Open"}, usingFile : Backing, name : Name \cup {NoName},
   readOnly : BOOLEAN, size : {0}, deleteOnClose : {FALSE}]

CreateRequest ==
  [api : {"Create"}, usingFile : Backing, name : Name \cup {NoName},
   readOnly : {FALSE}, size : Size, deleteOnClose : BOOLEAN]

\* A call that opens whatever entity has the name and removes it on Close().
Adopts(r) == r.size = 0 /\ r.deleteOnClose

Request ==
  OpenRequest \cup
  {r \in CreateRequest : Adopts(r) => r.name \in Contested \cup {NoName}}

ASSUME PassedAssumption == Passed \subseteq Request

\* Mutant: the check of CopyFilename for both.
Fits_NoSlash(usesFile, n) == Length[n] < MaxFilename

\* CopyFilename keeps one byte of _name for the terminator, CopyName one more
\* for the leading '/'.
Fits(usesFile, n) ==
  IF usesFile THEN Length[n] < MaxFilename ELSE Length[n] < MaxFilename - 1

VARIABLES
  link,         \* kernel: the inode that each key denotes
  fileSize,     \* kernel: the length of each inode
  mode,         \* kernel: the open file of each handle is O_RDONLY, FALSE
                \* without a handle
  handle,       \* _handle, as the inode that it refers to
  own,          \* _usingFile and _name: the key that Close() will unlink
  readOnly,     \* _readOnly
  pc,           \* where the running operation is, or "idle"
  req,          \* the arguments of the running Load()
  result,       \* its result: "none" while Load() has not decided, "closed"
                \* for an object that is new or was closed explicitly
  last,         \* history: the function and the size that the last successful
                \* Load() was called for
  creator,      \* history: the object that created each inode
  autoDelete    \* history: the inodes that were created with deleteOnClose
                \* by an object whose process has not crashed since

kernelVars == <<link, fileSize>>
objectVars == <<mode, handle, own, readOnly, pc, req, result>>
historyVars == <<creator, autoDelete>>
vars == <<kernelVars, objectVars, historyVars, last>>

TypeOK ==
  /\ link \in [Key -> Inode \cup {NoInode}]
  /\ fileSize \in [Inode -> Nat]
  /\ mode \in [Object -> BOOLEAN]
  /\ handle \in [Object -> Inode \cup {NoInode}]
  /\ own \in [Object -> Key \cup {NoKey}]
  /\ readOnly \in [Object -> BOOLEAN]
  /\ pc \in [Object -> {"idle", "closing", "load", "resize"}]
  /\ req \in [Object -> Request]
  /\ result \in [Object -> LoadResult \cup {"none", "closed"}]
  /\ last \in [Object -> [api : {"Open", "Create"}, size : Nat]]
  /\ creator \in [Inode -> Object \cup {NoObject}]
  /\ autoDelete \in SUBSET Inode

NoRequest ==
  [api |-> "Open", usingFile |-> CHOOSE b \in Backing : TRUE,
   name |-> NoName, readOnly |-> FALSE, size |-> 0, deleteOnClose |-> FALSE]

NoLoad == [api |-> "Open", size |-> 0]

Init ==
  /\ link = [k \in Key |-> NoInode]
  /\ fileSize = [i \in Inode |-> 0]
  /\ mode = [o \in Object |-> FALSE]
  /\ handle = [o \in Object |-> NoInode]
  /\ own = [o \in Object |-> NoKey]
  /\ readOnly = [o \in Object |-> FALSE]
  /\ pc = [o \in Object |-> "idle"]
  /\ req = [o \in Object |-> NoRequest]
  /\ result = [o \in Object |-> "closed"]
  /\ last = [o \in Object |-> NoLoad]
  /\ creator = [i \in Inode |-> NoObject]
  /\ autoDelete = {}

Goto(o, label) == pc' = [pc EXCEPT ![o] = label]
Decides(o, res) == result' = [result EXCEPT ![o] = res]

\* An operation returns: its arguments are gone.
Returns(o) ==
  /\ Goto(o, "idle")
  /\ req' = [req EXCEPT ![o] = NoRequest]

\* Mutant: _readOnly is not set.
Succeeds_KeepsReadOnly(o) ==
  /\ Returns(o)
  /\ Decides(o, "LOAD_SUCCESS")
  /\ last' = [last EXCEPT ![o] = [api |-> req[o].api, size |-> req[o].size]]
  /\ UNCHANGED readOnly

Succeeds(o) ==
  /\ Returns(o)
  /\ Decides(o, "LOAD_SUCCESS")
  /\ readOnly' = [readOnly EXCEPT ![o] = req[o].readOnly]
  /\ last' = [last EXCEPT ![o] = [api |-> req[o].api, size |-> req[o].size]]

-----------------------------------------------------------------------------
\* Close(), called by the user, by the destructor, on entry to Load() and on
\* its failure paths: remove the name if _name is set, then close the handle.

Close(o) ==
  /\ pc[o] = "idle"
  /\ Decides(o, "closed")
  /\ Goto(o, "closing")
  /\ last' = [last EXCEPT ![o] = NoLoad]
  /\ UNCHANGED <<kernelVars, historyVars, mode, handle, own, readOnly, req>>

\* unlink(_name) or shm_unlink(_name) takes away whatever the key denotes now.
Unlink(o) ==
  /\ pc[o] = "closing"
  /\ own[o] # NoKey
  /\ link' = [link EXCEPT ![own[o]] = NoInode]
  /\ own' = [own EXCEPT ![o] = NoKey]
  /\ UNCHANGED <<historyVars, fileSize, mode, handle, readOnly, pc, req, result,
                 last>>

\* Mutant: a failed Load() is not told from one that has just begun.
CloseHandle_Continues(o) ==
  /\ pc[o] = "closing"
  /\ own[o] = NoKey
  /\ handle' = [handle EXCEPT ![o] = NoInode]
  /\ mode' = [mode EXCEPT ![o] = FALSE]
  /\ Goto(o, "load")
  /\ UNCHANGED <<kernelVars, historyVars, own, readOnly, req, result, last>>

CloseHandle(o) ==
  /\ pc[o] = "closing"
  /\ own[o] = NoKey
  /\ handle' = [handle EXCEPT ![o] = NoInode]
  /\ mode' = [mode EXCEPT ![o] = FALSE]
  /\ \/ result[o] = "none" /\ Goto(o, "load") /\ UNCHANGED req
     \/ result[o] # "none" /\ Returns(o)
  /\ UNCHANGED <<kernelVars, historyVars, own, readOnly, result, last>>

-----------------------------------------------------------------------------
\* Load(): CreateFileBacked, OpenFileBacked, CreateNamed and OpenNamed.

Load(o, r) ==
  /\ pc[o] = "idle"
  /\ req' = [req EXCEPT ![o] = r]
  /\ Decides(o, "none")
  /\ Goto(o, "closing")
  /\ last' = [last EXCEPT ![o] = NoLoad]
  /\ UNCHANGED <<kernelVars, historyVars, mode, handle, own, readOnly>>

BadSize(o) ==
  /\ pc[o] = "load"
  /\ req[o].size < 0
  /\ Decides(o, "LOAD_FAILED_BAD_SIZE")
  /\ Returns(o)
  /\ UNCHANGED <<kernelVars, historyVars, mode, handle, own, readOnly, last>>

GoodName(r) == r.name # NoName /\ Fits(r.usingFile, r.name)

BadName(o) ==
  /\ pc[o] = "load"
  /\ req[o].size >= 0
  /\ ~ GoodName(req[o])
  /\ Decides(o, "LOAD_FAILED_BAD_NAME")
  /\ Returns(o)
  /\ UNCHANGED <<kernelVars, historyVars, mode, handle, own, readOnly, last>>

\* Mutant: no check of the size.
Opening_AnySize(o) == pc[o] = "load" /\ GoodName(req[o])

\* The arguments are good, so Load() copies the name and calls open or shm_open.
Opening(o) ==
  /\ pc[o] = "load"
  /\ req[o].size >= 0
  /\ GoodName(req[o])

Target(o) == <<req[o].usingFile, req[o].name>>

\* Mutant: _name survives the call always.
KeepName_Always(o) == own' = [own EXCEPT ![o] = Target(o)]

\* _name survives the call only for deleteOnClose.
KeepName(o) ==
  own' = [own EXCEPT ![o] = IF req[o].deleteOnClose THEN Target(o) ELSE NoKey]

\* Mutant: the failure path leaves _name as KeepName does.
OpenFails_KeepsName(o) ==
  /\ Opening(o)
  /\ KeepName(o)
  /\ Decides(o, "LOAD_FAILED_TO_OPEN_FILE")
  /\ Goto(o, "closing")
  /\ UNCHANGED <<kernelVars, historyVars, mode, handle, readOnly, req, last>>

\* The key exists for O_CREAT|O_EXCL, is missing for a plain open, or the
\* kernel refuses for a reason of its own.
OpenFails(o) ==
  /\ Opening(o)
  /\ own' = [own EXCEPT ![o] = NoKey]
  /\ Decides(o, "LOAD_FAILED_TO_OPEN_FILE")
  /\ Goto(o, "closing")
  /\ UNCHANGED <<kernelVars, historyVars, mode, handle, readOnly, req, last>>

OpenCreates(o) ==
  /\ Opening(o)
  /\ req[o].size # 0
  /\ link[Target(o)] = NoInode
  /\ \E i \in Inode :
       /\ creator[i] = NoObject
       /\ link' = [link EXCEPT ![Target(o)] = i]
       /\ handle' = [handle EXCEPT ![o] = i]
       /\ creator' = [creator EXCEPT ![i] = o]
       /\ autoDelete' = IF req[o].deleteOnClose
                        THEN autoDelete \cup {i} ELSE autoDelete
  /\ mode' = [mode EXCEPT ![o] = req[o].readOnly]
  /\ KeepName(o)
  /\ Goto(o, "resize")
  /\ UNCHANGED <<fileSize, readOnly, req, result, last>>

\* Mutant: O_CREAT without O_EXCL.
OpenExisting_NotExclusive(o) ==
  /\ Opening(o)
  /\ link[Target(o)] # NoInode
  /\ handle' = [handle EXCEPT ![o] = link[Target(o)]]
  /\ mode' = [mode EXCEPT ![o] = req[o].readOnly]
  /\ KeepName(o)
  /\ Succeeds(o)
  /\ UNCHANGED <<kernelVars, historyVars>>

\* Mutant: O_CREAT|O_TRUNC, as one creates an ordinary file.
OpenExisting_Truncates(o) ==
  /\ Opening(o)
  /\ link[Target(o)] # NoInode
  /\ handle' = [handle EXCEPT ![o] = link[Target(o)]]
  /\ mode' = [mode EXCEPT ![o] = req[o].readOnly]
  /\ KeepName(o)
  /\ Succeeds(o)
  /\ fileSize' = IF req[o].size = 0 THEN fileSize
                 ELSE [fileSize EXCEPT ![link[Target(o)]] = 0]
  /\ UNCHANGED <<link, historyVars>>

OpenExisting(o) ==
  /\ Opening(o)
  /\ req[o].size = 0
  /\ link[Target(o)] # NoInode
  /\ handle' = [handle EXCEPT ![o] = link[Target(o)]]
  /\ mode' = [mode EXCEPT ![o] = req[o].readOnly]
  /\ KeepName(o)
  /\ Succeeds(o)
  /\ UNCHANGED <<kernelVars, historyVars>>

\* ftruncate(_handle, size)
ResizeSucceeds(o) ==
  /\ pc[o] = "resize"
  /\ fileSize' = [fileSize EXCEPT ![handle[o]] = req[o].size]
  /\ Succeeds(o)
  /\ UNCHANGED <<link, historyVars, mode, handle, own>>

\* Mutant: the failure path forgets to Close().
ResizeFails_NoClose(o) ==
  /\ pc[o] = "resize"
  /\ Decides(o, "LOAD_FAILED_TO_RESIZE_FILE")
  /\ Returns(o)
  /\ UNCHANGED <<kernelVars, historyVars, mode, handle, own, readOnly, last>>

ResizeFails(o) ==
  /\ pc[o] = "resize"
  /\ Decides(o, "LOAD_FAILED_TO_RESIZE_FILE")
  /\ Goto(o, "closing")
  /\ UNCHANGED <<kernelVars, historyVars, mode, handle, own, readOnly, req,
                 last>>

-----------------------------------------------------------------------------
\* DeleteFileBacked and DeleteNamed, when they return true.
Delete(usesFile, n) ==
  /\ usesFile \/ Fits(FALSE, n)
  /\ link[<<usesFile, n>>] # NoInode
  /\ link' = [link EXCEPT ![<<usesFile, n>>] = NoInode]
  /\ UNCHANGED <<fileSize, objectVars, historyVars, last>>

\* The process of o dies and starts again: the kernel closes its handle, no
\* destructor runs, and a new object is constructed.
Crash(o) ==
  /\ mode' = [mode EXCEPT ![o] = FALSE]
  /\ handle' = [handle EXCEPT ![o] = NoInode]
  /\ own' = [own EXCEPT ![o] = NoKey]
  /\ readOnly' = [readOnly EXCEPT ![o] = FALSE]
  /\ Returns(o)
  /\ Decides(o, "closed")
  /\ last' = [last EXCEPT ![o] = NoLoad]
  /\ autoDelete' = {i \in autoDelete : creator[i] # o}
  /\ UNCHANGED <<kernelVars, creator>>

\* The next system call of the operation that o is running.
Advance(o) ==
  \/ Unlink(o) \/ CloseHandle(o)
  \/ BadSize(o) \/ BadName(o)
  \/ OpenFails(o) \/ OpenCreates(o) \/ OpenExisting(o)
  \/ ResizeSucceeds(o) \/ ResizeFails(o)

Next ==
  \/ \E o \in Object : Close(o) \/ Advance(o) \/ Crash(o)
  \/ \E o \in Object, r \in Passed : Load(o, r)
  \/ \E usesFile \in Backing, n \in Contested : Delete(usesFile, n)

Spec == Init /\ [][Next]_vars

-----------------------------------------------------------------------------
\* Properties.

Uncontested(k) == k[2] \notin Contested

\* An uncontested name that an object will remove on Close() denotes the entity
\* that this very object created with deleteOnClose and still has open, so two
\* objects never own the same name.  (Load() sets _name before it knows whether
\* the name is its own, and has to clear it when the open fails.)
HeldNameIsOwn ==
  \A o \in Object, k \in Key :
    own[o] = k /\ Uncontested(k) =>
      /\ link[k] = handle[o]
      /\ handle[o] \in autoDelete
      /\ creator[handle[o]] = o

\* No deleteOnClose entity is forgotten: as long as it is linked under an
\* uncontested name, its creator still has it open and will remove that name.
\* This covers failed resizes, repeated Load() calls and the steps in between.
AutoDeleteHasOwner ==
  \A k \in Key :
    Uncontested(k) /\ link[k] \in autoDelete =>
      LET o == creator[link[k]]
      IN  o \in Object /\ own[o] = k /\ handle[o] = link[k]

DeleteOnCloseExact == HeldNameIsOwn /\ AutoDeleteHasOwner

\* A step that takes away an entity under an uncontested name is the Close() of
\* the object that created it with deleteOnClose: a Create*() that fails because
\* the name is taken never removes the entity of another object, and an entity
\* created without deleteOnClose outlives every object and every process.
OnlyOwnerRemoves ==
  [][\A k \in Key :
       Uncontested(k) /\ link[k] # NoInode /\ link'[k] # link[k] =>
         /\ link'[k] = NoInode
         /\ link[k] \in autoDelete
         /\ \E o \in Object :
              o = creator[link[k]] /\ pc[o] = "closing" /\ own[o] = k]_vars

\* Load() and Close() are all or nothing: an object at rest after anything but
\* LOAD_SUCCESS has no handle and no name left to remove, and after LOAD_SUCCESS
\* it has a handle whose open mode is what _readOnly says, which is what
\* SharedMemorySection::Map() will derive its protection from.
LoadIsAllOrNothing ==
  \A o \in Object :
    pc[o] = "idle" =>
      /\ result[o] # "none"
      /\ result[o] = "LOAD_SUCCESS" =>
           handle[o] # NoInode /\ readOnly[o] = mode[o]
      /\ result[o] # "LOAD_SUCCESS" =>
           handle[o] = NoInode /\ own[o] = NoKey

\* The name that Close() removes is the one the caller passed: it fits in _name
\* with its terminator, and with the leading '/' that shm_open wants.
HeldNameFits ==
  \A o \in Object :
    own[o] # NoKey =>
      Length[own[o][2]] + 1 + (IF own[o][1] THEN 0 ELSE 1) <= MaxFilename

\* Create*() with a size is exclusive: the memory it returns was created by this
\* call and has the requested size, whatever the other objects do meanwhile.
CreateIsExclusive ==
  \A o \in Object :
    pc[o] = "idle" /\ result[o] = "LOAD_SUCCESS" /\ last[o].size # 0 =>
      creator[handle[o]] = o /\ fileSize[handle[o]] = last[o].size

\* What a running operation has before it, counted in steps: Close() removes the
\* name if there is one and closes the handle, Load() does so before it opens,
\* and again when the open or the resize fails.
Remaining(o) ==
  LET closes == IF own[o] = NoKey THEN 1 ELSE 2
  IN  CASE pc[o] = "idle" -> 0
        [] pc[o] = "closing" /\ result[o] # "none" -> closes
        [] pc[o] = "resize" -> 3
        [] pc[o] = "load" -> 4
        [] pc[o] = "closing" /\ result[o] = "none" -> 4 + closes

\* No step sends an operation back, its own or another object's, a crash or a
\* Delete*(): a step that changes where the operation of o is brings it nearer
\* to its return, so the failure paths of Load() do not repeat.
CallsGetNearer ==
  [][\A o \in Object :
       pc[o] # "idle" =>
         \/ UNCHANGED <<pc[o], own[o], result[o]>>
         \/ Remaining(o)' < Remaining(o)]_vars

\* What the properties above rest on.  Where Load() is says what it has already
\* done, and an inode that nobody created is nowhere.

CallState ==
  \A o \in Object :
    /\ pc[o] \in {"load", "resize"} => result[o] = "none"
    /\ pc[o] = "load" => handle[o] = NoInode /\ own[o] = NoKey
    /\ pc[o] = "resize" =>
         /\ req[o].size > 0
         /\ handle[o] # NoInode
         /\ creator[handle[o]] = o
         /\ mode[o] = req[o].readOnly
    /\ result[o] = "LOAD_SUCCESS" => pc[o] = "idle"

LinkedIsCreated ==
  /\ \A k \in Key : link[k] # NoInode => creator[link[k]] # NoObject
  /\ \A i \in autoDelete : creator[i] # NoObject

\* The inductive invariant: every step preserves it, and it implies each of
\* the invariants above.
IndInv ==
  /\ TypeOK
  /\ CallState
  /\ LinkedIsCreated
  /\ HeldNameIsOwn
  /\ AutoDeleteHasOwner
  /\ LoadIsAllOrNothing
  /\ CreateIsExclusive
=============================================================================
