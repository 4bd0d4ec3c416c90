----------------------- MODULE MCSharedMemorySection ------------------------
(***************************************************************************)
(* The instance of SharedMemory and SharedMemorySection for TLC.           *)
(***************************************************************************)
EXTENDS SharedMemorySection, TLC

CONSTANTS
  o1, o2,        \* the objects
  plain,         \* an ordinary name
  edge,          \* as long as a file name may be, one too long for shm_open
  adopted        \* an ordinary name that Delete*() and others also remove

MCObject == {o1, o2}
MCMaxFilename == 4
MCLength == [n \in Name |-> IF n = edge THEN MCMaxFilename - 1 ELSE 1]
\* A .cfg file has no negative numbers.
MCSize == {-1, 0, 1}

Opens(usingFile, name, ro) ==
  [api |-> "Open", usingFile |-> usingFile, name |-> name, readOnly |-> ro,
   size |-> 0, deleteOnClose |-> FALSE]

Makes(usingFile, name, size, deleteOnClose) ==
  [api |-> "Create", usingFile |-> usingFile, name |-> name, readOnly |-> FALSE,
   size |-> size, deleteOnClose |-> deleteOnClose]

\* Everything there is to do with the first name; to open, create and adopt the
\* second; the longest name in both name spaces; and what Load() refuses.
MCPassed ==
  {Opens(FALSE, plain, TRUE)} \cup
  {Opens(FALSE, n, FALSE) : n \in {plain, adopted}} \cup
  {Makes(FALSE, plain, 1, d) : d \in BOOLEAN} \cup
  {Makes(FALSE, adopted, size, TRUE) : size \in {0, 1}} \cup
  {Makes(FALSE, plain, 0, FALSE),
   Opens(TRUE, edge, FALSE), Makes(TRUE, edge, 1, TRUE), Makes(FALSE, edge, 1, TRUE),
   Makes(FALSE, plain, -1, TRUE), Opens(FALSE, NoName, FALSE)}

-----------------------------------------------------------------------------
\* Bounds of the run: some states are followed only while other objects rest.

OthersRest(o) == \A other \in Object \ {o} : pc[other] = "idle"

IsNew(o) ==
  /\ pc[o] = "idle" /\ result[o] = "closed" /\ ~ readOnly[o]
  /\ handle[o] = NoInode

\* Load() refuses a bad argument without a system call.
IsRefused(o) ==
  \/ req[o].size < 0
  \/ req[o].name = NoName /\ result[o] = "none"
  \/ result[o] \in {"LOAD_FAILED_BAD_SIZE", "LOAD_FAILED_BAD_NAME"}

\* An object that a failed call has left closed differs from one that Close() has
\* left so in what it has told its caller,
HasFailed(o) ==
  /\ pc[o] = "idle"
  /\ result[o] \in {"LOAD_FAILED_TO_OPEN_FILE", "LOAD_FAILED_TO_RESIZE_FILE"}

\* and one that was read-only in a flag that the next Load() sets.
WasReadOnly(o) == readOnly[o] /\ result[o] # "LOAD_SUCCESS"

RefusedAlone ==
  \A o \in Object : IsRefused(o) \/ HasFailed(o) \/ WasReadOnly(o) => OthersRest(o)

\* A Create of size 0 that does not adopt differs from an Open in its name only.
Sizeless(r) == r.api = "Create" /\ r.size = 0

SizelessAlone ==
  \A o \in Object :
    \/ Sizeless(req[o]) /\ ~ req[o].deleteOnClose
    \/ Sizeless(last[o]) /\ own[o] = NoKey
    => OthersRest(o)

\* One object at a time uses the longest name, and its files only while nothing
\* else is there.
InUse(usingFile) == \E n \in Name : link[<<usingFile, n>>] # NoInode
UsesEdge(o) == req[o].name = edge \/ \E b \in Backing : own[o] = <<b, edge>>

EdgeAlone ==
  /\ \A o \in Object : UsesEdge(o) => \A other \in Object \ {o} : IsNew(other)
  /\ InUse(TRUE) \/ (\E o \in Object : UsesEdge(o)) => ~ InUse(FALSE)
  /\ InUse(TRUE) => \E o \in Object : IsNew(o)

\* While a section lives that shows memory, the objects use one entity, which has
\* the ordinary name.
SectionsAlone ==
  \A s \in Section :
    Live(s) =>
      /\ section[s].data # NoInode /\ section[s].wanted # section[s].offset
      /\ \A o \in Object :
           /\ ~ IsRefused(o) /\ req[o].name \in {plain, NoName}
           /\ result[o] \in {"LOAD_SUCCESS", "none"} \/ IsNew(o)
      /\ \A k \in Key : link[k] # NoInode => k = <<FALSE, plain>>
      /\ \E i \in Inode : creator[i] = NoObject

\* The objects differ in nothing, and neither do the inodes.
Symmetry == Permutations(MCObject) \cup Permutations(Inode)
=============================================================================
