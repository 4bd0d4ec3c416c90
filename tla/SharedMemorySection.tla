------------------------ MODULE SharedMemorySection -------------------------
(***************************************************************************)
(* The POSIX build of smbb::SharedMemorySection                            *)
(* (src/smbb/SharedMemorySection.h): sections that are mapped from the     *)
(* objects of SharedMemory and live on when these are closed, loaded again *)
(* or removed.                                                             *)
(***************************************************************************)
EXTENDS SharedMemory

CONSTANTS
  Section,      \* the SharedMemorySection objects
  Offset,       \* the offsets that callers pass, or pass to GetMapOffset()
  MapSize,      \* the sizes that callers pass
  OffsetSize,   \* GetOffsetSize(), the page size of the kernel
  OffsetBits    \* the width of an offset

ASSUME SectionAssumption == MapSize \subseteq Nat

\* The values of the bits of an offset.
Power2[k \in 0 .. OffsetBits] == IF k = 0 THEN 1 ELSE 2 * Power2[k - 1]

ASSUME OffsetSizeAssumption ==
  /\ OffsetBits \in Nat
  /\ Offset \subseteq 0 .. Power2[OffsetBits] - 1
  /\ \E k \in 0 .. OffsetBits : OffsetSize = Power2[k]

Bit(n, k) == (n \div Power2[k]) % 2

\* n & ~mask
AndNot(n, mask) ==
  CHOOSE m \in 0 .. Power2[OffsetBits] - 1 :
    \A k \in 0 .. OffsetBits - 1 :
      Bit(m, k) = IF Bit(mask, k) = 1 THEN 0 ELSE Bit(n, k)

\* Mutant: the mask is the size.
GetMapOffset_NoMinusOne(offset) == AndNot(offset, OffsetSize)

GetMapOffset(offset) == AndNot(offset, OffsetSize - 1)

VARIABLE section   \* each SharedMemorySection, or NoSection

sectionVars == <<vars, section>>

\* data is _data, as the inode that it shows, from the object by; error is the
\* errno of mmap.  wanted is history, the offset that the caller has use for,
\* and so is had, the size of the entity when it was mapped.
SectionState ==
  [data : Inode \cup {NoInode}, size : MapSize, offset : Nat,
   readOnly : BOOLEAN, by : Object, wanted : Offset, had : Nat,
   error : {"none", "EBADF", "EINVAL", "EACCES", "ENOMEM"}]

NoSection == [error |-> "destroyed"]

SectionTypeOK == section \in [Section -> SectionState \cup {NoSection}]

SectionInit ==
  /\ Init
  /\ section = [s \in Section |-> NoSection]

\* _data is NULL: nothing was asked for, or mmap returned MAP_FAILED.
Refused(s, new, why) ==
  section' = [section EXCEPT ![s] = [new EXCEPT !.error = why]]

Mapped(s, new, inode) ==
  section' = [section EXCEPT ![s] =
                [new EXCEPT !.data = inode, !.had = fileSize[inode]]]

\* Why mmap(_size, PROT_READ and perhaps PROT_WRITE, MAP_SHARED, _handle, _offset)
\* must fail, in the order in which the kernel looks, or "none".
Obstacle(o, new) ==
  IF new.offset % OffsetSize # 0 THEN "EINVAL"
  ELSE IF handle[o] = NoInode THEN "EBADF"
  ELSE IF ~ new.readOnly /\ mode[o] THEN "EACCES"
  ELSE "none"

\* The constructor of s, for an object that no call is running on.
Map(s, o, size, wanted, offset) ==
  LET new == [data |-> NoInode, size |-> size, offset |-> offset,
              readOnly |-> readOnly[o], by |-> o, wanted |-> wanted,
              had |-> 0, error |-> "none"]
      why == Obstacle(o, new)
  IN  /\ section[s] = NoSection
      /\ pc[o] = "idle"
      /\ \/ size = 0 /\ Refused(s, new, "none")
         \/ size # 0 /\ why # "none" /\ Refused(s, new, why)
         \/ size # 0 /\ why = "none" /\ Refused(s, new, "ENOMEM")
         \/ size # 0 /\ why = "none" /\ Mapped(s, new, handle[o])
      /\ UNCHANGED vars

\* The destructor.
Unmap(s) ==
  /\ section[s] # NoSection
  /\ section' = [section EXCEPT ![s] = NoSection]
  /\ UNCHANGED vars

\* A crash takes the sections of the process with it, nothing else does.
CrashUnmaps(o) ==
  /\ Crash(o)
  /\ section' = [s \in Section |->
                   IF section[s] # NoSection /\ section[s].by = o
                   THEN NoSection ELSE section[s]]

SectionNext ==
  \/ /\ \/ \E o \in Object : Close(o) \/ Advance(o)
        \/ \E o \in Object, r \in Passed : Load(o, r)
        \/ \E usesFile \in Backing, n \in Contested : Delete(usesFile, n)
     /\ UNCHANGED section
  \/ \E o \in Object : CrashUnmaps(o)
  \/ \E s \in Section, o \in Object, size \in MapSize, wanted \in Offset :
       \E offset \in {wanted, GetMapOffset(wanted)} :
         Map(s, o, size, wanted, offset)
  \/ \E s \in Section : Unmap(s)

SectionSpec == SectionInit /\ [][SectionNext]_sectionVars

-----------------------------------------------------------------------------
\* Properties.

Live(s) == section[s] # NoSection

\* mmap never refuses a section for its protection: whatever calls an object
\* has been through, failed and repeated ones included, the _readOnly that the
\* constructor reads is the mode of the handle that it maps.
MapIsPermitted == \A s \in Section : section[s].error # "EACCES"

\* Memory that was there when the section was mapped stays there as long as the
\* section lives ("Note that the section is still valid even if the shared
\* memory is closed"): no later call of any object, under the same name or
\* another, makes the entity smaller.
SectionStaysBacked ==
  \A s \in Section :
    Live(s) /\ section[s].data # NoInode => section[s].had <= fileSize[section[s].data]

\* A section mapped at GetMapOffset(wanted) is never refused for its offset, and
\* what the caller wanted is in its first page.
MapOffsetIsRight ==
  \A s \in Section :
    Live(s) /\ section[s].offset = GetMapOffset(section[s].wanted) =>
      /\ section[s].error # "EINVAL"
      /\ section[s].wanted \in section[s].offset .. section[s].offset + OffsetSize - 1

\* What the first two invariants rest on: an entity has no size before the
\* ftruncate of its creator, which is the only change of a size there is.
UnsizedIsEmpty ==
  /\ \A i \in Inode : creator[i] = NoObject => fileSize[i] = 0
  /\ \A o \in Object : pc[o] = "resize" => fileSize[handle[o]] = 0

\* What MapOffsetIsRight rests on, with the arithmetic of AndNot.
RefusedIsUnaligned ==
  \A s \in Section : section[s].error = "EINVAL" => section[s].offset % OffsetSize # 0

SectionInv ==
  /\ IndInv
  /\ SectionTypeOK
  /\ UnsizedIsEmpty
  /\ MapIsPermitted
  /\ SectionStaysBacked
  /\ RefusedIsUnaligned
=============================================================================
