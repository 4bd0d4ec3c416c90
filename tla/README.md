# SMBB in TLA+

SMBB (Synchronized Memory Building Blocks) is a small C++ library over the
operating system: memory that processes share by name, sockets with `select` and
`poll`, datagram batches, and internet addresses. This directory holds a TLA+
model of it: modules that follow the source, TLC configurations that check them on
small instances, and theorems that TLAPS proves for every instance. Paths below
are those of the repository, seen from its parent (`src/` is the checkout).

## Inventory

| Component | Source | State | Operations |
|---|---|---|---|
| Shared memory, POSIX | `src/src/smbb/SharedMemory.{h,cxx}` 114-229 | `_handle`, `_usingFile`, `_name`, `_readOnly`; the kernel's two name spaces and its inodes | `CreateFileBacked`, `OpenFileBacked`, `CreateNamed`, `OpenNamed` (all `Load`), `Close`, `DeleteFileBacked`, `DeleteNamed`, `GetRecommendedDirectory` |
| Shared memory, Windows | `SharedMemory.cxx` 31-111 | `_handle`, `_mapHandle`, `_readOnly` | the same |
| Mapped sections | `SharedMemorySection.h` | `_data`, `_size`, `_offset`, `_readOnly`; the mappings of the kernel | constructor, destructor, `GetOffsetSize`, `GetMapOffset` |
| Select sets | `IPSocket.h` 265-415 | `_readSet`, `_writeSet`, (`_exceptSet` on Windows), `_max`, `_checks` | `AddSocket`, `RemoveSocket`, `Wait`, `TestSocket` |
| Poll items | `IPSocket.h` 417-539 | a `pollfd` whose sign bit disables it, or a handle and its events | `Enable`, `Disable`, `Poll`, the test functions |
| Socket handles | `IPSocket.h` 620-760, 1300-1363 | `_handle`, copied freely; `AutoCloseIPSocket` owns one | `Open`, `Close`, `Bind`, `Connect`, `Listen`, `Accept`, `Swap` |
| Messages | `IPSocket.h` 137-251, 1138-1249 | the caller's `Message` and `MultiMessagePart` arrays | `Send`, `Receive`, `SendMultiple`, `ReceiveMultiple` |
| Start-up | `IPSocket.cxx` | two function pointers | `Initialize`, `Finish` |
| Options and multicast | `IPSocket.h` 537-597, 702-1051, 1251-1313; `IPAddress.cxx` 115-167 | the options of the kernel's socket; the flags or the index that a call holds between two system calls | getters and setters, `SetNonblocking`, `SetMulticastSendInterface`, subscribe and unsubscribe |
| Addresses | `IPAddress.{h,cxx}` | a socket address; the caller's array of results | constructors, `Parse`, `ToURI`, comparison, `Hash`, `GetPort`, `GetInterfaceIndex` |

How they interact. A section is mapped from an open `SharedMemory` and outlives
it. `SelectSets` and `PollItem` hold handles of `IPSocket`s by value and read the
state of the connection from the kernel (`SO_ERROR`). Batches call `Send` and
`Receive` once per message unless `Initialize` has found `sendmmsg` and `recvmmsg`.
There are no threads, locks, callbacks or timers in the library. What is
concurrent is outside it: other processes on the same names, the network under the
sockets, and the application's own threads.

What makes each part hard, and what makes it correct:

- **Shared memory.** The name space is shared by processes that may interleave
  between any two system calls of `Load` (unlink, close, open, ftruncate) and that
  may die anywhere. Correct: nobody removes an entity that is not his, every
  `deleteOnClose` entity has an owner that will remove it, a call leaves its
  object open or closed and nothing between, and a `Create` is exclusive.
- **Sections.** Correct: a section keeps its memory after `Close`, and its
  protection is one the handle allows.
- **Select sets.** `_max` and `_checks` summarise the whole history of the
  object, the sets are overwritten by `select`, and `TestSocket` mixes them with an
  error that it reads later and thereby clears. Correct: `select` sees all sockets
  that were added, and what is reported is so although the network moves on.
- **Poll items.** One sign bit holds the difference between enabled and disabled.
- **Handles.** Numbers that the kernel reuses, copied without ownership.
- **Batches.** Two implementations, native and emulated, of one promise: a prefix
  of the batch is done, and the result says how long it is.
- **Options.** The code tries the option of IPv4 and then that of IPv6, on kernels that
  keep the two apart or not, and some functions make two system calls with the world
  moving in between. Correct: a getter tells what was set, and multicast speaks of
  the interface and the group that the caller named.
- **Addresses.** Functions with boundaries: the room in an array, buffers, runs of
  zeroes, ports with the sign bit set, what two equal addresses differ in.

## Plan

The order is by how much other behaviour rests on a part, and by how little a unit
test can say about it. All of this is done, with an `MC` module and a `.cfg` each:

1. `SharedMemory`: the POSIX objects and the kernel's name spaces.
2. `SelectSets`: the POSIX select sets over TCP sockets that change.
3. `SendMultiple` and `ReceiveMultiple`: the native and the emulated batch, each
   checked and proved to implement `MessageBatch`, "messages move one after the
   other, and the result says how many" (`INSTANCE ... WITH`).
4. `SharedMemorySection`, which EXTENDS `SharedMemory` with mappings and is proved to
   implement it.
5. `SocketHandles`: numbers that the kernel reuses, `Open` failing half-way,
   `Accept`, `Close`, `Swap`.
6. `PollItems`: the sign bit in two's complement, and what the results of `Poll` are
   still worth.
7. `IPAddress`, the operators on one address, with `ParseAddresses`, a program that
   makes and parses them, and `SocketOptions`, which EXTENDS `IPAddress` with the
   options of a socket and the interfaces of the machine.

Theorems are in `SharedMemory_proofs` (with those about sections),
`SelectSets_proofs`, `SendMultiple_proofs`, `ReceiveMultiple_proofs`,
`SocketHandles_proofs`, `PollItems_proofs`, `SocketOptions_proofs` and
`ParseAddresses_proofs` (with those about `IPAddress`). Every property of every
passing run is a theorem there, except the one about liveness.

Parts that one program uses together are checked together: a section with the
objects it is mapped from (`MCSharedMemorySection`, run `shm`), and addresses with
the options they are given to (`MCAddressesAndOptions`, run `addresses_options`).
The other parts have a run each, and each claim of a comment that the code does not
keep has one that ends in the counterexample. Every passing run ends within five
minutes.

Loops of the code over numbers (the bits of an offset, the list of a resolver, the
groups of an address) are recursive functions. Two lemmas make them provable, each
where it is used: `Induction`, which says that a set with 0 and all successors has
every natural number and takes the set where the library's theorem takes an
operator, and `Recursion`, which says that a function with a given first value
and a given step exists.

Left out, in the order in which it would be worth adding: the Windows select sets
against an abstract specification of the interest that both builds promise to
keep; the Windows `Load`; the client loop of the tests over `SelectSets`, for its
liveness; plain `IPSocket` copies that outlive a `Close`.

## SharedMemory

One step is one system call with the code around it. `pc` says where an object is:
`closing` (inside `Close`, called by the user, by `Load` on entry or by a failure
path), `load` (before `open`/`shm_open`), `resize` (before `ftruncate`) or `idle`.

| Model | Code |
|---|---|
| `link` | the directory entries of both name spaces; a key is `<<usingFile, name>>` |
| `fileSize` | the length of each inode |
| `handle`, `mode` | `_handle` and the access mode it was opened with |
| `own` | `_usingFile` and `_name` together: what `Close` will unlink |
| `readOnly` | `_readOnly` |
| `Close`, `Unlink`, `CloseHandle` | `SharedMemory::Close`, before its first system call, and its two calls |
| `Load`, `BadSize`, `BadName` | the entry of `Load` and its argument checks |
| `OpenFails`, `OpenCreates`, `OpenExisting` | the outcomes of the open, with the copy of the name before and the test of `deleteOnClose` after it |
| `ResizeSucceeds`, `ResizeFails` | the outcomes of `ftruncate` |
| `Delete` | `DeleteFileBacked`, `DeleteNamed` when they remove something |
| `Crash` | the process of an object dies and starts again with a new object |

`creator`, `autoDelete` and `last` are history: no guard of the code reads them,
except that an inode is created once.

Assumed: an `unlink` of an entry that exists succeeds; a name with its `/` denotes
the same entity for every caller (names are absolute, no process changes its
directory); a file name never denotes an entity of the shared memory name space;
objects are used by one thread each. Names in `Contested` are also deleted
by anybody and adopted (a `Create` of size 0 with `deleteOnClose` opens what is
there and removes it on `Close`). On these the code removes entities of others,
by what its interface means; the properties about removal speak of the rest.

What the run shows is under SharedMemorySection.

Proved in `SharedMemory_proofs`, for any sets of objects, names, sizes and inodes
and from `ConstantsAssumption` and `PassedAssumption` alone: `IndInv` is inductive (`Inductive`), and with
it `TypeOK`, `DeleteOnCloseExact`, `LoadIsAllOrNothing`, `CreateIsExclusive`,
`OnlyOwnerRemoves`, `HeldNameFits` and `CallsGetNearer` (`CallsEnd`). The safety invariants are not inductive
by themselves: whether `ResizeFails` closes the right entity depends on what `Load`
did two steps before. `CallState` says that (in `load` the old entity is gone, in
`resize` the handle is a new inode of the object's own), and `LinkedIsCreated`
says that no entry denotes an inode that is yet to be created, without which a
creation could produce an entity that another object holds.

Between `shm_open` and `ftruncate` (lines 193 and 205) another object can open the
entity and see it with size 0, and after a failed `ftruncate` without
`deleteOnClose` it stays so. The model has both; no property forbids it, since the
only document that speaks of it is the comment on the Windows branch (line 92, "size
is set atomically").

## SharedMemorySection

The objects of `SharedMemory` with sections mapped from them. A section is mapped
from an object that no call is running on, at an offset of the caller's or at
`GetMapOffset` of it, and lives until its destructor or the death of its process,
whatever becomes of the object, of the name and of the entity.

| Model | Code |
|---|---|
| `section` | each `SharedMemorySection`: `data` is `_data`, as the inode it shows or `NoInode` for NULL; `size`, `offset`, `readOnly` |
| `Map` | the constructor: a size of 0, an `mmap` that fails and one that succeeds |
| `Unmap` | the destructor |
| `GetMapOffset`, `AndNot` | `offset & ~mask`, bit by bit |
| `OffsetSize` | `GetOffsetSize()`, a power of two |
| `Obstacle` | the order in which `mmap` looks for a reason to refuse |

`wanted` and `had` are history: the offset that the caller has use for, and the size
of the entity when it was mapped.

What the run shows (`shm`): two objects, three names, both name spaces, two inodes, the
sizes -1, 0 and 1, crashes anywhere, and one section of a size 0 or 1. `Passed` is what
callers give `Load`: everything there is for the name `plain`, which is the objects'
own; an `Open`, and a `Create` with `deleteOnClose` of either size, for `adopted`, which
others delete and which the size 0 adopts; `edge`, a name that fits as a file and not
behind the `/` of `shm_open`; and the arguments that `Load` refuses.

- `DeleteOnCloseExact` and `OnlyOwnerRemoves` speak of `plain`. `CreateIsExclusive` and
  `LoadIsAllOrNothing` hold under `adopted`, too.
- `CallsGetNearer`: no step of anybody sends a running `Load` or `Close` back, although
  `Load` calls `Close` on entry and on its failure paths. Neither waits for anything.
- `HeldNameFits`: `edge` is refused where it does not fit.
- `MapIsPermitted`: `mmap` never refuses for the protection, although `_readOnly` may be
  from an earlier `Load` than the handle.
- `SectionStaysBacked`: nothing that any object does later takes memory from under a
  section: its own object is closed, loaded and its process dies, and another
  object that maps at size 0 does so while the creator is about to resize.
- `MapOffsetIsRight`: a rounded offset is never refused and its page has what the
  caller wanted. The offset 5 with a page of 4 is the smallest that has a bit on both
  sides of the mask.
- `SectionInv` is the inductive invariant of the proofs, `SectionTypeOK` in it: no
  section shows `MAP_FAILED`, or an entity of negative size.

Two objects are all that a step can relate (one name has one owner), two inodes let
an entity be replaced while an old handle lives, and sections share nothing with
each other. Objects and inodes are symmetric. Four constraints bound the run, each
by what the code cannot tell apart. `RefusedAlone`: a call that `Load` refuses
without a system call, and an object that a failed `Load` has left closed, or that
was read-only before, are followed while the other object rests. `SizelessAlone`: so is
a `Create` of `plain` with size 0, which does what an `Open` does. `EdgeAlone`: so is an
object with the longest name. `SectionsAlone`: while a section shows memory, the
objects use `plain` and one entity, since a section does not depend on a name.

Proved in `SharedMemory_proofs`, for any number of objects and sections:
`SectionInv` is inductive (`SectionInductive`), and with it `SectionTypeOK`,
`MapIsPermitted` and `SectionStaysBacked`. It needs `UnsizedIsEmpty`: an entity has no
size before the `ftruncate` of its creator, so that the one change of a size there
is cannot make it smaller. `SectionsAddNothing`: the composition implements
`SharedMemory`, whose theorems so hold for objects with sections.
`MapOffsets`: `MapOffsetIsRight`, for offsets of any width and every page size that is
a power of two, from `OffsetSizeAssumption`. The bits of `OffsetSize - 1` are those
below the page size, a number is determined by its bits, and so `n & ~mask` is
`n - n % OffsetSize`. That `mmap` refuses no rounded offset needs one invariant more,
`RefusedIsUnaligned`: a section with `EINVAL` was given an offset inside a page.

## SelectSets

One thread works on one `SelectSets` object; the network acts between its calls.

| Model | Code |
|---|---|
| `readSet`, `writeSet`, `max`, `checks` | `_readSet`, `_writeSet`, `_max`, `_checks` |
| `conn`, `soError`, `readable` | the TCP socket in the kernel |
| `AddSocket`, `RemoveSocket`, `TestSocket` | the functions of these names |
| `WaitReady`, `WaitTimeout`, `WaitError` | `Wait` by the result of `select` |
| `Connect`, `Listen`, `Take` | `Connect` on a nonblocking socket, `Listen`, and `Receive` or `Accept` |
| `Established`, `Refused`, `Arrives` | the network |

A `SelectValue` is the set of its flags; `Bits` has one member more for the other
bits of the integer, which a complement sets. `returned` is the call that has just
returned with its result, `answered` the sockets that the last `Wait` has answered
for and that the caller has left alone since.

A connection is `established` when the network has made it and `connected` when
`connect` has said so to the caller, `refused` if it ended before that and `reset` if
after. Only of the first two is it open what a repeated `connect` will say.

Assumed of the kernel (`select(2)`, `connect(2)` on TCP): a socket without a
connection polls as hung up, so both ready; a reset drops what was not read; reading
`SO_ERROR` clears it; `connect` on a connection that was reset may say `EISCONN`, as
Linux does, or make another attempt. Handles are those of open sockets. `TestSocket`
has no comparison with FD_SETSIZE: what `FD_ISSET` reads of a handle that does not fit
is undefined, and here anything.

What the runs show:

- `select_safety`: two sockets with handles 1 and 2 and FD_SETSIZE 3, all calls and
  network events in any order. `EverySetIsPassed`: neither `_max` nor `_checks`
  hides a socket. `WaitIsExact`: after `Wait` the sets are the ready ones.
  `ReportIsReal`: a report is still so when the caller gets it. `VerdictIsRight`:
  the first full test after `Wait` tells a connection that is over from one that
  stands. `ConnectIsRight`: so does a repeated `Connect`, except that it may take one
  that stood and was reset for standing, as the kernel does. Two sockets make every
  summary (`_max`, `_checks`) differ from what one of them alone would give; of one
  of them the connection gets no further than the attempt (`GreatestConnects`), because
  connections do not depend on each other. A third handle is equal to FD_SETSIZE and
  must be kept out of the sets; it stays unconnected, and is tested while the others
  are (`LimitIsIdle`). Both constraints bound the run.
- `select_told` (violated): see Findings.

Proved in `SelectSets_proofs`, for every set of handles and every FD_SETSIZE:
`TypeOK`, `EverySetIsPassed` (from `Covered`, which relates the sets to `_max` and
`_checks`), `WaitIsExact` and `ReportIsReal` (from `AnswersHold`: nothing but
the caller undoes what `Wait` found), `ConnectIsRight`, and `VerdictIsRight` (from
`ErrorIsRefusal`: an error that nobody has read belongs to a connection that is over).
That `TestSocket` reads outside of the sets for a handle that does not fit disturbs
none of them, because `Wait` answers for the others only (`AnsweredFit`).

## MessageBatch, SendMultiple, ReceiveMultiple

`MessageBatch` is what `SendMultiple` and `ReceiveMultiple` promise in either
implementation: a call moves the messages of its batch from the first on, and its
`MessageResult` has the number moved, or -1 if an error came before the first; a
call that moved all has no error. Both modules implement it: `running` is
`pc # "idle"`, `moved` the number of messages the kernel took or gave.

A step is one message: one `Send`/`Receive` with the code of the loop around it, or
one turn of the kernel's loop inside `sendmmsg`/`recvmmsg`.

| Model | Code |
|---|---|
| `parts` | the array of `MultiMessagePart`; `address` is `msg_name # NULL` (or its value), `named` is `msg_namelen # 0` |
| `socket` | the socket of the call: datagram or stream, and its connected peer |
| `length`, `i` | the parameter and the loop variable |
| `sendMMsg`, `recvMMsg` | `GetSendMMsg()`, `GetRecvMMsg()`, set by `Initialize` |
| `pc` | not in a call, in the loop, in `sendmmsg`/`recvmmsg` |
| `answer` | the `MessageResult` that was returned |
| `EmulatedSend`, `EmulatedReceive` | `Send(const Message &)`, `Receive(const Message &)` succeed |
| `EmulatedFails` | they fail: `result.Failed()` |
| `EmulatedReturns` | the loop ends |
| `NativeSend`, `NativeReceive`, `NativeReturns`, `NativeFails` | `sendmmsg`, `recvmmsg` |
| `sent`, `got`, `incoming`, `arrived` | the kernel |

`consumed` is history: the messages that results have told callers of. A part may
have been used in a call before, so `named` is arbitrary where there is an address.

Assumed of the kernel: `sendmmsg` stops after a message it took in part;
`sendmmsg` and `recvmmsg` lose an error that comes after the first message;
`recvmmsg` writes no source where `msg_namelen` is 0 and sets `msg_namelen`
afterwards; a datagram is taken whole; threads see the store of a function pointer
whole. Not modelled: `RECEIVE_PEEK`, truncation, the Windows variants.

What the runs show:

- `send_batches`: every array of up to two parts with two addresses or none, on an
  unconnected and a connected datagram socket and on a stream that takes one or two
  bytes of a message of two; `Initialize` may find `sendmmsg` while a call is in the
  loop. The kernel sees the address of a part only if `msg_namelen` says so (`Seen`).
  Since `Send` sets it (`WithNameLength`, line 1219), the loop sends each message to
  its own address (`EmulationAddresses`), and both implementations keep the abstract
  specification. `CallsReturn`: every call comes to its end, also with a message that
  has no destination and so can never be sent. The fairness, weak on the next step of
  each call (`Step`), says that the kernel answers each send, if only with an error,
  and that the thread goes on: nothing else is waited for. Two messages let a call
  stop before the first, after it and at the end; one thread is enough, since
  sending threads share nothing but the function pointer.
- `receive_shared`: two threads, four messages, batches of up to two, so that each
  thread can have a batch, be cut short, and call again while the other is inside.
  `ReceivedOnce` holds: each message is in exactly one of the socket, the parts of
  one running call and the returned results. The threads are symmetric.
- `send_address` (violated): see Findings. `recvmmsg` has the same gap at
  `IPSocket.h:1191`: where `msg_namelen` is still 0 it tells no source.

Proved, for any number of threads, batches of any length and either platform:
`Refinement` in both proof modules (`Spec => Batch!Spec`, every step a step of the
batch or a stutter), for `ReceiveMultiple` that no message is lost or
received twice (`NoneLost`), and for the loop of `SendMultiple` that each message
goes to its own address (`EmulatedToAddress`). The invariant under all of
them is `IndInv` (`Inductive`): the loop's index is the number of messages moved (`IndexIsSent`,
`IndexIsGot`), without which a result says nothing of the kernel; for receiving
also that the messages of one queue or one call differ (`AllDiffer`), without which
taking one away would leave another of the same number behind.

## SocketHandles

The descriptors of one process: its threads open, hand over and close
`AutoCloseIPSocket` objects while the kernel reuses numbers. A step is one system
call with the code around it.

| Model | Code |
|---|---|
| `handle` | `_handle` |
| `descriptor`, `phase`, `bound` | the kernel: which socket a number denotes, its state and address |
| `pc` | the system call that comes next in `Open`, or `reset`: `close` has returned and `_handle` is about to be set |
| `req`, `result` | the arguments and the answer of the last `Open` |
| `Open`, `OpenRefused` | its test of `IsValid` |
| `SocketSucceeds`, `SocketFails` | `socket` |
| `BindSucceeds`, `ListenSucceeds`, `ConnectSucceeds`, `AttemptFails` | what follows by `OpenAttempt`; a failure leaves the socket open |
| `AcceptSucceeds` | an object constructed from what `Accept` returns |
| `CloseDescriptor`, `CloseReturns` | `Close`, called by the user or the destructor |
| `Swap` | the three assignments of `Swap` |

`made` is history: the socket created for an object, which `Swap` hands over.

Assumed: the kernel gives a new socket the lowest number that is free; an object is
used by one thread at a time, so `Swap` and `Accept` work on idle objects; a handle
leaves an object only by `Swap` (the comment at `IPSocket.h:1317` leaves other
copies to the caller). A socket on its way to being connected counts as connected.
`Entity` bounds how many sockets are ever created.

What the run shows (`handles`): three objects, two numbers, three sockets, one
address. With fewer numbers than objects a number is reused while its last owner
is between `close` and the reset, and numbers run out; one address makes a `bind`
fail because another socket has it. `NothingLeaks`: every open descriptor is in
an object that will close it. `ClosesItsOwn`: nobody else closes it. `OpenTells`:
`true` means the socket is in the state asked for. Objects and sockets are
symmetric; numbers are not, because the kernel compares them. All objects may come
to rest, but `Close` is always possible, so there is no deadlock.

Proved in `SocketHandles_proofs`, for any sets of objects, numbers, addresses and
sockets and from `HandlesAssumption` alone: `IndInv` (`Inductive`), `NothingLeaks`
(`NoneLeaks`) and `ClosesItsOwn` (`OwnerCloses`). `SoleOwner` is not inductive: a
creation could hand out the number of another object if an object could have a
number that the kernel thinks free. `HandleIsMine` excludes that, for all objects but
those between `close` and the reset, and `CreatesOnce` says that the object that
gets the new number has none to lose. `OpenTells` (`OpenTellsTrue`) needs `OpenInv`
as well: no two numbers denote one socket (`DescriptorsDiffer`), so that what others
do to theirs leaves it alone, and what an `Open` has done before each of its system
calls (`GoesOn`).

## PollItems

| Model | Code |
|---|---|
| `fd`, `events`, `revents` | the `struct pollfd` of a `PollItem` |
| `SignBit` | `Handle(1) << (sizeof(Handle) * 8 - 1)` as a number; handles are two's complement |
| `Make`, `Enable`, `Disable`, `SetMonitor` | the functions of these names |
| `Poll`, `PollFails` | `Poll` of any part of the array: with a result or a time-out, and interrupted |
| `sock` | the TCP sockets of the kernel |
| `Network`, `Use` | the peers; anything the caller does to a socket itself |

`made`, `on` and `answered` are history: the handle an item was made with, whether
it ought to be enabled, and whose results are from a `Poll` after which the caller
has left the socket alone.

Assumed: `poll(2)` on TCP reports as Linux does (a connection that is over reads and
hangs up, an error stays until the caller fetches it) and clears the results of
items with a negative handle; no socket has the largest handle.

What the runs show:

- `poll_items`: two items, two sockets with the handles 0 and 1 of a three-bit
  `Handle`, two values to monitor, one of them with the flag that `POLL_CHECK_ALL`
  takes away. `ItemKeepsSocket`: through any sequence of calls the item stays the item
  of its socket. Handle 0 is the one whose sign cannot be changed by negation.
  `ResultIsReal`: a result is still so when the caller acts on it. `RefusalIsTold`:
  the next `Poll` of an enabled item tells a refused connection as failed, whatever the
  item monitors and however often it was switched.
- `poll_failed` (violated): the converse, see Findings. One item and one socket are
  enough for the counterexample.

Proved in `PollItems_proofs`, for any items, sockets, values and width of the handle
and from `PollAssumption` alone: `IndInv`, which is inductive as it stands
(`Inductive`), and `RefusalIsTold` from it (`RefusalTold`). The first rests on two lemmas: the
sign bit loses nothing (`SignBitKeeps`), and the network only adds to what `poll`
would say of a socket (`OutcomeAdds`).

## IPAddress, ParseAddresses

`IPAddress` has the operators that keep no state, under the names of the functions. An
address is a record with the fields of the union in network order; `word` is
`sin_addr`, which lies over `sin6_flowinfo`. Texts are sequences of characters,
because `ToURI` is about them.

| Model | Code |
|---|---|
| `Loopback`, `WithPort`, `Empty` | `Loopback` and the constructors |
| `Equal`, `Hash`, `GetPort`, `IsAny`, `IsLoopback`, `IsMulticast` | `operator==` and the functions of these names |
| `GetDigit`, `ByteText`, `PortText`, `Joined` | the macro, where it is used, and the loop over the bytes of IPv4 |
| `GroupText`, `StartsZeros`, `WriteGroup`, `IPv6Text`, `ToURI` | the loop over the groups of IPv6, and the text around them |
| `results`, `returned` | the caller's array, and what `Parse` returned |
| `Parse`, `Filled`, `Turn`, `Room`, `Keeps`, `IsWanted`, `ServicePort` | `Parse`, its two loops, which are one here, and their conditions, on POSIX |
| `SocketAddress` | an entry of either list, which may be of another family or have no address |
| `Construct` | the constructors, that which parses included |

`Hash` is modelled by the bytes that it mixes and their order: that is all that
equal addresses can differ in, and the arithmetic that follows is a function of it.
`call` is history: the arguments of the last `Parse` and what the resolver and
`getifaddrs` told it.

What the runs show:

- `addresses_options`, while the options rest: an array of two, three answers of the resolver (none, one, one without
  a port before one with), interfaces with a packet address, both loopbacks, and
  addresses of both families: more than there is room for. The addresses that callers
  and the kernel have put runs of zeroes at the start, in the middle, twice and
  alone, groups and numbers of every width, ports on both sides of 32768, and one
  link-local address with two scopes. `ParseIsRight` says which addresses `Parse`
  gives and in which place each is, `ParseStaysInside` what it leaves alone. From two
  entries that differ the program goes on by clearing one only (`EntriesFollowed`), which
  bounds the run. `HashAgrees` is what a hash table needs. `PortSurvives`: the port that `GetPort` gives, perhaps as a negative
  number, is the same when it is given back. `URIReadsBack` compares `ToURI` with
  the text forms of RFC 4291, defined for themselves (`IPv6Forms`, `Numeral`), for
  all but the addresses of the next run.
- `address_uri` (violated): see Findings.

Two things the model shows and no document forbids: `operator==` and `Hash` leave out
the scope of a link-local address, so that one address on two interfaces is equal to
itself, and `Hash` has the port by default although its comment says without.

Proved in `ParseAddresses_proofs`, for any addresses, lists, answers and ports, an
array of any size and from `AddressAssumption` alone (it gives the constants their
types): all five properties of addresses in the run.

- `AddressInductive`: `AddressInv`, the type with `ParseIsRight`, is
  inductive. The loop of `Parse` needs an invariant of its own (`TurnFills`): after k
  entries of the list, those that were asked for and had room stand in front, in their
  order, their number is the index, and nothing behind has changed. `ParseRight` and
  `StaysInside` follow.
- `HashesAgree` and `PortsSurvive`, from `EqualAddressesHashAlike` and `PortsReturn`,
  which speak of all addresses.
- `URIsReadBack`: what `ToURI` writes is a text of the address in fewer than 64
  characters. Digits: after the macro with divisor d the text has the digits of
  n / d, the value is n % d, and `show` tells whether there are any (`GetDigitWrites`),
  so that the macro, and the four tests for a group of IPv6, write the numeral
  (`NumbersWritten`, `GroupWritten`). Runs of zeroes: after k groups the loop has written
  all of them, or those before the first run, in which it still is, or all but one run
  with `::` for it (`HasWritten`, kept by `WriteGroupStep`); at the end the middle case
  is left only for an address of zeroes, whose text is empty, and for those that
  `URIReadsBack` leaves out (`WrittenIsForm`). The last are the finding below.

## SocketOptions

The options of one datagram socket. In this code no option reads or writes
another, so a behaviour follows one option, chosen in `OptionInit`, on a socket of
either family or one that is not open, over a kernel that takes IPv4 options on
IPv6 sockets or does not (`dual`, Linux does).

| Model | Code |
|---|---|
| `value` | the option in the kernel, by level |
| `Levels`, `SetLevels`, `Takes` | which `getsockopt` or `setsockopt` comes first, and whether it succeeds |
| `Set`, `Get`, `SetDSCP`, `GetDSCP`, `SetOption` | the getters and setters of numbers and switches |
| `Seconds`, `SetLingerTime`, `GetLingerTime` | `SO_LINGER` in whole seconds |
| `ReadFlags`, `WriteFlags` | the two `fcntl` of `SetNonblocking` |
| `FindsName`, `NameToIndex` | `GetInterfaceIndex`: `getifaddrs` and its search, then `if_nametoindex` |
| `SetMulticastSendInterface`, `SetsInterfaceV6` | its two attempts |
| `ManageMulticast`, `ManagesV6` | subscribe and unsubscribe, with and without a source |
| `InterfaceUp`, `InterfaceDown`, `OthersSwitch` | the machine, and others who have the descriptor |

`pending` is what a call holds between two system calls, `last` the last call with its
result, which is history.

Assumed of the kernel: an index is never given to a second interface; an `in_addr`
that no interface has is refused, and 0 means any; a membership may be refused for
any reason; hops over 255 are refused and -1 stands for 1; a kernel that takes IPv4
options on IPv6 sockets reads an `in_addr` from the bytes it is given, whatever
address they are of. The socket is a datagram
socket, and `Takes` stands for the socket options of TCP, too.

What the runs show:

- `addresses_options`, while the addresses rest: two interfaces, three addresses, a group
  of either family, one source, two indices in all (`MaxIndex`), so that an interface can
  go away in any gap of a call and another, or the same again, come. `GettersTell`:
  setter and getter end on the same level. `LingerIsEnough`: never shorter than asked
  for. `KeepsOtherFlags`: nothing but `O_NONBLOCK` is other than it was read.
  `ManagesWhatIsAsked`: a membership that is changed is of the group, the source and
  the interface that were asked for, except if the interface is gone when its name is
  looked up: the index is then 0, which means any, and the call succeeds. A setter can
  be called whenever none is running, so there is no deadlock. One part rests while
  the other moves (`AddressesAtRest`, `OptionAtRest`): they share operators and no state.
  `DualMatters` leaves out a difference between kernels that only an IPv6 socket meets.
- `options_interface` (violated): see Findings. One index is enough for it.

What the model shows and no document forbids: on Linux an IPv6 socket has TOS, hops
and loopback set at the level of IPv4 alone, because the first attempt succeeds,
and `GettersTell` holds because the getters read the same place;
`GetLingerTime` does not tell lingering for no time from not lingering.

Proved in `SocketOptions_proofs`, for any interfaces, addresses, groups, values and
times and from the two assumptions on the constants: `OptionInv` is inductive
(`OptionInductive`), and all properties of options in the run follow. It needs `CallKnows`:
between its system calls a call has the name or the index of an interface that had
the address, 0 only if no interface was asked for or the one found has gone.

## Findings

- `SetValuesAreReturned` (`IPSocket.h:400` and `403`). `checkResult & (FD_ISSET(...) ==
  0)` takes the lowest bit of `checkResult`, so a connection that is still pending when
  `Wait` times out tests as connected, unless the caller also asks to read. And
  `~SELECT_CONNECT_FAILED` has all the other bits, asked for or not. The comment at
  line 393 promises "the set values" of "the specified values".
- `ToItsAddress` (`IPSocket.h:1236`). With `sendmmsg` nothing sets `msg_namelen`,
  which `Message` leaves 0 and only `Send(const Message &)` sets. The address of a
  part is ignored: the message goes to the connected peer, or nowhere.
- `EveryURIReadsBack` (`IPAddress.cxx:232`). A run of zeroes is written when the group
  behind it is. Of an address whose first run reaches its end it is lost: `2001:db8::`
  becomes `[2001:db8]`. The comment at line 178 calls the text the representation of
  the address, with NULL for what has none.
- `FailureIsRefusal` (`IPSocket.h:479`). On POSIX `HasFailedConnectionResult` is true
  where `POLLERR` is, and so of a connection that was established and then reset. The
  comment at line 465 says "indicates a failed connection attempt", and that at line
  426 that `POLL_ERROR`, the same bit, is for errors "not including a failed
  connection".
- `SendInterfaceIsSet` (`IPSocket.h:1289`). `SetMulticastSendInterface` tries the option of
  IPv4 first. Where the kernel takes it on an IPv6 socket, it succeeds with the bytes
  at the place of `sin_addr`, which in an IPv6 address are those of `sin6_flowinfo`,
  mostly 0: the call returns true, and the interface of IPv6 (line 1292) is never
  set. The comment at line 1287 says "Sets the interface used to send multicast
  packets".

## Only model-checked, not modelled

Only model-checked: `CallsReturn` of `SendMultiple`, which is liveness and so beyond the
prover. Of `SharedMemory` the safety half of returning is checked and proved
(`CallsGetNearer`): each step of a running `Load` or `Close` brings it nearer to its
return, at most six steps away, and no step of anybody sends it back. The
counterexamples under Findings are TLC's, too.

Modelled, but in no property, because no document promises anything of it: a second
`TestSocket` after a refusal, a test after a `Wait` that failed or of a socket that
does not fit in a set, what a process that dies leaves behind, the gap in a stream
whose message was taken in part, a status flag that others switch in the gap of
`SetNonblocking`.

Not modelled:

- the Windows builds of `SharedMemory`, `SelectSets`, `Poll` and the messages: other
  kernel interfaces, whose rules the repository does not show and no test of it
  tells apart;
- `GetRecommendedDirectory`: a copy of an environment variable;
- `GetMTU`, the buffer sizes, `SetDisableChecksum`, `GetLength`, `GetPointer`: one
  number handed on;
- plain `IPSocket` copies that outlive a `Close`, `Bind`, `Listen` and `Connect` by the
  caller on a shared descriptor: the comment at `IPSocket.h:1317` leaves them to him;
- `RECEIVE_PEEK`, truncated messages, calls on plain buffers: pass-through to the
  kernel;
- Windows QoS flows, the Windows start-up, `SMBB.h`, `Version.h`, `utilities/`:
  wrappers and preprocessor glue without state.
