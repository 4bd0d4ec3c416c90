--------------------------- MODULE SocketOptions ----------------------------
(***************************************************************************)
(* The options of one datagram socket (src/smbb/IPSocket.h, the POSIX      *)
(* build), with the interfaces of the machine, which come and go.  In this *)
(* code no option touches another one, so a behaviour follows one option   *)
(* of the socket, chosen in OptionInit.                                    *)
(***************************************************************************)
EXTENDS IPAddress

CONSTANTS
  Value,       \* the values that callers pass for an option
  Milliseconds,\* the linger times that callers pass
  Device,      \* what getifaddrs() lists if all are up: records [name, address]
  Group,       \* the multicast addresses,
  Local,       \* local addresses
  SourceAddress, \* and source addresses that callers pass
  MaxIndex,    \* bound: how many interfaces the machine ever sees
  NoName, NoSource

\* These fall through from the option of IPv4 to that of IPv6,
Both == {"TOS", "MTU_DISCOVER", "MULTICAST_HOPS", "MULTICAST_LOOP"}
\* and these have one level.
Switch == {"TCP_NODELAY", "SO_KEEPALIVE", "SO_REUSEADDR", "SO_REUSEPORT"}
Plain == Both \cup Switch
Followed == Plain \cup {"LINGER", "NONBLOCKING", "MULTICAST_IF", "MEMBERSHIP"}

Level == {"IP", "IPV6", "SOCKET"}
DeviceName == {d.name : d \in Device}

ASSUME OptionAssumption ==
  /\ Value \in [Plain -> SUBSET Int] /\ Value["TOS"] \subseteq 0 .. 255
  /\ Milliseconds \subseteq Nat
  /\ MaxIndex \in Nat
  /\ Group \cup Local \subseteq Address
  /\ NoName \notin DeviceName /\ NoSource \notin SourceAddress

VARIABLES
  option,  \* the option that the behaviour follows
  family,  \* the family of the socket; FAMILY_UNSPECIFIED: it is not open
  dual,    \* the kernel takes IPPROTO_IP options on an IPv6 socket, as Linux does
  value,   \* the option in the kernel, by level
  linger,  \* SO_LINGER: [on, seconds]
  flags,   \* the file status flags: NONBLOCK and ASYNC
  member,  \* the memberships: [group, index, source]
  link,    \* link[i] is the name of the interface that got index i
  up,      \* the indices of the interfaces that are there
  pending, \* what a call keeps between two system calls
  last     \* history: the last call that returned

socketVars == <<option, family, dual>>
kernelVars == <<value, linger, flags, member>>
optionVars == <<socketVars, kernelVars, link, up, pending, last>>

NotCalled == [op |-> "none"]
Request ==
  [op : {"if", "join", "leave"}, group : Group \cup Local, local : Local,
   source : SourceAddress \cup {NoSource}, name : DeviceName \cup {NoName},
   index : -2 .. MaxIndex]

FlagsCall == [op : {"flags"}, on : BOOLEAN, flags : SUBSET {"NONBLOCK", "ASYNC"}]
CallResult ==
  [op : {"set", "linger"}, value : Int, ok : BOOLEAN] \cup
  [op : {"flags"}, on : BOOLEAN, ok : BOOLEAN] \cup
  [op : {"if", "join", "leave"}, request : Request, ok : BOOLEAN]

OptionTypeOK ==
  /\ option \in Followed /\ family \in IPAddressFamily /\ dual \in BOOLEAN
  /\ value \in [Level -> Int]
  /\ linger \in [on : BOOLEAN, seconds : Nat]
  /\ flags \subseteq {"NONBLOCK", "ASYNC"}
  /\ \A m \in member : /\ m.index \in 1 .. Len(link) /\ m.group \in Group
                       /\ m.source \in SourceAddress \cup {NoSource}
  /\ link \in Seq(DeviceName) /\ Len(link) <= MaxIndex /\ up \subseteq 1 .. Len(link)
  /\ pending \in {NotCalled} \cup Request \cup FlagsCall
  /\ last \in {NotCalled} \cup CallResult

OptionInit ==
  /\ option \in Followed /\ family \in IPAddressFamily /\ dual \in BOOLEAN
  /\ value = [l \in Level |-> IF option = "MULTICAST_HOPS" THEN 1 ELSE 0]
  /\ linger = [on |-> FALSE, seconds |-> 0]
  /\ flags = {} /\ member = {}
  /\ link = <<>> /\ up = {}
  /\ pending = NotCalled /\ last = NotCalled

-----------------------------------------------------------------------------
\* Options that are numbers.

Takes(level) ==
  \/ level = "SOCKET" /\ family # "FAMILY_UNSPECIFIED"
  \/ level = "IP" /\ (family = "IPV4" \/ (family = "IPV6" /\ dual))
  \/ level = "IPV6" /\ family = "IPV6"

\* The levels that the code tries, one after the other.
Levels(o) == IF o \in Both THEN <<"IP", "IPV6">> ELSE <<"SOCKET", "SOCKET">>

\* Mutant: the setter tries them in another order than the getter.
SetLevels_Swapped(o) == IF o \in Both THEN <<"IPV6", "IP">> ELSE <<"SOCKET", "SOCKET">>

SetLevels(o) == Levels(o)

SomeTaken(levels) == Takes(levels[1]) \/ Takes(levels[2])
FirstTaken(levels) == IF Takes(levels[1]) THEN levels[1] ELSE levels[2]

\* What a setter passes: value & TOS_MASK, enable ? 1 : 0, or the value.
Passed(o, v) ==
  CASE o = "TOS" -> (v % 256) - (v % 2)
    [] o \in Switch \cup {"MULTICAST_LOOP"} -> IF v # 0 THEN 1 ELSE 0
    [] OTHER -> v

\* The kernel refuses hops over 255, and takes -1 for 1.
Refuses(o, v) == o = "MULTICAST_HOPS" /\ v \notin -1 .. 255
Stored(o, v) == IF o = "MULTICAST_HOPS" /\ v = -1 THEN 1 ELSE v

GetDefault(o) == IF o = "MULTICAST_HOPS" THEN -1 ELSE 0
Get(o) == IF SomeTaken(Levels(o)) THEN value[FirstTaken(Levels(o))] ELSE GetDefault(o)

Returned(op, v, ok) ==
  last' = [op |-> op, value |-> v, ok |-> ok]

\* SetTOS(), SetMTUDiscover(), SetMulticastHops(), SetMulticastLoopback(),
\* SetImmediateSend(), SetKeepAlive(), SetReuseAddress(), SetReusePort()
Set(v) ==
  LET levels == SetLevels(option)
      passed == Passed(option, v)
      ok == SomeTaken(levels) /\ ~ Refuses(option, passed)
  IN  /\ option \in Plain /\ v \in Value[option]
      /\ value' = IF ok THEN [value EXCEPT ![FirstTaken(levels)] = Stored(option, passed)]
                  ELSE value
      /\ Returned("set", v, ok)
      /\ UNCHANGED <<socketVars, linger, flags, member, link, up, pending>>

\* SetDSCP() and GetDSCP() of the builds without QoS flows.
SetDSCP(v) == option = "TOS" /\ Set(4 * v)
GetDSCP == Get("TOS") \div 4

\* The caller's own SetOption(level, name, value).
SetOption(level, v) ==
  /\ option \in Both /\ Takes(level)
  /\ v \in Value[option] /\ v >= 0 /\ ~ Refuses(option, v)
  /\ value' = [value EXCEPT ![level] = v]
  /\ last' = NotCalled
  /\ UNCHANGED <<socketVars, linger, flags, member, link, up, pending>>

\* Mutant: the time is rounded down.
Seconds_Down(ms) == ms \div 1000

Seconds(ms) == ms \div 1000 + (IF ms % 1000 # 0 THEN 1 ELSE 0)

SetLingerTime(ms) ==
  /\ option = "LINGER"
  /\ linger' = IF Takes("SOCKET") THEN [on |-> TRUE, seconds |-> Seconds(ms)] ELSE linger
  /\ Returned("linger", ms, Takes("SOCKET"))
  /\ UNCHANGED <<socketVars, value, flags, member, link, up, pending>>

GetLingerTime == IF linger.on THEN 1000 * linger.seconds ELSE 0

\* Mutant: the flag is all that is written.
WithMode_Alone(old, on) == IF on THEN {"NONBLOCK"} ELSE {}

WithMode(old, on) == IF on THEN old \cup {"NONBLOCK"} ELSE old \ {"NONBLOCK"}

\* SetNonblocking(): F_GETFL,
ReadFlags(on) ==
  /\ option = "NONBLOCKING" /\ pending = NotCalled
  /\ IF Takes("SOCKET")
     THEN pending' = [op |-> "flags", on |-> on, flags |-> flags] /\ UNCHANGED last
     ELSE last' = [op |-> "flags", on |-> on, ok |-> FALSE] /\ UNCHANGED pending
  /\ UNCHANGED <<socketVars, kernelVars, link, up>>

\* and F_SETFL with the flags as they were read.
WriteFlags ==
  /\ pending.op = "flags"
  /\ flags' = WithMode(pending.flags, pending.on)
  /\ last' = [op |-> "flags", on |-> pending.on, ok |-> TRUE]
  /\ pending' = NotCalled
  /\ UNCHANGED <<socketVars, value, linger, member, link, up>>

\* Somebody else who has the native handle switches a flag.
OthersSwitch ==
  /\ option = "NONBLOCKING" /\ Takes("SOCKET")
  /\ flags' = IF "ASYNC" \in flags THEN flags \ {"ASYNC"} ELSE flags \cup {"ASYNC"}
  /\ UNCHANGED <<socketVars, value, linger, member, link, up, pending, last>>

-----------------------------------------------------------------------------
\* Interfaces and multicast.

\* An interface of that name comes, with an index that none has had, or goes.
InterfaceUp(n) ==
  /\ option \in {"MULTICAST_IF", "MEMBERSHIP"} /\ Len(link) < MaxIndex
  /\ \A i \in up : link[i] # n
  /\ link' = Append(link, n) /\ up' = up \cup {Len(link) + 1}
  /\ UNCHANGED <<socketVars, kernelVars, pending, last>>

InterfaceDown(i) ==
  /\ up' = up \ {i}
  /\ UNCHANGED <<socketVars, kernelVars, link, pending, last>>

HasAddress(n, a) ==
  \E d \in Device :
    d.name = n /\ d.address.family = a.family /\ Host(d.address) = Host(a)

\* The indices of the interfaces that have the address, or had it.
IndicesOf(a) == {i \in DOMAIN link : HasAddress(link[i], a)}

\* A local address that asks for an interface.
IsSpecific(a) == HasFamily(a) /\ ~ IsAny(a)

\* The in_addr of a local address: it is 0 if that is of IPv6.
Word(a) == [Empty("IPV4") EXCEPT !.word = a.word]

\* The interfaces that an in_addr means to the kernel; 0 is any.
ByWord(a) == IF IsAny(Word(a)) THEN {0} ELSE IndicesOf(Word(a))

\* Mutant: the family alone is compared.
NamesWith_Family(a) ==
  {n \in DeviceName : /\ \E i \in up : link[i] = n
                      /\ \E d \in Device : d.name = n /\ d.address.family = a.family}

\* The interfaces with the address, the first of which the search finds.
NamesWith(a) == {link[i] : i \in IndicesOf(a) \cap up}

\* Mutant: an address that no interface has is taken for no address.
NotFound_Default == 0

\* What GetInterfaceIndex() gives if no interface has the address.
NotFound == -1

Finishes(c, ok) ==
  /\ pending' = NotCalled
  /\ last' = [op |-> c.op, request |-> c, ok |-> ok]

\* GetInterfaceIndex(): the search in the list of getifaddrs(), which may fail,
FindsName(c) ==
  /\ \/ ~ IsSpecific(c.local) /\ pending' = [c EXCEPT !.index = 0]
     \/ IsSpecific(c.local) /\ pending' = [c EXCEPT !.index = NotFound]
     \/ /\ IsSpecific(c.local)
        /\ \E n \in NamesWith(c.local) : pending' = [c EXCEPT !.name = n, !.index = -2]
  /\ UNCHANGED <<socketVars, kernelVars, link, up, last>>

\* and if_nametoindex(), which gives 0 for an interface that has gone.
NameToIndex ==
  /\ pending.op \in {"if", "join", "leave"} /\ pending.index = -2
  /\ \/ \E i \in up : link[i] = pending.name /\ pending' = [pending EXCEPT !.index = i]
     \/ (\A i \in up : link[i] # pending.name) /\ pending' = [pending EXCEPT !.index = 0]
  /\ UNCHANGED <<socketVars, kernelVars, link, up, last>>

\* setsockopt() of the interface for sending, by one of the indices.
SetInterface(c, level, indices) ==
  /\ \E i \in indices : value' = [value EXCEPT ![level] = i] /\ Finishes(c, TRUE)
  /\ UNCHANGED <<socketVars, linger, flags, member, link, up>>

Ready(op) == pending.op = op /\ pending.index >= -1

SetMulticastSendInterface(a) ==
  /\ option = "MULTICAST_IF" /\ pending = NotCalled
  /\ LET c == [op |-> "if", group |-> a, local |-> a, source |-> NoSource,
               name |-> NoName, index |-> 0]
         indices == ByWord(a) \cap (up \cup {0})
     IN  IF Takes("IP") /\ indices # {} THEN SetInterface(c, "IP", indices)
         ELSE FindsName(c)

SetsInterfaceV6 ==
  /\ Ready("if")
  /\ IF Takes("IPV6") /\ pending.index \in up \cup {0}
     THEN SetInterface(pending, "IPV6", {pending.index})
     ELSE Finishes(pending, FALSE) /\ UNCHANGED <<socketVars, kernelVars, link, up>>

\* Those that the kernel may take off for a request: all interfaces, or that one.
Matching(c, indices) ==
  {m \in member : /\ m.group = c.group /\ m.source = c.source
                  /\ 0 \in indices \/ m.index \in indices}

\* setsockopt() of a membership, which the kernel may refuse.
Manages(c, indices) ==
  /\ \/ /\ c.op = "join" /\ IsMulticast(c.group)
        /\ \E i \in IF 0 \in indices THEN up ELSE indices \cap up :
             LET m == [group |-> c.group, index |-> i, source |-> c.source]
             IN  m \notin member /\ member' = member \cup {m}
        /\ Finishes(c, TRUE)
     \/ /\ c.op = "leave"
        /\ \E m \in Matching(c, indices) : member' = member \ {m}
        /\ Finishes(c, TRUE)
     \/ Finishes(c, FALSE) /\ UNCHANGED member
  /\ UNCHANGED <<socketVars, value, linger, flags, link, up>>

\* Subscribe and unsubscribe: ManageMulticastAddress(), and with a source
\* ManageMulticastSourceAddress(), which refuses groups of IPv6.
ManageMulticast(op, group, local, source) ==
  /\ option = "MEMBERSHIP" /\ pending = NotCalled
  /\ LET c == [op |-> op, group |-> group, local |-> local, source |-> source,
               name |-> NoName, index |-> 0]
     IN  \/ group.family = "IPV4" /\ Manages(c, IF Takes("IP") THEN ByWord(local) ELSE {})
         \/ group.family = "IPV6" /\ source = NoSource /\ FindsName(c)
         \/ /\ group.family # "IPV4" /\ (group.family = "IPV6" => source # NoSource)
            /\ Finishes(c, FALSE) /\ UNCHANGED <<socketVars, kernelVars, link, up>>

ManagesV6 ==
  /\ Ready("join") \/ Ready("leave")
  /\ Manages(pending, IF Takes("IPV6") THEN {pending.index} ELSE {})

OptionNext ==
  \/ \E o \in Plain : \E v \in Value[o] : Set(v)
  \/ \E v \in {n \in 0 .. 63 : 4 * n \in Value["TOS"]} : SetDSCP(v)
  \/ \E level \in {"IP", "IPV6"}, o \in Both : \E v \in Value[o] : SetOption(level, v)
  \/ \E ms \in Milliseconds : SetLingerTime(ms)
  \/ \E on \in BOOLEAN : ReadFlags(on)
  \/ WriteFlags
  \/ OthersSwitch
  \/ \E n \in DeviceName : InterfaceUp(n)
  \/ \E i \in up : InterfaceDown(i)
  \/ \E a \in Local : SetMulticastSendInterface(a)
  \/ NameToIndex
  \/ SetsInterfaceV6
  \/ \E op \in {"join", "leave"}, g \in Group, a \in Local, s \in SourceAddress \cup {NoSource} :
       ManageMulticast(op, g, a, s)
  \/ ManagesV6

OptionSpec == OptionInit /\ [][OptionNext]_optionVars

-----------------------------------------------------------------------------
\* Properties.

\* A getter gives what the setter was told, on whichever level the two ended: TOS
\* without its lowest bit and DSCP as it was, hops with -1 for the default 1, and
\* a switch as on or off.
GettersTell ==
  last.op = "set" /\ last.ok =>
    CASE option = "TOS" -> /\ Get("TOS") \in {last.value, last.value - 1}
                           /\ Get("TOS") % 2 = 0 /\ GetDSCP = last.value \div 4
      [] option = "MULTICAST_HOPS" -> Get(option) = IF last.value = -1 THEN 1 ELSE last.value
      [] option = "MTU_DISCOVER" -> Get(option) = last.value
      [] OTHER -> Get(option) # 0 <=> last.value # 0

\* Lingering is never shorter than the caller asked for, and less than a second
\* longer: SO_LINGER has whole seconds.
LingerIsEnough ==
  last.op = "linger" /\ last.ok =>
    linger.on /\ GetLingerTime >= last.value /\ GetLingerTime - last.value < 1000

\* SetNonblocking() leaves the other flags alone, unless somebody switches one
\* between F_GETFL and F_SETFL.
KeepsOthers ==
  pending.op = "flags" /\ pending' = NotCalled =>
    LET others == flags \ {"NONBLOCK"}
    IN  /\ "NONBLOCK" \in flags' <=> pending.on
        /\ others = pending.flags \ {"NONBLOCK"} => others = flags' \ {"NONBLOCK"}

KeepsOtherFlags == [][KeepsOthers]_optionVars

\* "Sets the interface used to send multicast packets" (IPSocket.h:1287): once
\* SetMulticastSendInterface() has succeeded with an address of the socket's
\* family, packets of the socket go out on an interface that had the address.
OwnLevel == IF family = "IPV4" THEN "IP" ELSE "IPV6"

SendInterfaceIsSet ==
  last.op = "if" /\ last.ok =>
    LET a == last.request.local
    IN  IsSpecific(a) /\ a.family = family =>
          value[OwnLevel] \in DOMAIN link /\ HasAddress(link[value[OwnLevel]], a)

\* The interface went away between getifaddrs() and if_nametoindex(): the call
\* then speaks of any interface, and succeeds.
Vanished(c) == c.name # NoName /\ c.index = 0

\* A call adds or takes off a membership of its own group and source only, if it
\* succeeds, and on an interface that had the local address it was given, although
\* interfaces come and go during the call: except for a vanished one, and for an
\* IPv6 address with a group of IPv4.
ChangesAsAsked ==
  member' # member =>
    LET c == last'.request
    IN  /\ last'.ok
        /\ \A m \in (member' \ member) \cup (member \ member') :
             /\ m.group = c.group /\ m.source = c.source
             /\ IsSpecific(c.local) /\ (c.local.family = "IPV4" \/ c.group.family = "IPV6") =>
                  Vanished(c) \/ HasAddress(link[m.index], c.local)

ManagesWhatIsAsked == [][ChangesAsAsked]_optionVars

\* What a call that runs knows of its interface.
CallKnows ==
  /\ pending.op = "flags" => option = "NONBLOCKING"
  /\ pending.op = "if" => option = "MULTICAST_IF"
  /\ pending.op \in {"join", "leave"} =>
       option = "MEMBERSHIP" /\ pending.group \in Group /\ pending.group.family = "IPV6"
  /\ pending.op \in {"if", "join", "leave"} =>
       /\ pending.name # NoName => HasAddress(pending.name, pending.local)
       /\ pending.index = -2 => pending.name # NoName
       /\ pending.index = 0 /\ IsSpecific(pending.local) => pending.name # NoName
       /\ pending.index > 0 =>
            pending.index \in DOMAIN link /\ HasAddress(link[pending.index], pending.local)

\* The inductive invariant: with the types and the results that the properties
\* speak of, a call between its system calls has the right name or index.
OptionInv ==
  /\ OptionTypeOK /\ CallKnows
  /\ GettersTell /\ LingerIsEnough
=============================================================================
