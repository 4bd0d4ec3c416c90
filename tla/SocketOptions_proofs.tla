------------------------ MODULE SocketOptions_proofs ------------------------
(***************************************************************************)
(* Proofs about SocketOptions, for every set of values, interfaces, groups *)
(* and addresses.                                                          *)
(***************************************************************************)
EXTENDS SocketOptions, TLAPS

LEMMA CallKinds ==
  /\ NotCalled.op = "none"
  /\ \A c \in Request : /\ c.op \in {"if", "join", "leave"} /\ c.local \in Local
                        /\ c.index \in -2 .. MaxIndex
                        /\ c.name \in DeviceName \cup {NoName}
  /\ \A c \in FlagsCall : c.op = "flags"
  /\ \A r \in CallResult : r.op \in {"set", "linger", "flags", "if", "join", "leave"}
  /\ \A r \in CallResult : r.op \in {"if", "join", "leave"} =>
                         r.request \in Request /\ r.ok \in BOOLEAN
BY DEF NotCalled, Request, FlagsCall, CallResult

LEMMA InitHolds == OptionInit => OptionInv
<1> SUFFICES ASSUME OptionInit PROVE OptionInv
  OBVIOUS
<1>1. OptionTypeOK
  BY OptionAssumption DEF OptionInit, OptionTypeOK, Level
<1>2. CallKnows /\ GettersTell /\ LingerIsEnough
  BY CallKinds DEF OptionInit, CallKnows, GettersTell, LingerIsEnough
<1> QED BY <1>1, <1>2 DEF OptionInv

\* What the last call promised stays so in a step that leaves its options alone.
LEMMA ResultsKept ==
  ASSUME OptionInv, UNCHANGED <<socketVars, value, linger, last>>
  PROVE  GettersTell' /\ LingerIsEnough'
<1>1. GettersTell'
  <2>1. \A o : Get(o)' = Get(o)
    BY DEF socketVars, Get, SomeTaken, FirstTaken, Takes, Levels, GetDefault
  <2> QED BY <2>1 DEF OptionInv, GettersTell, GetDSCP, socketVars
<1>2. LingerIsEnough'
  BY DEF OptionInv, LingerIsEnough, GetLingerTime
<1> QED BY <1>1, <1>2

LEMMA SetHolds ==
  ASSUME OptionInv, NEW v, Set(v)
  PROVE  OptionInv'
<1> DEFINE passed == Passed(option, v)
           ok == SomeTaken(SetLevels(option)) /\ ~ Refuses(option, passed)
<1>1. v \in Int /\ option \in Plain /\ (option = "TOS" => v \in 0 .. 255)
  BY OptionAssumption DEF Set
<1>2. passed \in Int /\ Stored(option, passed) \in Int
  BY <1>1 DEF Passed, Stored
<1>3. OptionTypeOK'
  <2>1. value' \in [Level -> Int]
    BY <1>2 DEF Set, OptionInv, OptionTypeOK
  <2>2. last' \in CallResult
    BY <1>1 DEF Set, Returned, CallResult
  <2> QED BY <2>1, <2>2 DEF Set, socketVars, OptionInv, OptionTypeOK
<1>4. CallKnows'
  BY DEF Set, socketVars, OptionInv, CallKnows
<1>5. ASSUME last'.ok PROVE Get(option)' = Stored(option, passed)
  <2>1. ok
    BY <1>5 DEF Set, Returned
  <2>2. value' = [value EXCEPT ![FirstTaken(Levels(option))] = Stored(option, passed)]
    BY <2>1 DEF Set, SetLevels
  <2>3. FirstTaken(Levels(option)) \in Level
    BY DEF FirstTaken, Levels, Level
  <2>4. Get(option)' = value'[FirstTaken(Levels(option))]
    BY <2>1 DEF Set, socketVars, Get, SomeTaken, FirstTaken, SetLevels, Levels, Takes
  <2> QED BY <2>2, <2>3, <2>4 DEF OptionInv, OptionTypeOK
<1>6. GettersTell'
  <2> SUFFICES ASSUME last'.ok PROVE GettersTell'
    BY DEF GettersTell
  <2>1. Get(option)' = Stored(option, passed) /\ last'.value = v /\ option' = option
    BY <1>5 DEF Set, Returned, socketVars
  <2>2. CASE option = "TOS"
    <3>1. v \in 0 .. 255 /\ v % 256 = v
      BY <1>1, <2>2
    <3>2. passed = v - (v % 2)
      BY <2>2, <3>1 DEF Passed, Switch
    <3>3. Get("TOS")' = v - (v % 2)
      BY <2>1, <2>2, <3>2 DEF Stored
    <3>4. /\ v - (v % 2) \in {v, v - 1} /\ (v - (v % 2)) % 2 = 0
          /\ (v - (v % 2)) \div 4 = v \div 4
      BY <3>1
    <3> QED BY <2>1, <2>2, <3>3, <3>4 DEF GettersTell, GetDSCP
  <2>3. CASE option = "MULTICAST_HOPS" \/ option = "MTU_DISCOVER"
    BY <1>1, <2>1, <2>3 DEF GettersTell, Stored, Passed, Switch
  <2>4. CASE option \in Switch \cup {"MULTICAST_LOOP"}
    BY <1>1, <2>1, <2>4 DEF GettersTell, Stored, Passed, Switch
  <2> QED BY <1>1, <2>2, <2>3, <2>4 DEF Plain, Both
<1>7. LingerIsEnough'
  BY DEF Set, Returned, LingerIsEnough
<1> QED BY <1>3, <1>4, <1>6, <1>7 DEF OptionInv

LEMMA PlainStepsHold ==
  ASSUME OptionInv
  PROVE  /\ \A level \in {"IP", "IPV6"}, v \in Int : SetOption(level, v) => OptionInv'
         /\ \A ms \in Milliseconds : SetLingerTime(ms) => OptionInv'
<1>1. ASSUME NEW level \in {"IP", "IPV6"}, NEW v \in Int, SetOption(level, v)
      PROVE  OptionInv'
  <2>1. OptionTypeOK' /\ CallKnows'
    BY <1>1 DEF SetOption, socketVars, OptionInv, OptionTypeOK, CallKnows, Level
  <2>2. GettersTell' /\ LingerIsEnough'
    BY <1>1, CallKinds DEF SetOption, GettersTell, LingerIsEnough
  <2> QED BY <2>1, <2>2 DEF OptionInv
<1>2. ASSUME NEW ms \in Milliseconds, SetLingerTime(ms)
      PROVE  OptionInv'
  <2>1. ms \in Nat /\ Seconds(ms) \in Nat
        /\ 1000 * Seconds(ms) >= ms /\ 1000 * Seconds(ms) - ms < 1000
    BY OptionAssumption DEF Seconds
  <2>2. OptionTypeOK'
    <3>1. last' \in CallResult
      BY <1>2, <2>1 DEF SetLingerTime, Returned, CallResult, Takes
    <3>2. linger' \in [on : BOOLEAN, seconds : Nat]
      BY <1>2, <2>1 DEF SetLingerTime, OptionInv, OptionTypeOK
    <3> QED BY <1>2, <3>1, <3>2 DEF SetLingerTime, socketVars, OptionInv, OptionTypeOK
  <2>3. CallKnows' /\ GettersTell'
    BY <1>2 DEF SetLingerTime, Returned, socketVars, OptionInv, CallKnows, GettersTell
  <2>4. LingerIsEnough'
    BY <1>2, <2>1 DEF SetLingerTime, Returned, LingerIsEnough, GetLingerTime
  <2> QED BY <2>2, <2>3, <2>4 DEF OptionInv
<1> QED BY <1>1, <1>2

LEMMA FlagStepsHold ==
  ASSUME OptionInv
  PROVE  /\ \A on \in BOOLEAN : ReadFlags(on) => OptionInv'
         /\ WriteFlags => OptionInv'
         /\ OthersSwitch => OptionInv'
<1>1. ASSUME NEW on \in BOOLEAN, ReadFlags(on) PROVE OptionInv'
  <2>1. CASE Takes("SOCKET")
    <3>1. pending' \in FlagsCall
      <4>1. pending' = [op |-> "flags", on |-> on, flags |-> flags]
        BY <1>1, <2>1 DEF ReadFlags
      <4>2. flags \in SUBSET {"NONBLOCK", "ASYNC"}
        BY DEF OptionInv, OptionTypeOK
      <4> QED BY <4>1, <4>2 DEF FlagsCall
    <3>2. OptionTypeOK' /\ CallKnows'
      BY <1>1, <2>1, <3>1 DEF ReadFlags, socketVars, kernelVars, OptionInv, OptionTypeOK, CallKnows
    <3>3. GettersTell' /\ LingerIsEnough'
      BY <1>1, <2>1, ResultsKept DEF ReadFlags, kernelVars
    <3> QED BY <3>2, <3>3 DEF OptionInv
  <2>2. CASE ~ Takes("SOCKET")
    <3>1. last' \in CallResult
      <4>1. last' = [op |-> "flags", on |-> on, ok |-> FALSE]
        BY <1>1, <2>2 DEF ReadFlags
      <4> QED BY <4>1 DEF CallResult
    <3>2. OptionTypeOK' /\ CallKnows'
      BY <1>1, <2>2, <3>1 DEF ReadFlags, socketVars, kernelVars, OptionInv, OptionTypeOK, CallKnows
    <3>3. GettersTell' /\ LingerIsEnough'
      BY <1>1, <2>2 DEF ReadFlags, GettersTell, LingerIsEnough
    <3> QED BY <3>2, <3>3 DEF OptionInv
  <2> QED BY <2>1, <2>2
<1>2. ASSUME WriteFlags PROVE OptionInv'
  <2>1. pending \in FlagsCall
    BY <1>2, CallKinds DEF WriteFlags, OptionInv, OptionTypeOK
  <2>2. last' \in CallResult /\ flags' \subseteq {"NONBLOCK", "ASYNC"}
    BY <1>2, <2>1 DEF WriteFlags, WithMode, FlagsCall, CallResult
  <2>3. OptionTypeOK'
    BY <1>2, <2>2 DEF WriteFlags, socketVars, OptionInv, OptionTypeOK
  <2>4. CallKnows' /\ GettersTell' /\ LingerIsEnough'
    BY <1>2, CallKinds DEF WriteFlags, CallKnows, GettersTell, LingerIsEnough
  <2> QED BY <2>3, <2>4 DEF OptionInv
<1>3. ASSUME OthersSwitch PROVE OptionInv'
  <2>1. OptionTypeOK' /\ CallKnows'
    BY <1>3 DEF OthersSwitch, socketVars, OptionInv, OptionTypeOK, CallKnows
  <2>2. GettersTell' /\ LingerIsEnough'
    BY <1>3, ResultsKept DEF OthersSwitch
  <2> QED BY <2>1, <2>2 DEF OptionInv
<1> QED BY <1>1, <1>2, <1>3

-----------------------------------------------------------------------------
\* The interfaces.

LEMMA InterfaceStepsHold ==
  ASSUME OptionInv
  PROVE  /\ \A n \in DeviceName : InterfaceUp(n) => OptionInv'
         /\ \A i \in up : InterfaceDown(i) => OptionInv'
<1>1. ASSUME NEW n \in DeviceName, InterfaceUp(n) PROVE OptionInv'
  <2>1. /\ link \in Seq(DeviceName) /\ Len(link) \in Nat
        /\ link' = Append(link, n) /\ Len(link') = Len(link) + 1
        /\ \A i \in DOMAIN link : i \in DOMAIN link' /\ link'[i] = link[i]
    BY <1>1 DEF InterfaceUp, OptionInv, OptionTypeOK
  <2>2. link' \in Seq(DeviceName) /\ Len(link') <= MaxIndex
    BY <1>1, <2>1, OptionAssumption DEF InterfaceUp
  <2>3. up' \subseteq 1 .. Len(link') /\ 1 .. Len(link) \subseteq 1 .. Len(link')
    <3>1. up' = up \cup {Len(link) + 1} /\ up \subseteq 1 .. Len(link)
      BY <1>1 DEF InterfaceUp, OptionInv, OptionTypeOK
    <3>2. \A i \in 1 .. Len(link) : i \in 1 .. Len(link')
      BY <2>1
    <3>3. Len(link) + 1 \in 1 .. Len(link')
      BY <2>1
    <3> QED BY <3>1, <3>2, <3>3
  <2>4. OptionTypeOK'
    BY <1>1, <2>2, <2>3 DEF InterfaceUp, socketVars, kernelVars, OptionInv, OptionTypeOK
  <2>5. CallKnows'
    BY <1>1, <2>1 DEF InterfaceUp, socketVars, OptionInv, CallKnows, HasAddress
  <2>6. GettersTell' /\ LingerIsEnough'
    BY <1>1, ResultsKept DEF InterfaceUp, kernelVars
  <2> QED BY <2>4, <2>5, <2>6 DEF OptionInv
<1>2. ASSUME NEW i \in up, InterfaceDown(i) PROVE OptionInv'
  <2>1. OptionTypeOK' /\ CallKnows'
    BY <1>2 DEF InterfaceDown, socketVars, kernelVars, OptionInv, OptionTypeOK, CallKnows
  <2>2. GettersTell' /\ LingerIsEnough'
    BY <1>2, ResultsKept DEF InterfaceDown, kernelVars
  <2> QED BY <2>1, <2>2 DEF OptionInv
<1> QED BY <1>1, <1>2

\* A call that begins to look for its interface.
LEMMA FindsNameHolds ==
  ASSUME OptionInv, NEW c \in Request, FindsName(c), c.name = NoName,
         c.op = "if" => option = "MULTICAST_IF",
         c.op \in {"join", "leave"} =>
           option = "MEMBERSHIP" /\ c.group \in Group /\ c.group.family = "IPV6"
  PROVE  OptionInv'
<1>1. pending' \in Request /\ CallKnows'
  <2>1. /\ UNCHANGED <<option, link>> /\ c.op \in {"if", "join", "leave"}
        /\ -2 \in -2 .. MaxIndex /\ -1 \in -2 .. MaxIndex /\ 0 \in -2 .. MaxIndex
    <3>1. UNCHANGED <<option, link>>
      BY DEF FindsName, socketVars
    <3>2. c.op \in {"if", "join", "leave"}
      BY CallKinds
    <3>3. -2 \in -2 .. MaxIndex /\ -1 \in -2 .. MaxIndex /\ 0 \in -2 .. MaxIndex
      BY OptionAssumption
    <3> QED BY <3>1, <3>2, <3>3
  <2>2. ASSUME ~ IsSpecific(c.local), pending' = [c EXCEPT !.index = 0]
        PROVE  pending' \in Request /\ CallKnows'
    BY <2>1, <2>2 DEF Request, CallKnows, IsSpecific, HasFamily, IsAny
  <2>3. ASSUME pending' = [c EXCEPT !.index = NotFound]
        PROVE  pending' \in Request /\ CallKnows'
    BY <2>1, <2>3 DEF Request, CallKnows, NotFound
  <2>4. ASSUME NEW n \in NamesWith(c.local), pending' = [c EXCEPT !.name = n, !.index = -2]
        PROVE  pending' \in Request /\ CallKnows'
    <3>1. n \in DeviceName /\ HasAddress(n, c.local)
      BY DEF NamesWith, IndicesOf, OptionInv, OptionTypeOK
    <3>2. n # NoName
      BY <3>1, OptionAssumption
    <3>3. /\ pending'.op = c.op /\ pending'.group = c.group /\ pending'.local = c.local
          /\ pending'.name = n /\ pending'.index = -2 /\ pending' \in Request
      BY <2>1, <2>4, <3>1 DEF Request
    <3> QED BY <2>1, <3>1, <3>2, <3>3 DEF CallKnows, HasAddress
  <2> QED BY <2>2, <2>3, <2>4 DEF FindsName
<1>2. OptionTypeOK'
  BY <1>1 DEF FindsName, socketVars, kernelVars, OptionInv, OptionTypeOK
<1>3. GettersTell' /\ LingerIsEnough'
  BY ResultsKept DEF FindsName, kernelVars
<1> QED BY <1>1, <1>2, <1>3 DEF OptionInv

LEMMA NameToIndexHolds ==
  ASSUME OptionInv, NameToIndex
  PROVE  OptionInv'
<1>1. pending \in Request /\ pending.name # NoName /\ HasAddress(pending.name, pending.local)
  BY CallKinds DEF NameToIndex, OptionInv, OptionTypeOK, CallKnows
<1>2. UNCHANGED <<option, link>> /\ 0 \in -2 .. MaxIndex /\ pending.op \in {"if", "join", "leave"}
  BY OptionAssumption DEF NameToIndex, socketVars
<1>3. pending' \in Request /\ CallKnows'
  <2>1. ASSUME NEW i \in up, link[i] = pending.name, pending' = [pending EXCEPT !.index = i]
        PROVE  pending' \in Request /\ CallKnows'
    <3>1. i \in DOMAIN link /\ i \in Nat /\ i > 0 /\ i \in -2 .. MaxIndex
      BY OptionAssumption DEF OptionInv, OptionTypeOK
    <3> QED BY <1>1, <1>2, <2>1, <3>1 DEF Request, OptionInv, CallKnows, HasAddress
  <2>2. ASSUME pending' = [pending EXCEPT !.index = 0]
        PROVE  pending' \in Request /\ CallKnows'
    BY <1>1, <1>2, <2>2 DEF Request, OptionInv, CallKnows, HasAddress
  <2> QED BY <2>1, <2>2 DEF NameToIndex
<1>4. OptionTypeOK'
  BY <1>3 DEF NameToIndex, socketVars, kernelVars, OptionInv, OptionTypeOK
<1>5. GettersTell' /\ LingerIsEnough'
  BY ResultsKept DEF NameToIndex, kernelVars
<1> QED BY <1>3, <1>4, <1>5 DEF OptionInv

\* A call that returns has a result, and no call runs.
LEMMA FinishesHolds ==
  ASSUME OptionInv, NEW c \in Request, NEW ok \in BOOLEAN, Finishes(c, ok)
  PROVE  /\ pending' = NotCalled /\ last' \in CallResult
         /\ CallKnows' /\ GettersTell' /\ LingerIsEnough'
<1>1. /\ pending' = NotCalled /\ last' = [op |-> c.op, request |-> c, ok |-> ok]
      /\ c.op \in {"if", "join", "leave"}
  BY CallKinds DEF Finishes
<1>2. last' \in CallResult
  BY <1>1 DEF CallResult
<1>3. CallKnows'
  BY <1>1 DEF CallKnows, NotCalled
<1>4. GettersTell' /\ LingerIsEnough'
  BY <1>1 DEF GettersTell, LingerIsEnough
<1> QED BY <1>1, <1>2, <1>3, <1>4

\* An interface for sending that is set by one of the indices.
LEMMA SetInterfaceHolds ==
  ASSUME OptionInv, NEW c \in Request, c.op = "if",
         NEW level \in {"IP", "IPV6"}, NEW indices, indices \subseteq Int,
         SetInterface(c, level, indices)
  PROVE  OptionInv'
<1>1. PICK i \in indices : value' = [value EXCEPT ![level] = i] /\ Finishes(c, TRUE)
  BY DEF SetInterface
<1>2. UNCHANGED <<socketVars, linger, flags, member, link, up>>
  BY DEF SetInterface
<1>3. value' \in [Level -> Int] /\ value'[level] = i
  BY <1>1 DEF OptionInv, OptionTypeOK, Level
<1>4. /\ pending' = NotCalled /\ last' \in CallResult
      /\ CallKnows' /\ GettersTell' /\ LingerIsEnough'
  BY <1>1, FinishesHolds
<1>5. OptionTypeOK'
  BY <1>2, <1>3, <1>4 DEF socketVars, OptionInv, OptionTypeOK
<1> QED BY <1>4, <1>5 DEF OptionInv

\* What the in_addr of an IPv4 address means to the kernel has that address.
LEMMA WordIsAddress ==
  ASSUME NEW a \in Address, a.family = "IPV4", IsSpecific(a)
  PROVE  \A i \in ByWord(a) : i \in DOMAIN link /\ HasAddress(link[i], a)
<1>1. Host(Word(a)) = a.word /\ Host(a) = a.word /\ Word(a).family = a.family
  BY DEF Word, Empty, Host
<1>2. ~ IsAny(Word(a))
  BY <1>1 DEF IsSpecific, IsAny, HasFamily
<1> QED BY <1>1, <1>2 DEF ByWord, IndicesOf, HasAddress

LEMMA ByWordIsInt ==
  ASSUME OptionTypeOK, NEW a
  PROVE  ByWord(a) \subseteq Int
BY DEF OptionTypeOK, ByWord, IndicesOf

LEMMA SendStepsHold ==
  ASSUME OptionInv
  PROVE  /\ \A a \in Local : SetMulticastSendInterface(a) => OptionInv'
         /\ SetsInterfaceV6 => OptionInv'
<1>1. ASSUME NEW a \in Local, SetMulticastSendInterface(a) PROVE OptionInv'
  <2> DEFINE c == [op |-> "if", group |-> a, local |-> a, source |-> NoSource,
                   name |-> NoName, index |-> 0]
             indices == ByWord(a) \cap (up \cup {0})
  <2>1. c \in Request /\ a \in Address
    BY OptionAssumption DEF Request
  <2>2. CASE Takes("IP") /\ indices # {}
    <3>1. SetInterface(c, "IP", indices)
      BY <1>1, <2>2 DEF SetMulticastSendInterface
    <3>2. indices \subseteq Int
      BY ByWordIsInt DEF OptionInv
    <3> HIDE DEF indices
    <3> QED BY <2>1, <3>1, <3>2, SetInterfaceHolds
  <2>3. CASE ~ (Takes("IP") /\ indices # {})
    <3>1. FindsName(c) /\ option = "MULTICAST_IF"
      BY <1>1, <2>3 DEF SetMulticastSendInterface
    <3> QED BY <2>1, <3>1, FindsNameHolds
  <2> QED BY <2>2, <2>3
<1>2. ASSUME SetsInterfaceV6 PROVE OptionInv'
  <2>1. pending \in Request /\ pending.op = "if" /\ pending.index \in Int /\ pending.index >= -1
    BY <1>2, CallKinds DEF SetsInterfaceV6, Ready, OptionInv, OptionTypeOK
  <2>2. CASE Takes("IPV6") /\ pending.index \in up \cup {0}
    <3>1. SetInterface(pending, "IPV6", {pending.index}) /\ {pending.index} \subseteq Int
      BY <1>2, <2>1, <2>2 DEF SetsInterfaceV6
    <3> QED BY <2>1, <3>1, SetInterfaceHolds
  <2>3. CASE ~ (Takes("IPV6") /\ pending.index \in up \cup {0})
    <3>1. Finishes(pending, FALSE) /\ UNCHANGED <<socketVars, kernelVars, link, up>>
      BY <1>2, <2>3 DEF SetsInterfaceV6
    <3>2. /\ pending' = NotCalled /\ last' \in CallResult
          /\ CallKnows' /\ GettersTell' /\ LingerIsEnough'
      BY <2>1, <3>1, FinishesHolds
    <3>3. OptionTypeOK'
      BY <3>1, <3>2 DEF socketVars, kernelVars, OptionInv, OptionTypeOK
    <3> QED BY <3>2, <3>3 DEF OptionInv
  <2> QED BY <2>2, <2>3
<1> QED BY <1>1, <1>2

-----------------------------------------------------------------------------
\* Memberships.

LEMMA ManagesHolds ==
  ASSUME OptionInv, NEW c \in Request, c.op \in {"join", "leave"}, c.group \in Group,
         NEW indices, Manages(c, indices)
  PROVE  OptionInv'
<1>1. PICK ok \in BOOLEAN : Finishes(c, ok)
  BY DEF Manages
<1>2. UNCHANGED <<socketVars, value, linger, flags, link, up>>
  BY DEF Manages
<1>3. /\ pending' = NotCalled /\ last' \in CallResult
      /\ CallKnows' /\ GettersTell' /\ LingerIsEnough'
  BY <1>1, FinishesHolds
<1>4. \A m \in member' : /\ m.index \in 1 .. Len(link) /\ m.group \in Group
                         /\ m.source \in SourceAddress \cup {NoSource}
  <2> DEFINE Fine(m) == /\ m.index \in 1 .. Len(link) /\ m.group \in Group
                        /\ m.source \in SourceAddress \cup {NoSource}
  <2>1. \A m \in member : Fine(m)
    BY DEF OptionInv, OptionTypeOK
  <2>2. ASSUME NEW i \in up,
               member' = member \cup {[group |-> c.group, index |-> i, source |-> c.source]}
        PROVE  \A m \in member' : Fine(m)
    <3>1. i \in 1 .. Len(link) /\ c.source \in SourceAddress \cup {NoSource}
      BY DEF OptionInv, OptionTypeOK, Request
    <3> QED BY <2>1, <2>2, <3>1
  <2>3. CASE member' \subseteq member
    BY <2>1, <2>3
  <2> QED BY <2>2, <2>3 DEF Manages
<1>5. OptionTypeOK'
  BY <1>2, <1>3, <1>4 DEF socketVars, OptionInv, OptionTypeOK
<1> QED BY <1>3, <1>5 DEF OptionInv

\* What a call adds or takes off is what it was asked to.
LEMMA ManagesAsked ==
  ASSUME OptionInv, NEW c \in Request, NEW indices, Manages(c, indices), member' # member,
         IsSpecific(c.local) /\ (c.local.family = "IPV4" \/ c.group.family = "IPV6") =>
           \/ Vanished(c)
           \/ /\ 0 \notin indices
              /\ \A i \in indices : i \in DOMAIN link => HasAddress(link[i], c.local)
  PROVE  ChangesAsAsked
<1>1. Finishes(c, TRUE)
  BY DEF Manages
<1>2. ASSUME NEW m \in (member' \ member) \cup (member \ member')
      PROVE  /\ m.group = c.group /\ m.source = c.source
             /\ 0 \in indices \/ (m.index \in indices /\ m.index \in DOMAIN link)
  <2>1. CASE m \in member \ member'
    <3>1. m.index \in DOMAIN link
      BY <2>1 DEF OptionInv, OptionTypeOK
    <3> QED BY <2>1, <3>1 DEF Manages, Matching
  <2>2. CASE m \in member' \ member
    <3>1. PICK i \in IF 0 \in indices THEN up ELSE indices \cap up :
            m = [group |-> c.group, index |-> i, source |-> c.source]
      BY <2>2 DEF Manages
    <3>2. i \in up /\ (0 \in indices \/ i \in indices)
      BY <3>1
    <3>3. i \in DOMAIN link
      BY <3>2 DEF OptionInv, OptionTypeOK
    <3> QED BY <3>1, <3>2, <3>3
  <2> QED BY <2>1, <2>2
<1>3. last'.request = c /\ last'.ok
  BY <1>1 DEF Finishes
<1> QED BY <1>2, <1>3 DEF ChangesAsAsked

LEMMA MembershipStepsHold ==
  ASSUME OptionInv
  PROVE  /\ \A op \in {"join", "leave"}, g \in Group, a \in Local,
               s \in SourceAddress \cup {NoSource} :
              ManageMulticast(op, g, a, s) => OptionInv' /\ ChangesAsAsked
         /\ ManagesV6 => OptionInv' /\ ChangesAsAsked
<1>1. ASSUME NEW op \in {"join", "leave"}, NEW g \in Group, NEW a \in Local,
             NEW s \in SourceAddress \cup {NoSource}, ManageMulticast(op, g, a, s)
      PROVE  OptionInv' /\ ChangesAsAsked
  <2> DEFINE c == [op |-> op, group |-> g, local |-> a, source |-> s,
                   name |-> NoName, index |-> 0]
             indices == IF Takes("IP") THEN ByWord(a) ELSE {}
  <2>1. /\ c \in Request /\ a \in Address /\ option = "MEMBERSHIP"
        /\ c.op = op /\ c.group = g /\ c.local = a /\ c.name = NoName
    BY <1>1, OptionAssumption DEF Request, ManageMulticast
  <2>2. CASE g.family = "IPV4" /\ Manages(c, indices)
    <3>1. ASSUME IsSpecific(a), a.family = "IPV4"
          PROVE  0 \notin indices /\ \A i \in indices : HasAddress(link[i], a)
      <4>1. \A i \in indices : i \in DOMAIN link /\ HasAddress(link[i], a)
        BY <2>1, <3>1, WordIsAddress
      <4>2. 0 \notin DOMAIN link
        BY DEF OptionInv, OptionTypeOK
      <4> QED BY <4>1, <4>2
    <3> HIDE DEF c, indices
    <3>2. OptionInv'
      BY <2>1, <2>2, ManagesHolds
    <3>3. ASSUME member' # member PROVE ChangesAsAsked
      BY <2>1, <2>2, <3>1, <3>3, ManagesAsked
    <3> QED BY <3>2, <3>3 DEF ChangesAsAsked
  <2>3. CASE g.family = "IPV6" /\ FindsName(c)
    <3>1. OptionInv'
      <4> HIDE DEF c
      <4> QED BY <2>1, <2>3, FindsNameHolds
    <3>2. member' = member
      BY <2>3 DEF FindsName, kernelVars
    <3> QED BY <3>1, <3>2 DEF ChangesAsAsked
  <2>4. CASE Finishes(c, FALSE) /\ UNCHANGED <<socketVars, kernelVars, link, up>>
    <3>1. /\ pending' = NotCalled /\ last' \in CallResult
          /\ CallKnows' /\ GettersTell' /\ LingerIsEnough'
      <4> HIDE DEF c
      <4> QED BY <2>1, <2>4, FinishesHolds
    <3>2. OptionTypeOK' /\ member' = member
      BY <2>4, <3>1 DEF socketVars, kernelVars, OptionInv, OptionTypeOK
    <3> QED BY <3>1, <3>2 DEF OptionInv, ChangesAsAsked
  <2> QED BY <1>1, <2>2, <2>3, <2>4 DEF ManageMulticast
<1>2. ASSUME ManagesV6 PROVE OptionInv' /\ ChangesAsAsked
  <2> DEFINE indices == IF Takes("IPV6") THEN {pending.index} ELSE {}
  <2>1. /\ pending \in Request /\ pending.op \in {"join", "leave"} /\ pending.index \in Int
        /\ pending.index >= -1 /\ Manages(pending, indices)
    BY <1>2, CallKinds DEF ManagesV6, Ready, OptionInv, OptionTypeOK
  <2>2. pending.group \in Group
    BY <2>1 DEF OptionInv, CallKnows
  <2>3. OptionInv'
    BY <2>1, <2>2, ManagesHolds
  <2>4. ASSUME IsSpecific(pending.local), ~ Vanished(pending)
        PROVE  /\ 0 \notin indices
               /\ \A i \in indices : i \in DOMAIN link => HasAddress(link[i], pending.local)
    <3>1. pending.index # 0
      BY <2>1, <2>4 DEF OptionInv, CallKnows, Vanished
    <3>2. CASE pending.index > 0
      BY <2>1, <3>2 DEF OptionInv, CallKnows
    <3>3. CASE pending.index = -1
      <4>1. -1 \notin DOMAIN link
        BY DEF OptionInv, OptionTypeOK
      <4> QED BY <3>3, <4>1
    <3> QED BY <2>1, <3>1, <3>2, <3>3
  <2>5. ASSUME member' # member PROVE ChangesAsAsked
    <3> HIDE DEF indices
    <3> QED BY <2>1, <2>4, <2>5, ManagesAsked
  <2> QED BY <2>3, <2>5 DEF ChangesAsAsked
<1> QED BY <1>1, <1>2

-----------------------------------------------------------------------------
\* The theorems.

LEMMA StepHolds ==
  ASSUME OptionInv, OptionNext
  PROVE  OptionInv' /\ ChangesAsAsked /\ KeepsOthers
<1>1. ASSUME NEW o \in Plain, NEW v \in Value[o], Set(v)
      PROVE  OptionInv' /\ UNCHANGED <<member, pending>>
  BY <1>1, SetHolds DEF Set
<1>2. ASSUME NEW v \in 0 .. 63, SetDSCP(v)
      PROVE  OptionInv' /\ UNCHANGED <<member, pending>>
  <2>1. Set(4 * v)
    BY <1>2 DEF SetDSCP
  <2> QED BY <2>1, SetHolds DEF Set
<1>3. ASSUME NEW level \in {"IP", "IPV6"}, NEW o \in Both, NEW v \in Value[o], SetOption(level, v)
      PROVE  OptionInv' /\ UNCHANGED <<member, pending>>
  <2>1. v \in Int
    BY OptionAssumption DEF Plain
  <2> QED BY <1>3, <2>1, PlainStepsHold DEF SetOption
<1>4. ASSUME NEW ms \in Milliseconds, SetLingerTime(ms)
      PROVE  OptionInv' /\ UNCHANGED <<member, pending>>
  BY <1>4, PlainStepsHold DEF SetLingerTime
<1>5. ASSUME NEW on \in BOOLEAN, ReadFlags(on)
      PROVE  OptionInv' /\ UNCHANGED member /\ pending = NotCalled
  BY <1>5, FlagStepsHold DEF ReadFlags, kernelVars
<1>6. ASSUME WriteFlags PROVE OptionInv' /\ UNCHANGED member /\ KeepsOthers
  <2>1. pending \in FlagsCall
    BY <1>6, CallKinds DEF WriteFlags, OptionInv, OptionTypeOK
  <2>2. KeepsOthers
    <3>1. pending.on \in BOOLEAN /\ flags' = IF pending.on THEN pending.flags \cup {"NONBLOCK"}
                                          ELSE pending.flags \ {"NONBLOCK"}
      BY <1>6, <2>1 DEF WriteFlags, WithMode, FlagsCall
    <3> QED BY <3>1 DEF KeepsOthers
  <2> QED BY <1>6, <2>2, FlagStepsHold DEF WriteFlags
<1>7. ASSUME OthersSwitch PROVE OptionInv' /\ UNCHANGED <<member, pending>>
  BY <1>7, FlagStepsHold DEF OthersSwitch
<1>8. ASSUME NEW n \in DeviceName, InterfaceUp(n)
      PROVE  OptionInv' /\ UNCHANGED <<member, pending>>
  BY <1>8, InterfaceStepsHold DEF InterfaceUp, kernelVars
<1>9. ASSUME NEW i \in up, InterfaceDown(i)
      PROVE  OptionInv' /\ UNCHANGED <<member, pending>>
  BY <1>9, InterfaceStepsHold DEF InterfaceDown, kernelVars
<1>10. ASSUME NEW a \in Local, SetMulticastSendInterface(a)
       PROVE  OptionInv' /\ UNCHANGED member /\ pending = NotCalled
  BY <1>10, SendStepsHold
  DEF SetMulticastSendInterface, SetInterface, FindsName, kernelVars
<1>11. ASSUME NameToIndex PROVE OptionInv' /\ UNCHANGED member /\ pending.op # "flags"
  BY <1>11, NameToIndexHolds DEF NameToIndex, kernelVars
<1>12. ASSUME SetsInterfaceV6 PROVE OptionInv' /\ UNCHANGED member /\ pending.op # "flags"
  BY <1>12, SendStepsHold DEF SetsInterfaceV6, Ready, SetInterface, kernelVars
<1>13. ASSUME NEW op \in {"join", "leave"}, NEW g \in Group, NEW a \in Local,
              NEW s \in SourceAddress \cup {NoSource}, ManageMulticast(op, g, a, s)
       PROVE  OptionInv' /\ ChangesAsAsked /\ pending = NotCalled
  BY <1>13, MembershipStepsHold DEF ManageMulticast
<1>14. ASSUME ManagesV6 PROVE OptionInv' /\ ChangesAsAsked /\ pending.op # "flags"
  BY <1>14, MembershipStepsHold DEF ManagesV6, Ready
<1>15. \/ UNCHANGED pending \/ pending = NotCalled \/ pending.op # "flags" => KeepsOthers
  BY CallKinds DEF KeepsOthers
<1>16. UNCHANGED member => ChangesAsAsked
  BY DEF ChangesAsAsked
<1> QED BY <1>1, <1>2, <1>3, <1>4, <1>5, <1>6, <1>7, <1>8, <1>9, <1>10, <1>11, <1>12,
           <1>13, <1>14, <1>15, <1>16 DEF OptionNext

LEMMA Stutters ==
  ASSUME OptionInv, UNCHANGED optionVars
  PROVE  OptionInv' /\ ChangesAsAsked /\ KeepsOthers
<1> USE DEF optionVars, socketVars, kernelVars
<1>1. OptionTypeOK' /\ CallKnows'
  BY DEF OptionInv, OptionTypeOK, CallKnows
<1>2. GettersTell' /\ LingerIsEnough'
  BY ResultsKept DEF OptionInv
<1>3. KeepsOthers
  BY CallKinds DEF KeepsOthers
<1>4. ChangesAsAsked
  BY DEF ChangesAsAsked
<1> QED BY <1>1, <1>2, <1>3, <1>4 DEF OptionInv

\* The types, the knowledge of a running call and the results are inductive.
THEOREM OptionInductive == OptionSpec => []OptionInv
<1>1. OptionInv /\ [OptionNext]_optionVars => OptionInv'
  BY StepHolds, Stutters
<1> QED BY InitHolds, <1>1, PTL DEF OptionSpec

\* Every variable keeps its type: no membership and no index is ever one that the
\* kernel has not given.
THEOREM OptionTypeCorrect == OptionSpec => []OptionTypeOK
<1>1. OptionInv => OptionTypeOK
  BY DEF OptionInv
<1> QED BY OptionInductive, <1>1, PTL

\* The getters of an option tell what its setter was told.
THEOREM GettersTold == OptionSpec => []GettersTell
<1>1. OptionInv => GettersTell
  BY DEF OptionInv
<1> QED BY OptionInductive, <1>1, PTL

\* Rounding never shortens the time that SetLingerTime() was given.
THEOREM LingerEnough == OptionSpec => []LingerIsEnough
<1>1. OptionInv => LingerIsEnough
  BY DEF OptionInv
<1> QED BY OptionInductive, <1>1, PTL

\* SetNonblocking() leaves the other flags as it read them.
THEOREM FlagsKept == OptionSpec => KeepsOtherFlags
<1>1. OptionInv /\ [OptionNext]_optionVars => [KeepsOthers]_optionVars
  BY StepHolds
<1> QED BY OptionInductive, <1>1, PTL DEF OptionSpec, KeepsOtherFlags

\* Subscribing and unsubscribing change the membership that was asked for.
THEOREM MembershipsAsked == OptionSpec => ManagesWhatIsAsked
<1>1. OptionInv /\ [OptionNext]_optionVars => [ChangesAsAsked]_optionVars
  BY StepHolds
<1> QED BY OptionInductive, <1>1, PTL DEF OptionSpec, ManagesWhatIsAsked
=============================================================================
