----------------------- MODULE ParseAddresses_proofs ------------------------
(***************************************************************************)
(* Proofs about IPAddress and ParseAddresses, for every set of addresses,  *)
(* answers, lists of interfaces and ports and for every size of the array. *)
(***************************************************************************)
EXTENDS ParseAddresses, TLAPS, FiniteSetTheorems, SequenceTheorems, WellFoundedInduction

\* Induction over the natural numbers, for a set.
LEMMA Induction ==
  ASSUME NEW S, 0 \in S, \A n \in Nat : n \in S => n + 1 \in S
  PROVE  Nat \subseteq S
<1> SUFFICES ASSUME Nat \ S # {} PROVE FALSE
  OBVIOUS
<1>1. PICK n \in Nat \ S : \A m \in Nat \ S : <<m, n>> \notin OpToRel(<, Nat)
  BY NatLessThanWellFounded, WFMin
<1>2. \A m \in Nat \ S : ~ (m < n)
  BY <1>1 DEF OpToRel
<1>3. n # 0 /\ n - 1 \in Nat
  OBVIOUS
<1>4. n - 1 \in S
  BY <1>2, <1>3
<1> QED BY <1>3, <1>4

\* f is what a recursion over the numbers up to last defines, in R.
Recurs(f, last, R, base, step) ==
  /\ f \in [0 .. last -> R] /\ f[0] = base
  /\ \A k \in 1 .. last : f[k] = step[k][f[k - 1]]

\* Such a recursion has a solution.
LEMMA Recursion ==
  ASSUME NEW last \in Nat, NEW R, NEW base \in R, NEW step \in [1 .. last -> [R -> R]]
  PROVE  \E f : Recurs(f, last, R, base, step)
<1> DEFINE Solves(f, n) == /\ f \in [0 .. n -> R] /\ f[0] = base
                           /\ \A k \in 1 .. n : f[k] = step[k][f[k - 1]]
           S == {n \in Nat : n <= last => \E f : Solves(f, n)}
<1>1. \E f : Solves(f, 0)
  <2> DEFINE f == [k \in 0 .. 0 |-> base]
  <2>1. Solves(f, 0)
    OBVIOUS
  <2> QED BY <2>1
<1>2. ASSUME NEW n \in Nat, n + 1 <= last, NEW f, Solves(f, n)
      PROVE  \E g : Solves(g, n + 1)
  <2> DEFINE g == [k \in 0 .. n + 1 |-> IF k = n + 1 THEN step[n + 1][f[n]] ELSE f[k]]
  <2>1. step[n + 1] \in [R -> R] /\ f[n] \in R
    BY <1>2
  <2>2. g \in [0 .. n + 1 -> R] /\ g[0] = base
    BY <1>2, <2>1
  <2>3. ASSUME NEW k \in 1 .. n + 1 PROVE g[k] = step[k][g[k - 1]]
    <3>1. CASE k = n + 1
      <4>1. g[k] = step[n + 1][f[n]] /\ g[k - 1] = f[n]
        BY <3>1
      <4> QED BY <3>1, <4>1
    <3>2. CASE k # n + 1
      <4>1. k \in 1 .. n /\ k \in 0 .. n + 1 /\ k - 1 \in 0 .. n + 1 /\ k - 1 # n + 1
        BY <3>2
      <4>2. g[k] = f[k] /\ g[k - 1] = f[k - 1]
        BY <3>2, <4>1
      <4> QED BY <1>2, <4>1, <4>2
    <3> QED BY <3>1, <3>2
  <2> HIDE DEF g
  <2>4. Solves(g, n + 1)
    BY <2>2, <2>3
  <2> HIDE DEF Solves
  <2> QED BY <2>4
<1> HIDE DEF Solves
<1>3. 0 \in S
  BY <1>1
<1>4. ASSUME NEW n \in Nat, n \in S PROVE n + 1 \in S
  BY <1>2, <1>4
<1>5. last \in S
  <2> HIDE DEF S
  <2> QED BY <1>3, <1>4, Induction
<1>6. PICK f : Solves(f, last)
  BY <1>5
<1> QED BY <1>6 DEF Solves, Recurs

-----------------------------------------------------------------------------
\* Addresses and their ports.

\* Addresses that operator== finds equal have equal hashes: for every address.
THEOREM EqualAddressesHashAlike ==
  \A a, b \in Address : HashesAlike(a, b)
<1> SUFFICES ASSUME NEW a \in Address, NEW b \in Address, Equal(a, b),
                    NEW includePort \in BOOLEAN
             PROVE  Hash(a, includePort) = Hash(b, includePort)
  BY DEF HashesAlike
<1>1. HasFamily(a) /\ HasFamily(b)
  BY DEF Equal, HasFamily
<1>2. Host(a) = Host(b) /\ a.port = b.port
  BY DEF Equal
<1> QED BY <1>1, <1>2 DEF Hash

LEMMA NumbersOfBytes ==
  /\ \A n : n \in Octet <=> n \in Nat /\ n < 256
  /\ \A n : n \in Hextet <=> n \in Nat /\ n < 65536
<1>1. \A n : n \in Octet <=> n \in Nat /\ n < 256
  BY DEF Octet
<1>2. \A n : n \in Hextet <=> n \in Nat /\ n < 65536
  BY DEF Hextet
<1> QED BY <1>1, <1>2

LEMMA TwoBytes ==
  ASSUME NEW high \in Octet, NEW low \in Octet
  PROVE  /\ high * 256 + low \in Hextet
         /\ (high * 256 + low) \div 256 = high
         /\ (high * 256 + low) % 256 = low
<1>1. high \in Nat /\ high < 256 /\ low \in Nat /\ low < 256
  BY NumbersOfBytes
<1>2. high * 256 + low \in Nat /\ high * 256 + low < 65536
  BY <1>1
<1>3. (high * 256 + low) \div 256 = high
  BY <1>1
<1>4. (high * 256 + low) % 256 = low
  BY <1>1
<1>5. high * 256 + low \in Hextet
  BY <1>2, NumbersOfBytes
<1> QED BY <1>3, <1>4, <1>5

LEMMA PortAndBack ==
  ASSUME NEW n \in Hextet
  PROVE  htons(n) \in Octet \X Octet /\ ntohs(htons(n)) = n
<1>1. n \in Nat /\ n < 65536
  BY NumbersOfBytes
<1>2. n \div 256 \in Nat /\ n \div 256 < 256
  BY <1>1
<1>3. n % 256 \in Nat /\ n % 256 < 256
  BY <1>1
<1>4. (n \div 256) * 256 + (n % 256) = n
  BY <1>1
<1>5. n \div 256 \in Octet /\ n % 256 \in Octet
  BY <1>2, <1>3, NumbersOfBytes
<1> QED BY <1>4, <1>5 DEF htons, ntohs

LEMMA PortOfBytes ==
  ASSUME NEW port \in Octet \X Octet
  PROVE  /\ ntohs(port) \in Hextet
         /\ htons(ntohs(port)) = port
<1>1. port[1] \in Octet /\ port[2] \in Octet /\ port = <<port[1], port[2]>>
  OBVIOUS
<1>2. ntohs(port) = port[1] * 256 + port[2]
  BY DEF ntohs
<1>3. ntohs(port) \in Hextet
  BY <1>1, <1>2, TwoBytes
<1>4. ntohs(port) \div 256 = port[1] /\ ntohs(port) % 256 = port[2]
  BY <1>1, <1>2, TwoBytes
<1>5. htons(ntohs(port)) = <<port[1], port[2]>>
  BY <1>4 DEF htons
<1> QED BY <1>1, <1>3, <1>5

LEMMA ShortAndBack ==
  ASSUME NEW n \in Hextet
  PROVE  UnsignedShort(Short(n)) = n
<1> n \in Nat /\ n < 65536
  BY NumbersOfBytes
<1>1. CASE n < 32768
  <2>1. n % 65536 = n
    BY <1>1
  <2> QED BY <1>1, <2>1 DEF UnsignedShort, Short
<1>2. CASE n >= 32768
  <2>1. Short(n) = n - 65536
    BY <1>2 DEF Short
  <2>2. (n - 65536) % 65536 = n
    BY <1>2
  <2> QED BY <2>1, <2>2 DEF UnsignedShort
<1> QED BY <1>1, <1>2

\* The port that GetPort() gives as a short makes the same port again: for every
\* address.
THEOREM PortsReturn ==
  \A a, b \in Address : PortReturns(a, b)
<1> SUFFICES ASSUME NEW a \in Address, NEW b \in Address, HasFamily(a), HasFamily(b)
             PROVE  PortReturns(a, b)
  BY DEF PortReturns
<1> DEFINE c == WithPort(b, UnsignedShort(GetPort(a)))
<1>1. a.port \in Octet \X Octet
  BY DEF Address
<1>2. ntohs(a.port) \in Hextet /\ htons(ntohs(a.port)) = a.port
  BY <1>1, PortOfBytes
<1>3. GetPort(a) = Short(ntohs(a.port))
  BY DEF GetPort
<1>4. UnsignedShort(GetPort(a)) = ntohs(a.port)
  BY <1>2, <1>3, ShortAndBack
<1>5. c = [b EXCEPT !.port = a.port]
  BY <1>2, <1>4 DEF WithPort
<1>6. c.port = a.port /\ c.family = b.family
  BY <1>5 DEF Address
<1> HIDE DEF c
<1>7. GetPort(c) = GetPort(a)
  BY <1>6 DEF GetPort, HasFamily
<1> QED BY <1>6, <1>7 DEF PortReturns, c

LEMMA MadeAddresses ==
  /\ \A f \in IPAddressFamily : Empty(f) \in Address /\ Loopback(f) \in Address
  /\ Empty("FAMILY_UNSPECIFIED") \in Address
<1> /\ 0 \in Octet /\ 1 \in Octet /\ 127 \in Octet
    /\ 0 \in Hextet /\ 1 \in Hextet
  BY NumbersOfBytes
<1>1. ASSUME NEW f \in IPAddressFamily PROVE Empty(f) \in Address
  BY DEF Empty, Address
<1>2. ASSUME NEW f \in IPAddressFamily PROVE Loopback(f) \in Address
  <2>1. LOOPBACK_IP \in [1 .. 4 -> Octet] /\ LOOPBACK_IPV6 \in [1 .. 8 -> Hextet]
    BY DEF LOOPBACK_IP, LOOPBACK_IPV6
  <2>2. Empty(f) \in Address
    BY <1>1
  <2>3. [Empty(f) EXCEPT !.word = LOOPBACK_IP] \in Address
    BY <2>1, <2>2 DEF Address
  <2>4. [Empty(f) EXCEPT !.host = LOOPBACK_IPV6] \in Address
    BY <2>1, <2>2 DEF Address
  <2> QED BY <2>2, <2>3, <2>4 DEF Loopback
<1> QED BY <1>1, <1>2 DEF IPAddressFamily

LEMMA WithPortFields ==
  ASSUME NEW a \in Address, NEW n \in Hextet
  PROVE  /\ WithPort(a, n) \in Address
         /\ WithPort(a, n).family = a.family
         /\ Host(WithPort(a, n)) = Host(a)
         /\ HasFamily(a) => WithPort(a, n).port = htons(n)
BY PortAndBack DEF WithPort, Address, Host, HasFamily

-----------------------------------------------------------------------------
\* The loops of Parse().

\* A set of numbers has a least one.
LEMMA Least ==
  ASSUME NEW S, S \subseteq Nat, S # {}
  PROVE  \E i \in S : \A j \in S : i <= j
<1> SUFFICES ASSUME \A i \in S : \E j \in S : j < i PROVE FALSE
  <2>1. \A i, j \in S : ~ (i <= j) => j < i
    OBVIOUS
  <2> QED BY <2>1
<1> DEFINE Above == {n \in Nat : \A i \in S : n < i}
<1>1. 0 \in Above
  OBVIOUS
<1>2. ASSUME NEW n \in Nat, n \in Above PROVE n + 1 \in Above
  <2>1. ASSUME NEW i \in S PROVE n + 1 < i
    <3>1. PICK j \in S : j < i
      OBVIOUS
    <3>2. n < j /\ i \in Nat /\ j \in Nat
      BY <1>2
    <3> QED BY <3>1, <3>2
  <2> QED BY <2>1
<1> HIDE DEF Above
<1>3. Nat \subseteq Above
  BY <1>1, <1>2, Induction
<1>4. PICK i \in S : TRUE
  OBVIOUS
<1>5. i \in Above
  BY <1>3
<1>6. i \in Nat /\ i < i
  BY <1>5 DEF Above
<1> QED BY <1>6

LEMMA CallFields ==
  ASSUME NEW c \in Call
  PROVE  /\ c.answer \in Seq(SocketAddress) /\ c.list \in Seq(SocketAddress)
         /\ c.size \in Nat /\ c.size <= ResultsSize
         /\ Source(c) \in Seq(SocketAddress) /\ Len(Source(c)) \in Nat
         /\ DOMAIN Source(c) = 1 .. Len(Source(c))
<1>1. /\ c.answer \in Answer /\ c.list \in Listing
      /\ c.size \in 0 .. ResultsSize
  BY DEF Call
<1>2. c.answer \in Seq(SocketAddress) /\ c.list \in Seq(SocketAddress)
  BY <1>1, AddressAssumption
<1>3. Source(c) \in Seq(SocketAddress)
  BY <1>2 DEF Source
<1> QED BY <1>1, <1>2, <1>3, AddressAssumption, LenProperties

\* What has a family of the two is a whole address.
LEMMA FamilyIsAddress ==
  ASSUME NEW a \in SocketAddress, HasFamily(a)
  PROVE  a \in Address /\ ntohs(a.port) \in Hextet
<1>1. a \in Address
  BY DEF SocketAddress, HasFamily
<1>2. a.port \in Octet \X Octet
  BY <1>1 DEF Address
<1> QED BY <1>1, <1>2, PortOfBytes

LEMMA ServicePortIsOne ==
  ASSUME NEW c \in Call
  PROVE  ServicePort(c.answer) \in Ports(c) /\ ServicePort(c.answer) \in Hextet
<1> DEFINE answer == c.answer
           known == {j \in DOMAIN answer : HasFamily(answer[j])}
           with == {i \in DOMAIN answer : HasFamily(answer[i]) /\ ntohs(answer[i].port) # 0}
           all == {ntohs(answer[i].port) : i \in known}
<1>1. answer \in Seq(SocketAddress)
  BY CallFields
<1>2. DOMAIN answer \subseteq Nat /\ \A i \in DOMAIN answer : answer[i] \in SocketAddress
  BY <1>1, LenProperties, ElementOfSeq
<1>3. Ports(c) = IF all \subseteq {0} THEN {0} ELSE all \ {0}
  BY DEF Ports
<1>4. ServicePort(answer) =
        IF with = {} THEN 0
        ELSE ntohs(answer[CHOOSE i \in with : \A j \in with : i <= j].port)
  BY DEF ServicePort
<1> HIDE DEF answer
<1>5. CASE with = {}
  <2>1. all \subseteq {0}
    BY <1>5
  <2> HIDE DEF with, all
  <2> QED BY <1>3, <1>4, <1>5, <2>1, NumbersOfBytes DEF answer
<1>6. CASE with # {}
  <2> DEFINE first == CHOOSE i \in with : \A j \in with : i <= j
  <2>1. first \in with
    BY <1>2, <1>6, Least
  <2> HIDE DEF first
  <2>2. ntohs(answer[first].port) \in all \ {0}
    BY <2>1
  <2>3. ntohs(answer[first].port) \in Hextet
    BY <1>2, <2>1, FamilyIsAddress
  <2> HIDE DEF with, all
  <2> QED BY <1>3, <1>4, <1>6, <2>2, <2>3 DEF answer, first
<1> QED BY <1>5, <1>6

\* What the loop keeps is what was asked for, and what it makes of that is whole.
LEMMA KeptIsAsked ==
  ASSUME NEW c \in Call, NEW k \in 1 .. Len(Source(c))
  PROVE  /\ Keeps(c, Source(c)[k]) <=> k \in Asked(c)
         /\ Keeps(c, Source(c)[k]) => Result(c, Source(c)[k]) \in Address
<1> DEFINE a == Source(c)[k]
<1>1. a \in SocketAddress /\ k \in DOMAIN Source(c)
  BY CallFields, ElementOfSeq
<1>2. Keeps(c, a) => HasFamily(a) /\ a \in Address
  BY <1>1, FamilyIsAddress DEF Keeps, IsWanted
<1>3. Keeps(c, a) <=> k \in Asked(c)
  <2>1. CASE c.kind = "interfaces"
    BY <1>1, <2>1 DEF Keeps, IsWanted, Asked, Source
  <2>2. CASE c.kind # "interfaces"
    BY <1>1, <2>2 DEF Keeps, Asked
  <2> QED BY <2>1, <2>2
<1>4. Keeps(c, a) => Result(c, a) \in Address
  BY <1>2, ServicePortIsOne, WithPortFields DEF Result
<1> QED BY <1>3, <1>4

\* The state of the loop: its counter and the array that it fills.
Filling(n, size) == [i : 0 .. size, array : [1 .. n -> Address]]

LEMMA TurnType ==
  ASSUME NEW c \in Call, NEW n \in Nat, c.size <= n,
         NEW s \in Filling(n, c.size), NEW k \in 1 .. Len(Source(c))
  PROVE  Turn(s, c, Source(c)[k]) \in Filling(n, c.size)
<1> DEFINE a == Source(c)[k]
<1>1. c.size \in Nat
  BY CallFields
<1>2. CASE Room(s.i, c.size) /\ Keeps(c, a)
  <2>1. Result(c, a) \in Address
    BY <1>2, KeptIsAsked
  <2>2. s.i + 1 \in 0 .. c.size /\ s.array \in [1 .. n -> Address]
    BY <1>1, <1>2 DEF Room, Filling
  <2>3. [s.array EXCEPT ![s.i + 1] = Result(c, a)] \in [1 .. n -> Address]
    BY <2>1, <2>2
  <2>4. Turn(s, c, a) = [i |-> s.i + 1, array |-> [s.array EXCEPT ![s.i + 1] = Result(c, a)]]
    BY <1>2 DEF Turn
  <2> QED BY <2>2, <2>3, <2>4 DEF Filling
<1>3. CASE ~ (Room(s.i, c.size) /\ Keeps(c, a))
  BY <1>3 DEF Turn
<1> QED BY <1>2, <1>3

\* loop is the loop of Parse(), turn by turn.
Loops(loop, array, n, c) ==
  /\ loop \in [0 .. Len(Source(c)) -> Filling(n, c.size)]
  /\ loop[0] = [i |-> 0, array |-> array]
  /\ \A k \in 1 .. Len(Source(c)) : loop[k] = Turn(loop[k - 1], c, Source(c)[k])
  /\ Filled(array, c) = loop[Len(Source(c))]

LEMMA LoopExists ==
  ASSUME NEW c \in Call, NEW n \in Nat, c.size <= n, NEW array \in [1 .. n -> Address]
  PROVE  \E loop : Loops(loop, array, n, c)
<1> DEFINE last == Len(Source(c))
           R == Filling(n, c.size)
           base == [i |-> 0, array |-> array]
           step == [k \in 1 .. last |-> [s \in R |-> Turn(s, c, Source(c)[k])]]
           Body(f) == [k \in 0 .. last |->
                         IF k = 0 THEN base ELSE Turn(f[k - 1], c, Source(c)[k])]
<1>1. last \in Nat /\ c.size \in Nat
  BY CallFields
<1>2. base \in R
  BY <1>1 DEF Filling
<1>3. step \in [1 .. last -> [R -> R]]
  BY TurnType
<1>4. \A k \in 1 .. last, s \in R : step[k][s] = Turn(s, c, Source(c)[k])
  OBVIOUS
<1>5. Filled(array, c) = (CHOOSE f : f = Body(f))[last]
  BY DEF Filled
<1> HIDE DEF last, R, base, step
<1>6. PICK f : Recurs(f, last, R, base, step)
  BY <1>1, <1>2, <1>3, Recursion
<1>7. f = Body(f)
  <2>1. \A k \in 1 .. last : f[k] = Turn(f[k - 1], c, Source(c)[k])
    <3> TAKE k \in 1 .. last
    <3>1. k - 1 \in 0 .. last
      BY <1>1
    <3>2. f[k - 1] \in R
      BY <1>6, <3>1 DEF Recurs
    <3> QED BY <1>4, <1>6, <3>2 DEF Recurs
  <2> QED BY <1>6, <2>1 DEF Recurs
<1> DEFINE g == CHOOSE h : h = Body(h)
<1>8. g = Body(g)
  BY <1>7
<1> HIDE DEF g
<1>9. /\ DOMAIN g = 0 .. last /\ g[0] = base
      /\ \A k \in 1 .. last : g[k] = Turn(g[k - 1], c, Source(c)[k])
  BY <1>1, <1>8
<1>10. ASSUME NEW k \in 0 .. last PROVE g[k] \in R
  <2> DEFINE T == {m \in Nat : m <= last => g[m] \in R}
  <2>1. 0 \in T
    BY <1>2, <1>9
  <2>2. ASSUME NEW m \in Nat, m \in T PROVE m + 1 \in T
    <3> SUFFICES ASSUME m + 1 <= last PROVE g[m + 1] \in R
      OBVIOUS
    <3>1. g[m] \in R /\ m + 1 \in 1 .. last /\ (m + 1) - 1 = m
      BY <1>1, <2>2
    <3>2. g[m + 1] = Turn(g[m], c, Source(c)[m + 1])
      BY <1>9, <3>1
    <3> QED BY <3>1, <3>2, TurnType DEF R, last
  <2> HIDE DEF T
  <2>3. k \in Nat /\ k \in T
    BY <1>1, <2>1, <2>2, Induction
  <2> QED BY <2>3 DEF T
<1>11. g \in [0 .. last -> R]
  BY <1>8, <1>10
<1> QED BY <1>5, <1>9, <1>11 DEF Loops, last, R, base, g

\* What was asked for in the list up to place k, and how much that is.
Before(c, k) == {j \in Asked(c) : j <= k}
Count(c, k) == Cardinality(Before(c, k))

LEMMA Counting ==
  ASSUME NEW c \in Call, NEW k \in Nat
  PROVE  /\ Count(c, k) \in Nat
         /\ Before(c, 0) = {} /\ Count(c, 0) = 0
         /\ k + 1 \in Asked(c) => /\ Before(c, k + 1) = Before(c, k) \cup {k + 1}
                                  /\ Count(c, k + 1) = Count(c, k) + 1
         /\ k + 1 \notin Asked(c) => Before(c, k + 1) = Before(c, k)
         /\ \A j \in Before(c, k) : /\ Count(c, j) \in Nat \ {0}
                                    /\ Count(c, j) <= Count(c, k)
<1>1. Asked(c) \subseteq Nat \ {0}
  BY CallFields DEF Asked
<1>2. ASSUME NEW m \in Nat PROVE IsFiniteSet(Before(c, m)) /\ Count(c, m) \in Nat
  <2>1. IsFiniteSet(1 .. m)
    BY FS_Interval
  <2>2. Before(c, m) \subseteq 1 .. m
    BY <1>1 DEF Before
  <2> QED BY <2>1, <2>2, FS_Subset, FS_CardinalityType DEF Count
<1>3. Before(c, 0) = {} /\ Count(c, 0) = 0
  BY <1>1, FS_EmptySet DEF Before, Count
<1>4. ASSUME k + 1 \in Asked(c)
      PROVE  /\ Before(c, k + 1) = Before(c, k) \cup {k + 1}
             /\ Count(c, k + 1) = Count(c, k) + 1
  <2>1. Before(c, k + 1) = Before(c, k) \cup {k + 1} /\ k + 1 \notin Before(c, k)
    BY <1>1, <1>4 DEF Before
  <2> QED BY <1>2, <2>1, FS_AddElement DEF Count
<1>5. k + 1 \notin Asked(c) => Before(c, k + 1) = Before(c, k)
  BY <1>1 DEF Before
<1>6. ASSUME NEW j \in Before(c, k)
      PROVE  Count(c, j) \in Nat \ {0} /\ Count(c, j) <= Count(c, k)
  <2>1. j \in Nat /\ j <= k /\ j \in Before(c, j)
    BY <1>1 DEF Before
  <2>2. Before(c, j) \subseteq Before(c, k) /\ Before(c, j) # {}
    BY <1>1, <2>1 DEF Before
  <2>3. Count(c, j) \in Nat /\ Count(c, j) # 0
    BY <1>2, <2>1, <2>2, FS_EmptySet DEF Count
  <2>4. Count(c, j) <= Count(c, k)
    BY <1>2, <2>2, FS_Subset DEF Count
  <2> QED BY <2>3, <2>4
<1> QED BY <1>2, <1>3, <1>4, <1>5, <1>6

\* After k turns the loop has as many results as were asked for up to there, or as
\* there is room for; they are the first of these, in order, and it has written
\* nothing else.
HasFilled(s, array, n, c, k) ==
  /\ s.i = IF Count(c, k) < c.size THEN Count(c, k) ELSE c.size
  /\ \A i \in 1 .. n : i > s.i => s.array[i] = array[i]
  /\ \A j \in Before(c, k) :
       Count(c, j) <= s.i => s.array[Count(c, j)] = Result(c, Source(c)[j])

LEMMA TurnFills ==
  ASSUME NEW c \in Call, NEW n \in Nat, c.size <= n, NEW array,
         NEW s \in Filling(n, c.size), NEW k \in Nat, k + 1 \in 1 .. Len(Source(c)),
         HasFilled(s, array, n, c, k)
  PROVE  HasFilled(Turn(s, c, Source(c)[k + 1]), array, n, c, k + 1)
<1> DEFINE a == Source(c)[k + 1]
           t == Turn(s, c, a)
<1>1. /\ Count(c, k) \in Nat /\ c.size \in Nat
      /\ s.i \in 0 .. c.size /\ s.array \in [1 .. n -> Address]
  BY Counting, CallFields DEF Filling
<1>2. \A j \in Before(c, k) : Count(c, j) \in Nat \ {0} /\ Count(c, j) <= Count(c, k)
  BY Counting
<1>3. CASE k + 1 \notin Asked(c)
  <2>1. t = s
    BY <1>3, KeptIsAsked DEF Turn
  <2>2. Before(c, k + 1) = Before(c, k) /\ Count(c, k + 1) = Count(c, k)
    BY <1>3, Counting DEF Count
  <2> QED BY <2>1, <2>2 DEF HasFilled
<1>4. CASE k + 1 \in Asked(c)
  <2>1. /\ Before(c, k + 1) = Before(c, k) \cup {k + 1}
        /\ Count(c, k + 1) = Count(c, k) + 1
    BY <1>4, Counting
  <2>2. Keeps(c, a)
    BY <1>4, KeptIsAsked
  <2>3. CASE Count(c, k) < c.size
    <3>1. s.i = Count(c, k) /\ s.i + 1 \in 1 .. n
      BY <1>1, <2>3 DEF HasFilled
    <3>2. t = [i |-> s.i + 1, array |-> [s.array EXCEPT ![s.i + 1] = Result(c, a)]]
      BY <2>2, <2>3, <3>1 DEF Turn, Room
    <3>3. /\ t.i = Count(c, k + 1) /\ t.i = s.i + 1
          /\ t.array[s.i + 1] = Result(c, a)
          /\ \A i \in 1 .. n : i # s.i + 1 => t.array[i] = s.array[i]
      BY <1>1, <2>1, <3>1, <3>2
    <3> HIDE DEF t
    <3>4. t.i = IF Count(c, k + 1) < c.size THEN Count(c, k + 1) ELSE c.size
      BY <1>1, <2>1, <2>3, <3>3
    <3>5. ASSUME NEW i \in 1 .. n, i > t.i PROVE t.array[i] = array[i]
      BY <1>1, <3>3, <3>5 DEF HasFilled
    <3>6. ASSUME NEW j \in Before(c, k + 1)
          PROVE  t.array[Count(c, j)] = Result(c, Source(c)[j])
      <4>1. CASE j = k + 1
        BY <3>3, <4>1
      <4>2. CASE j \in Before(c, k)
        <5>1. Count(c, j) \in 1 .. n /\ Count(c, j) <= s.i
          BY <1>1, <1>2, <3>1, <4>2
        <5>2. t.array[Count(c, j)] = s.array[Count(c, j)]
          BY <1>1, <3>3, <5>1
        <5> QED BY <4>2, <5>1, <5>2 DEF HasFilled
      <4> QED BY <2>1, <4>1, <4>2
    <3> QED BY <3>4, <3>5, <3>6 DEF HasFilled, t
  <2>4. CASE ~ (Count(c, k) < c.size)
    <3>1. s.i = c.size
      BY <2>4 DEF HasFilled
    <3>2. t = s
      BY <1>1, <3>1 DEF Turn, Room
    <3>3. ~ (Count(c, k + 1) < c.size) /\ ~ (Count(c, k + 1) <= s.i)
      BY <1>1, <2>1, <2>4, <3>1
    <3> QED BY <2>1, <3>1, <3>2, <3>3 DEF HasFilled
  <2> QED BY <2>3, <2>4
<1> QED BY <1>3, <1>4

\* What Filled() returns.
LEMMA FilledIsRight ==
  ASSUME NEW c \in Call, NEW n \in Nat, c.size <= n, NEW array \in [1 .. n -> Address]
  PROVE  /\ Filled(array, c) \in Filling(n, c.size)
         /\ HasFilled(Filled(array, c), array, n, c, Len(Source(c)))
         /\ Before(c, Len(Source(c))) = Asked(c)
<1> DEFINE last == Len(Source(c))
<1>1. last \in Nat /\ c.size \in Nat /\ DOMAIN Source(c) = 1 .. last
  BY CallFields
<1>2. PICK loop : Loops(loop, array, n, c)
  BY LoopExists
<1> DEFINE Good == {k \in Nat : k <= last => HasFilled(loop[k], array, n, c, k)}
<1>3. 0 \in Good
  <2>1. loop[0].i = 0 /\ loop[0].array = array
    BY <1>2 DEF Loops
  <2>2. Count(c, 0) = 0 /\ Before(c, 0) = {}
    BY Counting
  <2> QED BY <1>1, <2>1, <2>2 DEF HasFilled
<1>4. ASSUME NEW k \in Nat, k \in Good PROVE k + 1 \in Good
  <2> SUFFICES ASSUME k + 1 <= last PROVE HasFilled(loop[k + 1], array, n, c, k + 1)
    OBVIOUS
  <2>1. k + 1 \in 1 .. last /\ k \in 0 .. last /\ (k + 1) - 1 = k
    BY <1>1
  <2>2. loop[k] \in Filling(n, c.size) /\ loop[k + 1] = Turn(loop[k], c, Source(c)[k + 1])
    BY <1>2, <2>1 DEF Loops
  <2>3. HasFilled(loop[k], array, n, c, k)
    BY <1>4, <2>1
  <2> QED BY <2>1, <2>2, <2>3, TurnFills
<1>5. last \in Good
  <2> HIDE DEF Good
  <2> QED BY <1>1, <1>3, <1>4, Induction
<1>6. Filled(array, c) = loop[last] /\ last \in 0 .. last
  BY <1>1, <1>2 DEF Loops
<1>7. Filled(array, c) \in Filling(n, c.size)
  BY <1>2, <1>6 DEF Loops
<1>8. Before(c, last) = Asked(c)
  BY <1>1 DEF Before, Asked
<1> QED BY <1>5, <1>6, <1>7, <1>8

LEMMA ResultIsRight ==
  ASSUME NEW c \in Call, NEW k \in Asked(c)
  PROVE  IF c.kind = "interfaces"
         THEN /\ Result(c, Source(c)[k]).family = c.list[k].family
              /\ Host(Result(c, Source(c)[k])) = Host(c.list[k])
              /\ UnsignedShort(GetPort(Result(c, Source(c)[k]))) = ServicePort(c.answer)
         ELSE Result(c, Source(c)[k]) = c.answer[k]
<1>1. CASE c.kind = "interfaces"
  <2> DEFINE a == c.list[k]
             n == ServicePort(c.answer)
             r == WithPort(a, n)
  <2>1. Result(c, Source(c)[k]) = r
    BY <1>1 DEF Result, Source
  <2>2. k \in DOMAIN c.list /\ HasFamily(a) /\ a \in SocketAddress
    BY <1>1, CallFields, ElementOfSeq DEF Asked, Source
  <2>3. a \in Address /\ n \in Hextet
    BY <2>2, FamilyIsAddress, ServicePortIsOne
  <2>4. r.family = a.family /\ Host(r) = Host(a) /\ r.port = htons(n)
    BY <2>2, <2>3, WithPortFields
  <2>5. GetPort(r) = Short(ntohs(htons(n)))
    BY <2>2, <2>4 DEF GetPort, HasFamily
  <2>6. UnsignedShort(GetPort(r)) = n
    BY <2>3, <2>5, PortAndBack, ShortAndBack
  <2> QED BY <1>1, <2>1, <2>4, <2>6
<1>2. CASE c.kind # "interfaces"
  BY <1>2 DEF Result, Source
<1> QED BY <1>1, <1>2

-----------------------------------------------------------------------------
\* The specification.

AddressInv == AddressTypeOK /\ ParseIsRight

LEMMA AddressInitInv == AddressInit => AddressInv
<1> SUFFICES ASSUME AddressInit PROVE AddressInv
  OBVIOUS
<1>1. AddressTypeOK
  BY MadeAddresses, AddressAssumption DEF AddressInit, AddressTypeOK
<1>2. ParseIsRight
  BY DEF AddressInit, ParseIsRight
<1> QED BY <1>1, <1>2 DEF AddressInv

\* A call of Parse() counts what it writes, and leaves the rest of the array.
LEMMA ParseWrites ==
  ASSUME AddressTypeOK, NEW c \in Call, Parse(c)
  PROVE  /\ AddressTypeOK'
         /\ returned' <= c.size
         /\ \A i \in DOMAIN results : i > returned' => results'[i] = results[i]
         /\ returned' >= 0 => HasFilled([i |-> returned', array |-> results'], results,
                                        ResultsSize, c, Len(Source(c)))
<1>1. /\ results \in [1 .. ResultsSize -> Address] /\ ResultsSize \in Nat
      /\ c.size \in Nat /\ c.size <= ResultsSize /\ call' = c
  BY CallFields, AddressAssumption DEF AddressTypeOK, Parse
<1>2. CASE Fills(Filled(results, c))
  <2> DEFINE s == Filled(results, c)
  <2>1. s \in Filling(ResultsSize, c.size)
        /\ HasFilled(s, results, ResultsSize, c, Len(Source(c)))
    BY <1>1, FilledIsRight
  <2>2. results' = s.array /\ returned' = s.i
    BY <1>2 DEF Fills
  <2> HIDE DEF s
  <2>3. s = [i |-> returned', array |-> results']
    BY <2>1, <2>2 DEF Filling
  <2>4. returned' \in 0 .. c.size /\ results' \in [1 .. ResultsSize -> Address]
    BY <2>1, <2>2 DEF Filling
  <2>5. \A i \in 1 .. ResultsSize : i > returned' => results'[i] = results[i]
    BY <2>1, <2>2 DEF HasFilled
  <2>6. AddressTypeOK'
    BY <1>1, <2>4 DEF AddressTypeOK
  <2> QED BY <1>1, <2>1, <2>3, <2>4, <2>5, <2>6
<1>3. CASE Fails
  <2>1. returned' = -1 /\ results' = results
    BY <1>3 DEF Fails
  <2>2. AddressTypeOK'
    BY <1>1, <2>1 DEF AddressTypeOK
  <2> QED BY <1>1, <2>1, <2>2
<1> QED BY <1>2, <1>3 DEF Parse, ParseFails

LEMMA ParseInv ==
  ASSUME AddressInv, NEW c \in Call, Parse(c)
  PROVE  AddressInv'
<1>1. /\ AddressTypeOK' /\ call' = c
      /\ returned' >= 0 => HasFilled([i |-> returned', array |-> results'], results,
                                     ResultsSize, c, Len(Source(c)))
  BY ParseWrites DEF AddressInv, Parse
<1>2. ASSUME returned' >= 0 PROVE ParseIsRight'
  <2> DEFINE last == Len(Source(c))
             port == ServicePort(c.answer)
  <2>1. Before(c, last) = Asked(c) /\ Count(c, last) = Cardinality(Asked(c))
    <3>1. ResultsSize \in Nat /\ c.size <= ResultsSize
          /\ results \in [1 .. ResultsSize -> Address]
      BY CallFields, AddressAssumption DEF AddressInv, AddressTypeOK
    <3> QED BY <3>1, FilledIsRight DEF Count
  <2>2. HasFilled([i |-> returned', array |-> results'], results, ResultsSize, c, last)
    BY <1>1, <1>2
  <2> HIDE DEF last
  <2>3. /\ returned' = IF Cardinality(Asked(c)) < c.size THEN Cardinality(Asked(c))
                       ELSE c.size
        /\ \A k \in Asked(c) : Count(c, k) <= returned' =>
             results'[Count(c, k)] = Result(c, Source(c)[k])
    BY <2>1, <2>2 DEF HasFilled
  <2>4. port \in Ports(c)
    BY ServicePortIsOne
  <2>5. ASSUME NEW k \in Asked(c), Count(c, k) <= returned'
        PROVE  IF c.kind = "interfaces"
               THEN /\ results'[Count(c, k)].family = c.list[k].family
                    /\ Host(results'[Count(c, k)]) = Host(c.list[k])
                    /\ UnsignedShort(GetPort(results'[Count(c, k)])) = port
               ELSE results'[Count(c, k)] = c.answer[k]
    BY <2>3, <2>5, ResultIsRight
  <2> HIDE DEF port
  <2>6. \A k \in Asked(c) : Count(c, k) = Cardinality({j \in Asked(c) : j <= k})
    BY DEF Count, Before
  <2> QED BY <1>1, <2>3, <2>4, <2>5, <2>6 DEF ParseIsRight
<1>3. ~ (returned' >= 0) => ParseIsRight'
  BY DEF ParseIsRight
<1> QED BY <1>1, <1>2, <1>3 DEF AddressInv

LEMMA ConstructInv ==
  ASSUME AddressInv, NEW i \in DOMAIN results, Construct(i)
  PROVE  AddressInv'
<1> USE AddressAssumption
<1>1. results \in [1 .. ResultsSize -> Address] /\ DOMAIN results = 1 .. ResultsSize
  BY DEF AddressInv, AddressTypeOK
<1>2. ASSUME NEW a \in Address, Assign(i, a) PROVE AddressInv'
  <2>1. results' \in [1 .. ResultsSize -> Address] /\ returned' = 0 /\ call' = NoCall
    BY <1>1, <1>2 DEF Assign
  <2> QED BY <2>1 DEF AddressInv, AddressTypeOK, ParseIsRight
<1>3. ASSUME NEW f \in IPAddressFamily, Assign(i, Empty(f)) \/ Assign(i, Loopback(f))
      PROVE  AddressInv'
  BY <1>2, <1>3, MadeAddresses
<1>4. ASSUME NEW a \in Native, Assign(i, a) PROVE AddressInv'
  BY <1>2, <1>4
<1>5. ASSUME NEW j \in DOMAIN results, NEW n \in Port, Assign(i, WithPort(results[j], n))
      PROVE  AddressInv'
  <2>1. WithPort(results[j], n) \in Address
    BY <1>1, WithPortFields
  <2> QED BY <1>2, <1>5, <2>1
<1>6. ASSUME NEW c \in Call, c.size = 1,
             Assign(i, Filled(<<Empty("FAMILY_UNSPECIFIED")>>, c).array[1])
      PROVE  AddressInv'
  <2> DEFINE empty == <<Empty("FAMILY_UNSPECIFIED")>>
  <2>1. empty \in [1 .. 1 -> Address]
    BY MadeAddresses
  <2> HIDE DEF empty
  <2>2. Filled(empty, c) \in Filling(1, c.size)
    <3>1. 1 \in Nat /\ c.size <= 1
      BY <1>6
    <3> QED BY <2>1, <3>1, FilledIsRight
  <2>3. Filled(empty, c).array[1] \in Address
    BY <2>2 DEF Filling
  <2> QED BY <1>2, <1>6, <2>3 DEF empty
<1>7. CASE \E f \in IPAddressFamily : Assign(i, Empty(f)) \/ Assign(i, Loopback(f))
  BY <1>3, <1>7
<1>8. CASE \E c \in {d \in Call : d.size = 1 /\ IsAnswered(d)} :
             Assign(i, Filled(<<Empty("FAMILY_UNSPECIFIED")>>, c).array[1])
  BY <1>6, <1>8
<1> QED BY <1>4, <1>5, <1>7, <1>8 DEF Construct

\* The type of the state and ParseIsRight are together inductive.
THEOREM AddressInductive == AddressSpec => []AddressInv
<1>1. AddressInv /\ [AddressNext]_addressVars => AddressInv'
  <2> SUFFICES ASSUME AddressInv, [AddressNext]_addressVars PROVE AddressInv'
    OBVIOUS
  <2>1. CASE \E c \in Call : Parse(c)
    BY <2>1, ParseInv
  <2>2. CASE \E i \in DOMAIN results : Construct(i)
    BY <2>2, ConstructInv
  <2>3. CASE UNCHANGED addressVars
    BY <2>3 DEF addressVars, AddressInv, AddressTypeOK, ParseIsRight
  <2> QED BY <2>1, <2>2, <2>3 DEF AddressNext
<1> QED BY <1>1, AddressInitInv, PTL DEF AddressSpec

\* The array of results always holds whole addresses.
THEOREM AddressTypeCorrect == AddressSpec => []AddressTypeOK
<1>1. AddressInv => AddressTypeOK
  BY DEF AddressInv
<1> QED BY <1>1, AddressInductive, PTL

\* Parse() gives what was asked for, all of it and nothing else, as far as there is
\* room: for every list of interfaces and every answer.
THEOREM ParseRight == AddressSpec => []ParseIsRight
<1>1. AddressInv => ParseIsRight
  BY DEF AddressInv
<1> QED BY <1>1, AddressInductive, PTL

\* Parse() writes only the entries that it counts, and no more than it was given.
THEOREM StaysInside == AddressSpec => ParseStaysInside
<1> DEFINE Inside == call' # NoCall =>
                       /\ returned' <= call'.size
                       /\ \A i \in DOMAIN results :
                            i > returned' => results'[i] = results[i]
<1>1. AddressTypeOK /\ [AddressNext]_addressVars => [Inside]_addressVars
  <2> SUFFICES ASSUME AddressTypeOK, AddressNext PROVE Inside
    OBVIOUS
  <2>1. ASSUME NEW c \in Call, Parse(c) PROVE Inside
    BY <2>1, ParseWrites DEF Parse
  <2>2. ASSUME NEW i \in DOMAIN results, Construct(i) PROVE Inside
    BY <2>2 DEF Construct, Assign
  <2> QED BY <2>1, <2>2 DEF AddressNext
<1> QED BY <1>1, AddressTypeCorrect, PTL DEF AddressSpec, ParseStaysInside

\* Equal addresses in the array hash alike, and the port is no part of the hash
\* without it.
THEOREM HashesAgree == AddressSpec => []HashAgrees
<1>1. AddressTypeOK => HashAgrees
  <2> SUFFICES ASSUME AddressTypeOK, NEW i \in DOMAIN results, NEW j \in DOMAIN results
               PROVE  /\ HashesAlike(results[i], results[j])
                      /\ \A n \in Port : Hash(WithPort(results[i], n), FALSE)
                                           = Hash(results[i], FALSE)
    BY DEF HashAgrees
  <2>1. results[i] \in Address /\ results[j] \in Address
    BY DEF AddressTypeOK
  <2>2. ASSUME NEW n \in Port
        PROVE  Hash(WithPort(results[i], n), FALSE) = Hash(results[i], FALSE)
    <3>1. WithPort(results[i], n).family = results[i].family
          /\ Host(WithPort(results[i], n)) = Host(results[i])
      BY <2>1, WithPortFields, AddressAssumption
    <3> QED BY <3>1 DEF Hash, HasFamily
  <2> QED BY <2>1, <2>2, EqualAddressesHashAlike
<1> QED BY <1>1, AddressTypeCorrect, PTL

\* A port read from one entry of the array and given to another is the same port.
THEOREM PortsSurvive == AddressSpec => []PortSurvives
<1>1. AddressTypeOK => PortSurvives
  BY PortsReturn DEF AddressTypeOK, PortSurvives
<1> QED BY <1>1, AddressTypeCorrect, PTL

-----------------------------------------------------------------------------
\* Numbers and their digits, in the two bases that ToURI() writes.

Base == {10, 16}

LEMMA PowersOfTen ==
  10^0 = 1 /\ 10^1 = 10 /\ 10^2 = 100 /\ 10^3 = 1000 /\ 10^4 = 10000 /\ 10^5 = 100000
OBVIOUS

LEMMA PowersOfSixteen ==
  16^0 = 1 /\ 16^1 = 16 /\ 16^2 = 256 /\ 16^3 = 4096 /\ 16^4 = 65536 /\ 16^5 = 1048576
OBVIOUS

\* n has w digits.
HasWidth(n, base, w) == w \in 1 .. 5 /\ n < base^w /\ (w > 1 => n >= base^(w - 1))

LEMMA WidthsOfTen ==
  ASSUME NEW n \in Nat, NEW w
  PROVE  HasWidth(n, 10, w) <=>
           \/ w = 1 /\ n < 10
           \/ w = 2 /\ n >= 10 /\ n < 100
           \/ w = 3 /\ n >= 100 /\ n < 1000
           \/ w = 4 /\ n >= 1000 /\ n < 10000
           \/ w = 5 /\ n >= 10000 /\ n < 100000
<1>1. w \in 1 .. 5 <=> w = 1 \/ w = 2 \/ w = 3 \/ w = 4 \/ w = 5
  OBVIOUS
<1>2. CASE w = 1
  BY <1>2 DEF HasWidth
<1>3. CASE w = 2
  BY <1>3 DEF HasWidth
<1>4. CASE w = 3
  BY <1>4 DEF HasWidth
<1>5. CASE w = 4
  BY <1>5 DEF HasWidth
<1>6. CASE w = 5
  BY <1>6 DEF HasWidth
<1>7. CASE w \notin 1 .. 5
  BY <1>1, <1>7 DEF HasWidth
<1> QED BY <1>1, <1>2, <1>3, <1>4, <1>5, <1>6, <1>7

LEMMA WidthsOfSixteen ==
  ASSUME NEW n \in Nat, NEW w
  PROVE  HasWidth(n, 16, w) <=>
           \/ w = 1 /\ n < 16
           \/ w = 2 /\ n >= 16 /\ n < 256
           \/ w = 3 /\ n >= 256 /\ n < 4096
           \/ w = 4 /\ n >= 4096 /\ n < 65536
           \/ w = 5 /\ n >= 65536 /\ n < 1048576
<1>1. w \in 1 .. 5 <=> w = 1 \/ w = 2 \/ w = 3 \/ w = 4 \/ w = 5
  OBVIOUS
<1>2. CASE w = 1
  BY <1>2 DEF HasWidth
<1>3. CASE w = 2
  BY <1>3 DEF HasWidth
<1>4. CASE w = 3
  BY <1>4 DEF HasWidth
<1>5. CASE w = 4
  BY <1>5 DEF HasWidth
<1>6. CASE w = 5
  BY <1>6 DEF HasWidth
<1>7. CASE w \notin 1 .. 5
  BY <1>1, <1>7 DEF HasWidth
<1> QED BY <1>1, <1>2, <1>3, <1>4, <1>5, <1>6, <1>7

LEMMA WidthIs ==
  ASSUME NEW n \in Hextet, NEW base \in Base
  PROVE  /\ HasWidth(n, base, Width(n, base))
         /\ \A w : HasWidth(n, base, w) => w = Width(n, base)
<1>1. n \in Nat /\ n < 65536
  BY NumbersOfBytes
<1>2. Width(n, base) = CHOOSE w \in 1 .. 5 : HasWidth(n, base, w)
  BY DEF Width, HasWidth
<1>3. CASE base = 10
  <2>1. \E w \in 1 .. 5 : HasWidth(n, 10, w)
    BY <1>1, WidthsOfTen
  <2>2. \A v, w : HasWidth(n, 10, v) /\ HasWidth(n, 10, w) => v = w
    BY <1>1, WidthsOfTen
  <2> QED BY <1>2, <1>3, <2>1, <2>2
<1>4. CASE base = 16
  <2>1. \E w \in 1 .. 5 : HasWidth(n, 16, w)
    BY <1>1, WidthsOfSixteen
  <2>2. \A v, w : HasWidth(n, 16, v) /\ HasWidth(n, 16, w) => v = w
    BY <1>1, WidthsOfSixteen
  <2> QED BY <1>2, <1>4, <2>1, <2>2
<1> QED BY <1>3, <1>4 DEF Base

\* A number of one digit has width 1, and the last digit of any other makes it one
\* wider.
LEMMA WidthStep ==
  ASSUME NEW n \in Hextet, NEW base \in Base
  PROVE  /\ Width(n, base) \in 1 .. 5
         /\ n < base => Width(n, base) = 1
         /\ n >= base => /\ n \div base \in Hextet
                         /\ Width(n, base) = Width(n \div base, base) + 1
<1> DEFINE w == Width(n, base)
<1>1. n \in Nat /\ n < 65536
  BY NumbersOfBytes
<1>2. HasWidth(n, base, w)
  BY WidthIs
<1> HIDE DEF w
<1>3. CASE base = 10
  <2>1. \/ w = 1 /\ n < 10
        \/ w = 2 /\ n >= 10 /\ n < 100
        \/ w = 3 /\ n >= 100 /\ n < 1000
        \/ w = 4 /\ n >= 1000 /\ n < 10000
        \/ w = 5 /\ n >= 10000 /\ n < 100000
    BY <1>1, <1>2, <1>3, WidthsOfTen
  <2>2. n \div 10 \in Nat /\ n \div 10 < 65536
    BY <1>1
  <2>3. n \div 10 \in Hextet
    BY <2>2, NumbersOfBytes
  <2>4. n >= 10 => HasWidth(n \div 10, 10, w - 1)
    <3>1. /\ n >= 10 /\ n < 100 => n \div 10 < 10
          /\ n >= 100 /\ n < 1000 => n \div 10 >= 10 /\ n \div 10 < 100
          /\ n >= 1000 /\ n < 10000 => n \div 10 >= 100 /\ n \div 10 < 1000
          /\ n >= 10000 /\ n < 100000 => n \div 10 >= 1000 /\ n \div 10 < 10000
      BY <1>1
    <3> QED BY <1>1, <2>1, <2>2, <3>1, WidthsOfTen
  <2>5. n >= 10 => w - 1 = Width(n \div 10, 10)
    BY <1>3, <2>3, <2>4, WidthIs
  <2> QED BY <1>1, <1>3, <2>1, <2>3, <2>5 DEF w
<1>4. CASE base = 16
  <2>1. \/ w = 1 /\ n < 16
        \/ w = 2 /\ n >= 16 /\ n < 256
        \/ w = 3 /\ n >= 256 /\ n < 4096
        \/ w = 4 /\ n >= 4096 /\ n < 65536
    BY <1>1, <1>2, <1>4, WidthsOfSixteen
  <2>2. n \div 16 \in Nat /\ n \div 16 < 65536
    BY <1>1
  <2>3. n \div 16 \in Hextet
    BY <2>2, NumbersOfBytes
  <2>4. n >= 16 => HasWidth(n \div 16, 16, w - 1)
    <3>1. /\ n >= 16 /\ n < 256 => n \div 16 < 16
          /\ n >= 256 /\ n < 4096 => n \div 16 >= 16 /\ n \div 16 < 256
          /\ n >= 4096 /\ n < 65536 => n \div 16 >= 256 /\ n \div 16 < 4096
      BY <1>1
    <3> QED BY <1>1, <2>1, <2>2, <3>1, WidthsOfSixteen
  <2>5. n >= 16 => w - 1 = Width(n \div 16, 16)
    BY <1>4, <2>3, <2>4, WidthIs
  <2> QED BY <1>1, <1>4, <2>1, <2>3, <2>5 DEF w
<1> QED BY <1>3, <1>4 DEF Base

LEMMA PowersPositive ==
  ASSUME NEW base \in Base, NEW k \in 0 .. 4
  PROVE  base^0 = 1 /\ base^k \in Nat \ {0}
<1>1. k = 0 \/ k = 1 \/ k = 2 \/ k = 3 \/ k = 4
  OBVIOUS
<1>2. CASE base = 10
  <2>1. 10^k \in {10^0, 10^1, 10^2, 10^3, 10^4}
    BY <1>1
  <2>2. 10^k \in Nat \ {0}
    BY <2>1
  <2> QED BY <1>2, <2>2
<1>3. CASE base = 16
  <2>1. 16^k \in {16^0, 16^1, 16^2, 16^3, 16^4}
    BY <1>1
  <2>2. 16^k \in Nat \ {0}
    BY <2>1
  <2> QED BY <1>3, <2>2
<1> QED BY <1>2, <1>3 DEF Base

\* Two divisions by powers of the base are one.
LEMMA DivideTwice ==
  ASSUME NEW n \in Nat, NEW base \in Base, NEW k \in 1 .. 4
  PROVE  n \div base^k = (n \div base) \div base^(k - 1)
<1>1. k = 1 \/ k = 2 \/ k = 3 \/ k = 4
  OBVIOUS
<1>2. CASE base = 10
  <2>1. /\ n \div 10 = (n \div 10) \div 1
        /\ n \div 100 = (n \div 10) \div 10
        /\ n \div 1000 = (n \div 10) \div 100
        /\ n \div 10000 = (n \div 10) \div 1000
    OBVIOUS
  <2>2. CASE k = 1
    BY <1>2, <2>1, <2>2
  <2>3. CASE k = 2
    BY <1>2, <2>1, <2>3
  <2>4. CASE k = 3
    BY <1>2, <2>1, <2>4
  <2>5. CASE k = 4
    BY <1>2, <2>1, <2>5
  <2> QED BY <1>1, <2>2, <2>3, <2>4, <2>5
<1>3. CASE base = 16
  <2>1. /\ n \div 16 = (n \div 16) \div 1
        /\ n \div 256 = (n \div 16) \div 16
        /\ n \div 4096 = (n \div 16) \div 256
        /\ n \div 65536 = (n \div 16) \div 4096
    OBVIOUS
  <2>2. CASE k = 1
    BY <1>3, <2>1, <2>2
  <2>3. CASE k = 2
    BY <1>3, <2>1, <2>3
  <2>4. CASE k = 3
    BY <1>3, <2>1, <2>4
  <2>5. CASE k = 4
    BY <1>3, <2>1, <2>5
  <2> QED BY <1>1, <2>2, <2>3, <2>4, <2>5
<1> QED BY <1>2, <1>3 DEF Base

\* The characters of a text.
Char == {Digit[i] : i \in 1 .. 16} \cup {".", ":", "[", "]"}

LEMMA DigitsAreChars ==
  ASSUME NEW n \in Nat, NEW base \in Base
  PROVE  Digit[(n % base) + 1] \in Char
<1>1. CASE base = 10
  <2>1. (n % 10) + 1 \in 1 .. 16
    OBVIOUS
  <2> QED BY <1>1, <2>1 DEF Char
<1>2. CASE base = 16
  <2>1. (n % 16) + 1 \in 1 .. 16
    OBVIOUS
  <2> QED BY <1>2, <2>1 DEF Char
<1> QED BY <1>1, <1>2 DEF Base

LEMMA NumeralType ==
  ASSUME NEW n \in Hextet, NEW base \in Base
  PROVE  /\ Numeral(n, base) \in Seq(Char)
         /\ Len(Numeral(n, base)) = Width(n, base)
         /\ Len(Numeral(n, base)) \in 1 .. 5
<1> DEFINE w == Width(n, base)
           e == [i \in 1 .. w |-> Digit[((n \div base^(w - i)) % base) + 1]]
<1>1. w \in 1 .. 5 /\ n \in Nat
  BY WidthStep, NumbersOfBytes
<1>2. Numeral(n, base) = e
  BY DEF Numeral
<1>3. ASSUME NEW i \in 1 .. w PROVE e[i] \in Char
  <2>1. n \div base^(w - i) \in Nat
    <3>1. w - i \in 0 .. 4
      BY <1>1
    <3>2. base^(w - i) \in Nat \ {0}
      BY <3>1, PowersPositive
    <3> HIDE DEF w
    <3> QED BY <1>1, <3>2
  <2> QED BY <2>1, DigitsAreChars
<1> HIDE DEF w
<1>4. e \in [1 .. w -> Char]
  BY <1>3
<1> HIDE DEF e
<1>5. e \in Seq(Char) /\ Len(e) = w
  BY <1>1, <1>4
<1> QED BY <1>1, <1>2, <1>5 DEF w

LEMMA NumeralStep ==
  ASSUME NEW n \in Hextet, NEW base \in Base
  PROVE  /\ n < base => Numeral(n, base) = <<Digit[n + 1]>>
         /\ n >= base =>
              Numeral(n, base) = Numeral(n \div base, base) \o <<Digit[(n % base) + 1]>>
<1> DEFINE w == Width(n, base)
           q == n \div base
<1>1. n \in Nat /\ n < 65536 /\ base \in Nat \ {0} /\ base^0 = 1
  <2>1. base^0 = 1
    BY PowersPositive
  <2> QED BY <2>1, NumbersOfBytes DEF Base
<1>2. Numeral(n, base) = [i \in 1 .. w |-> Digit[((n \div base^(w - i)) % base) + 1]]
  BY DEF Numeral
<1>3. Numeral(n, base) \in Seq(Char) /\ Len(Numeral(n, base)) = w /\ w \in 1 .. 5
  BY NumeralType
<1> HIDE DEF w
<1>4. Numeral(n, base)[w] = Digit[(n % base) + 1]
  <2>1. w \in 1 .. w /\ w - w = 0 /\ n \div 1 = n
    BY <1>1, <1>3
  <2> QED BY <1>1, <1>2, <2>1
<1>5. ASSUME n < base PROVE Numeral(n, base) = <<Digit[n + 1]>>
  <2>1. w = 1 /\ n % base = n
    BY <1>1, <1>5, WidthStep DEF w
  <2> QED BY <1>3, <1>4, <2>1
<1>6. ASSUME n >= base
      PROVE  Numeral(n, base) = Numeral(q, base) \o <<Digit[(n % base) + 1]>>
  <2> DEFINE v == Width(q, base)
             s == Numeral(q, base)
             last == <<Digit[(n % base) + 1]>>
  <2>1. q \in Hextet /\ w = v + 1
    BY <1>6, WidthStep DEF w
  <2>2. s \in Seq(Char) /\ Len(s) = v /\ v \in 1 .. 5
    BY <2>1, NumeralType
  <2>3. s = [i \in 1 .. v |-> Digit[((q \div base^(v - i)) % base) + 1]]
    BY DEF Numeral
  <2>4. last \in Seq(Char) /\ Len(last) = 1
    BY <1>1, DigitsAreChars
  <2>5. \A k \in 1 .. 4 : n \div base^k = q \div base^(k - 1)
    BY <1>1, DivideTwice
  <2> HIDE DEF q, v, s
  <2>6. ASSUME NEW i \in 1 .. v PROVE Numeral(n, base)[i] = s[i]
    <3>1. w - i \in 1 .. 4 /\ (w - i) - 1 = v - i /\ i \in 1 .. w
      BY <1>3, <2>1, <2>2
    <3> QED BY <1>2, <2>3, <2>5, <3>1
  <2>7. /\ s \o last \in Seq(Char) /\ Len(s \o last) = w
        /\ \A i \in 1 .. w : (s \o last)[i] = IF i <= v THEN s[i] ELSE last[i - v]
    <3> HIDE DEF last
    <3>1. /\ s \o last \in Seq(Char) /\ Len(s \o last) = Len(s) + Len(last)
          /\ \A i \in 1 .. Len(s) + Len(last) :
               (s \o last)[i] = IF i <= Len(s) THEN s[i] ELSE last[i - Len(s)]
      BY <2>2, <2>4, ConcatProperties
    <3>2. Len(s) = v /\ Len(last) = 1 /\ Len(s) + Len(last) = w
      BY <2>1, <2>2, <2>4
    <3> QED BY <3>1, <3>2
  <2>8. ASSUME NEW i \in 1 .. w PROVE Numeral(n, base)[i] = (s \o last)[i]
    <3>1. CASE i <= v
      <4>1. i \in 1 .. v
        BY <2>2, <3>1
      <4> QED BY <2>6, <2>7, <4>1
    <3>2. CASE ~ (i <= v)
      <4>1. i = w /\ i - v = 1
        BY <1>3, <2>1, <2>2, <3>2
      <4> QED BY <1>4, <2>7, <3>2, <4>1
    <3> QED BY <3>1, <3>2
  <2> HIDE DEF last
  <2> QED BY <1>3, <2>7, <2>8, SeqEqual DEF s, last
<1> QED BY <1>5, <1>6

\* The digits written of a number while they may be leading zeroes.
Shown(n, base) == IF n = 0 THEN <<>> ELSE Numeral(n, base)

LEMMA ShownStep ==
  ASSUME NEW n \in Hextet, NEW base \in Base
  PROVE  /\ n \div base \in Hextet
         /\ Shown(n, base) \in Seq(Char)
         /\ Shown(n, base) = Shown(n \div base, base) \o
                               (IF n # 0 THEN <<Digit[(n % base) + 1]>> ELSE <<>>)
         /\ Shown(n \div base, base) \o <<Digit[(n % base) + 1]>> = Numeral(n, base)
<1> DEFINE q == n \div base
           last == <<Digit[(n % base) + 1]>>
<1>1. n \in Nat /\ n < 65536
  BY NumbersOfBytes
<1>2. q \in Nat /\ q <= n /\ (q = 0 <=> n < base) /\ (n < base => n % base = n)
  <2>1. CASE base = 10
    BY <1>1, <2>1
  <2>2. CASE base = 16
    BY <1>1, <2>2
  <2> QED BY <2>1, <2>2 DEF Base
<1>3. q \in Hextet
  BY <1>1, <1>2, NumbersOfBytes
<1>4. last \in Seq(Char)
  BY <1>1, DigitsAreChars
<1>5. /\ Numeral(n, base) \in Seq(Char) /\ Numeral(q, base) \in Seq(Char)
      /\ <<>> \in Seq(Char)
  BY <1>3, NumeralType, EmptySeq
<1>6. /\ n < base => Numeral(n, base) = <<Digit[n + 1]>>
      /\ n >= base => Numeral(n, base) = Numeral(q, base) \o last
  BY NumeralStep
<1>7. n \in Nat /\ base \in Nat
  BY <1>1 DEF Base
<1>8. n < base => last = <<Digit[n + 1]>>
  BY <1>2
<1> HIDE DEF q, last
<1>9. Shown(q, base) \o last = Numeral(n, base)
  <2>1. CASE n < base
    <3>1. Shown(q, base) = <<>>
      BY <1>2, <2>1 DEF Shown
    <3>2. <<>> \o last = last
      BY <1>4, ConcatEmptySeq
    <3> QED BY <1>6, <1>8, <2>1, <3>1, <3>2
  <2>2. CASE n >= base
    BY <1>2, <1>6, <1>7, <2>2 DEF Shown
  <2> QED BY <1>7, <2>1, <2>2
<1>10. Shown(n, base) = Shown(q, base) \o (IF n # 0 THEN last ELSE <<>>)
  <2>1. CASE n = 0
    <3>1. Shown(n, base) = <<>> /\ Shown(q, base) = <<>>
      BY <1>2, <1>7, <2>1 DEF Shown, Base
    <3>2. <<>> \o <<>> = <<>>
      BY <1>5, ConcatEmptySeq
    <3> QED BY <2>1, <3>1, <3>2
  <2>2. CASE n # 0
    BY <1>9, <2>2 DEF Shown
  <2> QED BY <2>1, <2>2
<1> QED BY <1>3, <1>5, <1>9, <1>10 DEF Shown, q, last

\* GetDigit() has written n down to the place of d, which is a power of ten.
Wrote(s, n, d) ==
  s = [value |-> n % d, show |-> (n \div d # 0), text |-> Shown(n \div d, 10)]

LEMMA TensAndOnes ==
  ASSUME NEW n \in Nat, NEW d \in {10, 100, 1000, 10000}
  PROVE  /\ (n % (10 * d)) \div d = (n \div d) % 10
         /\ (n % (10 * d)) % d = n % d
         /\ (n \div d) \div 10 = n \div (10 * d)
<1>1. CASE d = 10
  <2>1. (n % 100) \div 10 = (n \div 10) % 10
    OBVIOUS
  <2>2. (n % 100) % 10 = n % 10
    OBVIOUS
  <2>3. (n \div 10) \div 10 = n \div 100
    OBVIOUS
  <2> QED BY <1>1, <2>1, <2>2, <2>3
<1>2. CASE d = 100
  <2>1. (n % 1000) \div 100 = (n \div 100) % 10
    OBVIOUS
  <2>2. (n % 1000) % 100 = n % 100
    OBVIOUS
  <2>3. (n \div 100) \div 10 = n \div 1000
    OBVIOUS
  <2> QED BY <1>2, <2>1, <2>2, <2>3
<1>3. CASE d = 1000
  <2>1. (n % 10000) \div 1000 = (n \div 1000) % 10
    OBVIOUS
  <2>2. (n % 10000) % 1000 = n % 1000
    OBVIOUS
  <2>3. (n \div 1000) \div 10 = n \div 10000
    OBVIOUS
  <2> QED BY <1>3, <2>1, <2>2, <2>3
<1>4. CASE d = 10000
  <2>1. (n % 100000) \div 10000 = (n \div 10000) % 10
    OBVIOUS
  <2>2. (n % 100000) % 10000 = n % 10000
    OBVIOUS
  <2>3. (n \div 10000) \div 10 = n \div 100000
    OBVIOUS
  <2> QED BY <1>4, <2>1, <2>2, <2>3
<1> QED BY <1>1, <1>2, <1>3, <1>4

\* What GetDigit() makes of a number of which above is whether a digit was written.
LEMMA DigitGot ==
  ASSUME NEW value, NEW above \in BOOLEAN, NEW text, NEW d, NEW digit, digit = value \div d,
         NEW show \in BOOLEAN, show <=> above \/ digit # 0
  PROVE  GetDigit([value |-> value, show |-> above, text |-> text], d) =
           [value |-> value % d, show |-> show,
            text |-> text \o (IF show THEN <<Digit[digit + 1]>> ELSE <<>>)]
<1> DEFINE s == [value |-> value, show |-> above, text |-> text]
<1>1. s.value = value /\ s.show = above /\ s.text = text
  OBVIOUS
<1> HIDE DEF s
<1>2. s.show \in BOOLEAN /\ s.value \div d = digit
  BY <1>1
<1>3. (s.show \/ s.value \div d # 0) = show
  BY <1>1, <1>2
<1>4. GetDigit(s, d) =
        [value |-> s.value % d, show |-> (s.show \/ s.value \div d # 0),
         text |-> s.text \o (IF s.show \/ s.value \div d # 0
                             THEN <<Digit[(s.value \div d) + 1]>> ELSE <<>>)]
  BY DEF GetDigit
<1>5. GetDigit(s, d) =
        [value |-> value % d, show |-> show,
         text |-> text \o (IF show THEN <<Digit[digit + 1]>> ELSE <<>>)]
  BY <1>1, <1>2, <1>3, <1>4
<1> QED BY <1>5 DEF s

LEMMA GetDigitWrites ==
  ASSUME NEW n \in Hextet, NEW d \in {10, 100, 1000, 10000}, NEW s, Wrote(s, n, 10 * d)
  PROVE  Wrote(GetDigit(s, d), n, d)
<1> DEFINE m == n \div d
           value == n % (10 * d)
           above == n \div (10 * d)
           digit == value \div d
           show == (above # 0) \/ digit # 0
<1>1. n \in Nat /\ n < 65536 /\ d \in Nat \ {0}
  BY NumbersOfBytes
<1>2. m \in Nat /\ m <= n
  <2>1. d = 10 \/ d = 100 \/ d = 1000 \/ d = 10000
    OBVIOUS
  <2>2. n \div 10 <= n /\ n \div 100 <= n /\ n \div 1000 <= n /\ n \div 10000 <= n
    BY <1>1
  <2>3. n \div 10 \in Nat /\ n \div 100 \in Nat /\ n \div 1000 \in Nat /\ n \div 10000 \in Nat
    BY <1>1
  <2> QED BY <2>1, <2>2, <2>3
<1>3. m \in Hextet
  BY <1>1, <1>2, NumbersOfBytes
<1>4. digit = m % 10 /\ value % d = n % d /\ m \div 10 = above
  BY <1>1, TensAndOnes
<1>5. s = [value |-> value, show |-> (above # 0), text |-> Shown(above, 10)]
  BY DEF Wrote
<1> HIDE DEF m, value, above
<1>6. show <=> m # 0
  <2>1. m \div 10 # 0 \/ m % 10 # 0 <=> m # 0
    BY <1>2
  <2> QED BY <1>4, <2>1
<1>7. Shown(m, 10) = Shown(m \div 10, 10) \o (IF m # 0 THEN <<Digit[(m % 10) + 1]>> ELSE <<>>)
  <2>1. 10 \in Base
    BY DEF Base
  <2> QED BY <1>3, <2>1, ShownStep
<1> HIDE DEF digit
<1>8. GetDigit(s, d) =
        [value |-> value % d, show |-> (m # 0),
         text |-> Shown(above, 10) \o (IF m # 0 THEN <<Digit[digit + 1]>> ELSE <<>>)]
  <2>1. (above # 0) \in BOOLEAN /\ (m # 0) \in BOOLEAN
    OBVIOUS
  <2>2. digit = value \div d
    BY DEF digit
  <2> DEFINE b == (above # 0)
             shows == (m # 0)
  <2>3. b \in BOOLEAN /\ shows \in BOOLEAN /\ (shows <=> b \/ digit # 0)
    BY <1>6, <2>1
  <2>4. s = [value |-> value, show |-> b, text |-> Shown(above, 10)]
    BY <1>5
  <2> HIDE DEF b, shows
  <2>5. GetDigit([value |-> value, show |-> b, text |-> Shown(above, 10)], d) =
          [value |-> value % d, show |-> shows,
           text |-> Shown(above, 10) \o (IF shows THEN <<Digit[digit + 1]>> ELSE <<>>)]
    BY <2>2, <2>3, DigitGot
  <2> QED BY <2>4, <2>5 DEF shows
<1> QED BY <1>4, <1>7, <1>8 DEF Wrote, m

\* Before the first digit nothing is written.
LEMMA NothingWritten ==
  ASSUME NEW n, NEW d, n % d = n, n \div d = 0
  PROVE  Wrote(Started(n), n, d)
<1>1. (n \div d # 0) = FALSE
  OBVIOUS
<1>2. Shown(n \div d, 10) = <<>>
  BY DEF Shown
<1> QED BY <1>1, <1>2 DEF Wrote, Started

LEMMA NumbersWritten ==
  /\ \A n \in Octet : ByteText(n) = Numeral(n, 10)
  /\ \A n \in Hextet : PortText(n) = Numeral(n, 10)
<1>1. ASSUME NEW n \in Hextet, NEW s, Wrote(s, n, 10)
      PROVE  Ended(s) = Numeral(n, 10)
  <2>1. s.text = Shown(n \div 10, 10) /\ s.value = n % 10
    BY <1>1 DEF Wrote
  <2>2. 10 \in Base
    BY DEF Base
  <2>3. Shown(n \div 10, 10) \o <<Digit[(n % 10) + 1]>> = Numeral(n, 10)
    BY <2>2, ShownStep
  <2> QED BY <2>1, <2>3 DEF Ended
<1>2. ASSUME NEW n \in Octet PROVE n \in Hextet /\ Wrote(Started(n), n, 1000)
  <2>1. n \in Nat /\ n < 256
    BY NumbersOfBytes
  <2>2. n % 1000 = n /\ n \div 1000 = 0
    BY <2>1
  <2>3. n < 65536
    BY <2>1
  <2>4. n \in Hextet
    BY <2>1, <2>3, NumbersOfBytes
  <2> QED BY <2>2, <2>4, NothingWritten
<1>3. ASSUME NEW n \in Hextet PROVE Wrote(Started(n), n, 100000)
  <2>1. n \in Nat /\ n < 65536
    BY NumbersOfBytes
  <2>2. n % 100000 = n /\ n \div 100000 = 0
    BY <2>1
  <2> QED BY <2>2, NothingWritten
<1>4. ASSUME NEW n \in Octet PROVE ByteText(n) = Numeral(n, 10)
  <2> DEFINE s2 == GetDigit(Started(n), 100)
             s1 == GetDigit(s2, 10)
  <2>1. ByteText(n) = Ended(s1) /\ n \in Hextet
    BY <1>2 DEF ByteText
  <2>2. Wrote(s2, n, 100)
    <3>1. Wrote(Started(n), n, 10 * 100)
      BY <1>2
    <3> QED BY <2>1, <3>1, GetDigitWrites
  <2> HIDE DEF s2
  <2>3. Wrote(s1, n, 10)
    <3>1. Wrote(s2, n, 10 * 10)
      BY <2>2
    <3> QED BY <2>1, <3>1, GetDigitWrites
  <2> HIDE DEF s1
  <2> QED BY <1>1, <2>1, <2>3
<1>5. ASSUME NEW n \in Hextet PROVE PortText(n) = Numeral(n, 10)
  <2> DEFINE s4 == GetDigit(Started(n), 10000)
             s3 == GetDigit(s4, 1000)
             s2 == GetDigit(s3, 100)
             s1 == GetDigit(s2, 10)
  <2>1. PortText(n) = Ended(s1)
    BY DEF PortText
  <2>2. Wrote(s4, n, 10000)
    <3>1. Wrote(Started(n), n, 10 * 10000)
      BY <1>3
    <3> QED BY <3>1, GetDigitWrites
  <2> HIDE DEF s4
  <2>3. Wrote(s3, n, 1000)
    <3>1. Wrote(s4, n, 10 * 1000)
      BY <2>2
    <3> QED BY <3>1, GetDigitWrites
  <2> HIDE DEF s3
  <2>4. Wrote(s2, n, 100)
    <3>1. Wrote(s3, n, 10 * 100)
      BY <2>3
    <3> QED BY <3>1, GetDigitWrites
  <2> HIDE DEF s2
  <2>5. Wrote(s1, n, 10)
    <3>1. Wrote(s2, n, 10 * 10)
      BY <2>4
    <3> QED BY <3>1, GetDigitWrites
  <2> HIDE DEF s1
  <2> QED BY <1>1, <2>1, <2>5
<1> QED BY <1>4, <1>5

LEMMA SixteenthParts ==
  ASSUME NEW g \in Nat, g < 65536
  PROVE  /\ (g \div 256) \div 16 = g \div 4096 /\ (g \div 16) \div 16 = g \div 256
         /\ (g \div 4096) % 16 = g \div 4096 /\ (g \div 4096) \div 16 = 0
         /\ (g % 256) \div 16 = (g \div 16) % 16 /\ (g % 256) % 16 = g % 16
         /\ g \div 256 # 0 \/ (g \div 16) % 16 # 0 <=> g \div 16 # 0
<1>1. (g \div 256) \div 16 = g \div 4096
  OBVIOUS
<1>2. (g \div 16) \div 16 = g \div 256
  OBVIOUS
<1>3. (g \div 4096) % 16 = g \div 4096
  OBVIOUS
<1>4. (g \div 4096) \div 16 = 0
  OBVIOUS
<1>5. (g % 256) \div 16 = (g \div 16) % 16
  OBVIOUS
<1>6. (g % 256) % 16 = g % 16
  OBVIOUS
<1>7. g \div 256 # 0 \/ (g \div 16) % 16 # 0 <=> g \div 16 # 0
  OBVIOUS
<1> QED BY <1>1, <1>2, <1>3, <1>4, <1>5, <1>6, <1>7

LEMMA GroupWritten == \A g \in Hextet : GroupText(g) = Numeral(g, 16)
<1> TAKE g \in Hextet
<1> DEFINE h1 == g \div 16
           h2 == g \div 256
           h3 == g \div 4096
<1>1. g \in Nat /\ g < 65536 /\ 16 \in Base
  BY NumbersOfBytes DEF Base
<1>2. /\ h2 \div 16 = h3 /\ h1 \div 16 = h2 /\ h3 % 16 = h3 /\ h3 \div 16 = 0
      /\ (g % 256) \div 16 = h1 % 16 /\ (g % 256) % 16 = g % 16
      /\ (h2 # 0 \/ h1 % 16 # 0 <=> h1 # 0)
  BY <1>1, SixteenthParts
<1>3. GroupText(g) =
        (IF h2 \div 16 # 0 THEN <<Digit[h2 \div 16 + 1]>> ELSE <<>>)
        \o (IF h2 # 0 THEN <<Digit[(h2 % 16) + 1]>> ELSE <<>>)
        \o (IF h2 # 0 \/ (g % 256) \div 16 # 0 THEN <<Digit[(g % 256) \div 16 + 1]>> ELSE <<>>)
        \o <<Digit[((g % 256) % 16) + 1]>>
  BY DEF GroupText
<1>4. h1 \in Hextet /\ h2 \in Hextet /\ h3 \in Hextet
  <2>1. h1 \in Nat /\ h1 < 65536
    BY <1>1
  <2>2. h2 \in Nat /\ h2 < 65536
    BY <1>1
  <2>3. h3 \in Nat /\ h3 < 65536
    BY <1>1
  <2> QED BY <2>1, <2>2, <2>3, NumbersOfBytes
<1> HIDE DEF h2, h3
<1>5. \A n \in Hextet :
        /\ Shown(n, 16) = Shown(n \div 16, 16)
                            \o (IF n # 0 THEN <<Digit[(n % 16) + 1]>> ELSE <<>>)
        /\ Numeral(n, 16) = Shown(n \div 16, 16) \o <<Digit[(n % 16) + 1]>>
        /\ Digit[(n % 16) + 1] \in Char
  <2>1. 16 \in Base
    BY DEF Base
  <2>2. \A n \in Hextet : n \in Nat
    BY NumbersOfBytes
  <2> QED BY <2>1, <2>2, ShownStep, DigitsAreChars
<1>6. Numeral(g, 16) = Shown(h1, 16) \o <<Digit[(g % 16) + 1]>>
  BY <1>5
<1> HIDE DEF h1
<1>7. Shown(h1, 16) = Shown(h2, 16) \o (IF h1 # 0 THEN <<Digit[(h1 % 16) + 1]>> ELSE <<>>)
  BY <1>2, <1>4, <1>5
<1>8. Shown(h2, 16) = Shown(h3, 16) \o (IF h2 # 0 THEN <<Digit[(h2 % 16) + 1]>> ELSE <<>>)
  BY <1>2, <1>4, <1>5
<1>9. Shown(h3, 16) = IF h3 # 0 THEN <<Digit[h3 + 1]>> ELSE <<>>
  <2>1. Shown(h3, 16) = Shown(0, 16) \o (IF h3 # 0 THEN <<Digit[h3 + 1]>> ELSE <<>>)
    BY <1>2, <1>4, <1>5
  <2>2. Shown(0, 16) = <<>>
    BY DEF Shown
  <2>3. <<Digit[h3 + 1]>> \in Seq(Char)
    <3>1. Digit[h3 + 1] \in Char
      BY <1>2, <1>4, <1>5
    <3> QED BY <3>1
  <2>4. CASE h3 # 0
    <3>1. <<>> \o <<Digit[h3 + 1]>> = <<Digit[h3 + 1]>>
      BY <2>3, ConcatEmptySeq
    <3> QED BY <2>1, <2>2, <2>4, <3>1
  <2>5. CASE h3 = 0
    BY <2>2, <2>5
  <2> QED BY <2>4, <2>5
<1>10. GroupText(g) =
         (IF h3 # 0 THEN <<Digit[h3 + 1]>> ELSE <<>>)
         \o (IF h2 # 0 THEN <<Digit[(h2 % 16) + 1]>> ELSE <<>>)
         \o (IF h1 # 0 THEN <<Digit[(h1 % 16) + 1]>> ELSE <<>>)
         \o <<Digit[(g % 16) + 1]>>
  BY <1>2, <1>3
<1> QED BY <1>6, <1>7, <1>8, <1>9, <1>10

-----------------------------------------------------------------------------
\* Texts that are joined.

LEMMA JoinedStep ==
  ASSUME NEW n \in Nat, NEW text \in [1 .. n -> Seq(Char)], NEW separator \in Seq(Char),
         NEW first \in Nat \ {0}, NEW k \in 0 .. n
  PROVE  /\ Joined(text, separator, first, k) \in Seq(Char)
         /\ Joined(text, separator, first, k) =
              IF k < first THEN <<>>
              ELSE Joined(text, separator, first, k - 1)
                     \o (IF k > first THEN separator ELSE <<>>) \o text[k]
<1> DEFINE R == Seq(Char)
           between(m) == IF m > first THEN separator ELSE <<>>
           Step(m, s) == IF m < first THEN <<>> ELSE s \o between(m) \o text[m]
           step == [m \in 1 .. n |-> [s \in R |-> Step(m, s)]]
           Body(f) == [m \in 0 .. n |->
                         IF m < first THEN <<>> ELSE f[m - 1] \o between(m) \o text[m]]
           loop == CHOOSE f : f = Body(f)
<1>1. Len(text) = n
  OBVIOUS
<1>2. \A m : Joined(text, separator, first, m) = loop[m]
  BY <1>1 DEF Joined
<1>3. <<>> \in R /\ \A m : between(m) \in R
  BY EmptySeq
<1> HIDE DEF between, R
<1>4. ASSUME NEW m \in 1 .. n, NEW s \in R PROVE Step(m, s) \in R
  <2>1. text[m] \in R
    BY DEF R
  <2>2. s \o between(m) \in R
    BY <1>3, ConcatProperties DEF R
  <2>3. s \o between(m) \o text[m] \in R
    BY <2>1, <2>2, ConcatProperties DEF R
  <2> QED BY <1>3, <2>3
<1>5. step \in [1 .. n -> [R -> R]]
  BY <1>4
<1>6. \A m \in 1 .. n, s \in R : step[m][s] = Step(m, s)
  OBVIOUS
<1> HIDE DEF step
<1>7. PICK f : Recurs(f, n, R, <<>>, step)
  BY <1>3, <1>5, Recursion
<1>8. f = Body(f)
  <2>1. \A m \in 1 .. n : f[m] = Step(m, f[m - 1])
    <3> TAKE m \in 1 .. n
    <3>1. m - 1 \in 0 .. n
      OBVIOUS
    <3>2. f[m - 1] \in R
      BY <1>7, <3>1 DEF Recurs
    <3> QED BY <1>6, <1>7, <3>2 DEF Recurs
  <2>2. DOMAIN f = 0 .. n /\ f[0] = <<>> /\ f = [m \in 0 .. n |-> f[m]]
    BY <1>7 DEF Recurs
  <2> QED BY <2>1, <2>2, SMTT(30)
<1>9. loop = Body(loop)
  BY <1>8
<1> HIDE DEF loop
<1>10. \A m \in 0 .. n :
         loop[m] = IF m < first THEN <<>> ELSE loop[m - 1] \o between(m) \o text[m]
  BY <1>9
<1>11. loop[k] \in R
  <2> DEFINE T == {m \in Nat : m <= n => loop[m] \in R}
  <2>1. 0 \in T
    BY <1>3, <1>10
  <2>2. ASSUME NEW m \in Nat, m \in T PROVE m + 1 \in T
    <3> SUFFICES ASSUME m + 1 <= n PROVE loop[m + 1] \in R
      OBVIOUS
    <3>1. loop[m] \in R /\ m + 1 \in 1 .. n /\ (m + 1) - 1 = m
      BY <2>2
    <3>2. loop[m + 1] = Step(m + 1, loop[m])
      BY <1>10, <3>1
    <3> QED BY <1>4, <3>1, <3>2
  <2> HIDE DEF T
  <2>3. Nat \subseteq T
    BY <2>1, <2>2, Induction
  <2>4. k \in T
    BY <2>3
  <2> QED BY <2>4 DEF T
<1> QED BY <1>2, <1>10, <1>11 DEF R, between

-----------------------------------------------------------------------------
\* The loop over the groups of an IPv6 address.

Groups(host) == [i \in 1 .. 8 |-> Numeral(host[i], 16)]
Colon == <<":">>
Texts(host, p, q) == Joined(Groups(host), Colon, p, q)

LEMMA Characters ==
  /\ Colon \in Seq(Char) /\ Len(Colon) = 1
  /\ <<":", ":">> \in Seq(Char) /\ Len(<<":", ":">>) = 2
  /\ Colon \o Colon = <<":", ":">>
  /\ <<>> \in Seq(Char) /\ Len(<<>>) = 0
  /\ \A c \in {".", ":", "[", "]"} : <<c>> \in Seq(Char) /\ Len(<<c>>) = 1
<1>1. {".", ":", "[", "]"} \subseteq Char
  BY DEF Char
<1>2. ":" \in Char
  BY <1>1
<1> HIDE DEF Char
<1>3. <<":">> \in Seq(Char) /\ <<":", ":">> \in Seq(Char) /\ <<>> \in Seq(Char)
  BY <1>2
<1>4. <<":">> \o <<":">> = <<":", ":">>
  <2>1. \A c \in Char : <<c>> \o <<c>> = <<c, c>>
    <3> TAKE c \in Char
    <3> DEFINE s == <<c>>
               t == <<c, c>>
    <3>1. /\ s \in Seq(Char) /\ Len(s) = 1 /\ s[1] = c
          /\ t \in Seq(Char) /\ Len(t) = 2 /\ t[1] = c /\ t[2] = c
      OBVIOUS
    <3> HIDE DEF s, t
    <3>2. /\ s \o s \in Seq(Char) /\ Len(s \o s) = 2
          /\ \A i \in 1 .. 2 : (s \o s)[i] = c
      <4>1. /\ s \o s \in Seq(Char) /\ Len(s \o s) = Len(s) + Len(s)
            /\ \A i \in 1 .. Len(s) + Len(s) :
                  (s \o s)[i] = IF i <= Len(s) THEN s[i] ELSE s[i - Len(s)]
        BY <3>1, ConcatProperties
      <4>2. \A i \in 1 .. 2 : IF i <= 1 THEN i = 1 ELSE i - 1 = 1
        OBVIOUS
      <4> QED BY <3>1, <4>1, <4>2
    <3>3. s \o s = t
      BY <3>1, <3>2, SeqEqual
    <3> QED BY <3>3 DEF s, t
  <2> QED BY <1>2, <2>1
<1>5. \A c \in {".", ":", "[", "]"} : <<c>> \in Seq(Char)
  BY <1>1
<1>6. /\ Len(<<":">>) = 1 /\ Len(<<":", ":">>) = 2 /\ Len(<<>>) = 0
      /\ \A c \in {".", ":", "[", "]"} : Len(<<c>>) = 1
  OBVIOUS
<1> QED BY <1>3, <1>4, <1>5, <1>6 DEF Colon

\* The length of a text is bounded along with its type.
LEMMA Longer ==
  ASSUME NEW s \in Seq(Char), NEW t \in Seq(Char)
  PROVE  /\ s \o t \in Seq(Char)
         /\ Len(s \o t) = Len(s) + Len(t) /\ Len(s) \in Nat /\ Len(t) \in Nat
BY ConcatProperties, LenProperties

LEMMA BoundedText ==
  ASSUME NEW s \in Seq(Char), NEW t \in Seq(Char), NEW m \in Nat, NEW n \in Nat,
         Len(s) <= m, Len(t) <= n
  PROVE  s \o t \in Seq(Char) /\ Len(s \o t) <= m + n
<1>1. /\ s \o t \in Seq(Char)
      /\ Len(s \o t) = Len(s) + Len(t) /\ Len(s) \in Nat /\ Len(t) \in Nat
  BY Longer
<1>2. \A i, j \in Nat : i <= m /\ j <= n => i + j <= m + n
  OBVIOUS
<1> QED BY <1>1, <1>2

LEMMA GroupsType ==
  ASSUME NEW host \in [1 .. 8 -> Hextet]
  PROVE  /\ Groups(host) \in [1 .. 8 -> Seq(Char)]
         /\ \A i \in 1 .. 8 : /\ GroupText(host[i]) = Groups(host)[i]
                              /\ Groups(host)[i] \in Seq(Char)
                              /\ Len(Groups(host)[i]) \in 1 .. 5
<1>1. 16 \in Base
  BY DEF Base
<1>2. \A i \in 1 .. 8 : host[i] \in Hextet
  OBVIOUS
<1>3. \A i \in 1 .. 8 : /\ Numeral(host[i], 16) \in Seq(Char)
                        /\ Len(Numeral(host[i], 16)) \in 1 .. 5
  BY <1>1, <1>2, NumeralType
<1>4. \A i \in 1 .. 8 : GroupText(host[i]) = Numeral(host[i], 16)
  BY <1>2, GroupWritten
<1> QED BY <1>3, <1>4 DEF Groups

LEMMA TextsStep ==
  ASSUME NEW host \in [1 .. 8 -> Hextet], NEW p \in 1 .. 9, NEW q \in 0 .. 8
  PROVE  /\ Texts(host, p, q) \in Seq(Char)
         /\ q < p => Texts(host, p, q) = <<>>
         /\ q = p => Texts(host, p, q) = GroupText(host[q])
         /\ q > p => Texts(host, p, q) =
                       Texts(host, p, q - 1) \o Colon \o GroupText(host[q])
<1>1. Groups(host) \in [1 .. 8 -> Seq(Char)] /\ Colon \in Seq(Char)
  BY GroupsType, Characters
<1>2. \A m \in 0 .. 8 :
        /\ Joined(Groups(host), Colon, p, m) \in Seq(Char)
        /\ Joined(Groups(host), Colon, p, m) =
             IF m < p THEN <<>>
             ELSE Joined(Groups(host), Colon, p, m - 1)
                    \o (IF m > p THEN Colon ELSE <<>>) \o Groups(host)[m]
  <2> DEFINE n == 8
             groups == Groups(host)
  <2>1. n \in Nat /\ groups \in [1 .. n -> Seq(Char)] /\ p \in Nat \ {0}
    BY <1>1, SMTT(30)
  <2> HIDE DEF n, groups
  <2>2. \A m \in 0 .. n :
          /\ Joined(groups, Colon, p, m) \in Seq(Char)
          /\ Joined(groups, Colon, p, m) =
               IF m < p THEN <<>>
               ELSE Joined(groups, Colon, p, m - 1)
                      \o (IF m > p THEN Colon ELSE <<>>) \o groups[m]
    BY <1>1, <2>1, JoinedStep
  <2> QED BY <2>2 DEF n, groups
<1>3. \A m : Texts(host, p, m) = Joined(Groups(host), Colon, p, m)
  BY DEF Texts
<1>4. /\ Texts(host, p, q) \in Seq(Char)
      /\ Texts(host, p, q) = IF q < p THEN <<>>
                             ELSE Texts(host, p, q - 1)
                                    \o (IF q > p THEN Colon ELSE <<>>) \o Groups(host)[q]
  BY <1>2, <1>3
<1>5. ASSUME q = p PROVE Texts(host, p, q) = GroupText(host[q])
  <2>1. q - 1 \in 0 .. 8 /\ q - 1 < p /\ ~ (q > p) /\ ~ (q < p) /\ q \in 1 .. 8
    BY <1>5
  <2>2. Texts(host, p, q - 1) = <<>>
    <3>1. Joined(Groups(host), Colon, p, q - 1) = <<>>
      BY <1>2, <2>1
    <3> QED BY <1>3, <3>1
  <2>3. Texts(host, p, q) = <<>> \o <<>> \o Groups(host)[q]
    BY <1>4, <2>1, <2>2
  <2>4. Groups(host)[q] \in Seq(Char) /\ Groups(host)[q] = GroupText(host[q])
    BY <2>1, GroupsType
  <2>5. <<>> \o <<>> = <<>>
    BY Characters, ConcatEmptySeq
  <2>6. <<>> \o Groups(host)[q] = Groups(host)[q]
    BY <2>4, ConcatEmptySeq
  <2> QED BY <2>3, <2>4, <2>5, <2>6
<1>6. ASSUME q > p
      PROVE  Texts(host, p, q) = Texts(host, p, q - 1) \o Colon \o GroupText(host[q])
  <2>1. ~ (q < p) /\ q \in 1 .. 8
    BY <1>6
  <2>2. Texts(host, p, q) = Texts(host, p, q - 1) \o Colon \o Groups(host)[q]
    BY <1>4, <1>6, <2>1
  <2>3. Groups(host)[q] = GroupText(host[q])
    BY <2>1, GroupsType
  <2> QED BY <2>2, <2>3
<1> QED BY <1>4, <1>5, <1>6

\* The state of the loop, and what it has written after k groups: all of them; those
\* before the first run of two zeroes or more, in which it still is; or all but that
\* run, with "::" for it.
Writing == [inZeros : BOOLEAN, foundZeros : BOOLEAN, text : Seq(Char)]

Zeros(host, p, q) == \A i \in p .. q : host[i] = 0
NoRunBefore(host, p) == \A i \in 1 .. 7 : i < p => ~ (host[i] = 0 /\ host[i + 1] = 0)

AllGroups(s, host, k) ==
  /\ ~ s.inZeros /\ ~ s.foundZeros
  /\ NoRunBefore(host, k + 1)
  /\ s.text = Texts(host, 1, k)

InRun(s, host, k, p) ==
  /\ s.inZeros /\ ~ s.foundZeros
  /\ p <= k /\ p < 8
  /\ host[p + 1] = 0 /\ Zeros(host, p, k) /\ NoRunBefore(host, p)
  /\ s.text = Texts(host, 1, p - 1)

AfterRun(s, host, k, p, q) ==
  /\ ~ s.inZeros /\ s.foundZeros
  /\ p <= q /\ q < k
  /\ Zeros(host, p, q)
  /\ s.text = Texts(host, 1, p - 1) \o <<":", ":">> \o Texts(host, q + 1, k)

HasWritten(s, host, k) ==
  /\ Len(s.text) <= 6 * k + (IF s.foundZeros THEN 1 ELSE 0)
  /\ \/ AllGroups(s, host, k)
     \/ \E p \in 1 .. 8 : InRun(s, host, k, p)
     \/ \E p, q \in 1 .. 8 : AfterRun(s, host, k, p, q)

LEMMA WriteGroupType ==
  ASSUME NEW host \in [1 .. 8 -> Hextet], NEW s \in Writing, NEW i \in 1 .. 8
  PROVE  WriteGroup(host, s, i) \in Writing
<1>1. CASE StartsZeros(host, s, i)
  BY <1>1 DEF WriteGroup, Writing
<1>2. CASE ~ StartsZeros(host, s, i)
  <2> DEFINE c1 == IF s.inZeros THEN <<":">> ELSE <<>>
             c2 == IF i > 1 THEN <<":">> ELSE <<>>
             text == s.text \o c1 \o c2 \o GroupText(host[i])
  <2>1. WriteGroup(host, s, i) =
          [inZeros |-> FALSE, foundZeros |-> s.foundZeros \/ s.inZeros, text |-> text]
    BY <1>2 DEF WriteGroup
  <2>2. c1 \in Seq(Char) /\ c2 \in Seq(Char) /\ GroupText(host[i]) \in Seq(Char)
    BY Characters, GroupsType DEF Colon
  <2>3. s.text \in Seq(Char) /\ s.inZeros \in BOOLEAN /\ s.foundZeros \in BOOLEAN
    BY DEF Writing
  <2> HIDE DEF c1, c2
  <2>4. s.text \o c1 \in Seq(Char)
    BY <2>2, <2>3, Longer
  <2>5. s.text \o c1 \o c2 \in Seq(Char)
    BY <2>2, <2>4, Longer
  <2>6. text \in Seq(Char)
    BY <2>2, <2>5, Longer
  <2> HIDE DEF text
  <2> QED BY <2>1, <2>3, <2>6 DEF Writing
<1> QED BY <1>1, <1>2


\* A colon is written or not.
LEMMA ColonIf ==
  \A b \in BOOLEAN : /\ (IF b THEN Colon ELSE <<>>) \in Seq(Char)
                     /\ Len(IF b THEN Colon ELSE <<>>) = (IF b THEN 1 ELSE 0)
<1>1. Colon \in Seq(Char) /\ Len(Colon) = 1 /\ <<>> \in Seq(Char) /\ Len(<<>>) = 0
  BY Characters
<1>2. ASSUME NEW b \in BOOLEAN
      PROVE  /\ (IF b THEN Colon ELSE <<>>) \in Seq(Char)
             /\ Len(IF b THEN Colon ELSE <<>>) = (IF b THEN 1 ELSE 0)
  <2> DEFINE c == IF b THEN Colon ELSE <<>>
             n == IF b THEN 1 ELSE 0
  <2>1. (c = Colon /\ n = 1) \/ (c = <<>> /\ n = 0)
    <3>1. CASE b
      BY <3>1
    <3>2. CASE ~ b
      BY <3>2
    <3> QED BY <3>1, <3>2
  <2> HIDE DEF c, n
  <2>2. c \in Seq(Char) /\ Len(c) = n
    BY <1>1, <2>1
  <2> QED BY <2>2 DEF c, n
<1> QED BY <1>2

\* Along with text that is one group longer.
LEMMA GroupAdded ==
  ASSUME NEW host \in [1 .. 8 -> Hextet], NEW s \in Writing, NEW i \in 1 .. 8,
         ~ StartsZeros(host, s, i)
  PROVE  LET t == WriteGroup(host, s, i)
         IN  /\ ~ t.inZeros /\ (t.foundZeros <=> s.foundZeros \/ s.inZeros)
             /\ t.text = s.text \o (IF s.inZeros THEN Colon ELSE <<>>)
                                \o (IF i > 1 THEN Colon ELSE <<>>) \o GroupText(host[i])
             /\ Len(t.text) <= Len(s.text) + 6 + (IF s.inZeros THEN 1 ELSE 0)
<1> DEFINE c1 == IF s.inZeros THEN Colon ELSE <<>>
           c2 == IF i > 1 THEN Colon ELSE <<>>
           group == GroupText(host[i])
           text == s.text \o c1 \o c2 \o group
<1>1. WriteGroup(host, s, i) =
        [inZeros |-> FALSE, foundZeros |-> s.foundZeros \/ s.inZeros, text |-> text]
  BY DEF WriteGroup, Colon
<1>2. /\ c1 \in Seq(Char) /\ Len(c1) = (IF s.inZeros THEN 1 ELSE 0)
      /\ c2 \in Seq(Char) /\ Len(c2) <= 1
      /\ group \in Seq(Char) /\ Len(group) <= 5 /\ s.text \in Seq(Char)
  <2>1. c1 \in Seq(Char) /\ Len(c1) = (IF s.inZeros THEN 1 ELSE 0)
    <3>1. s.inZeros \in BOOLEAN
      BY DEF Writing
    <3> QED BY <3>1, ColonIf
  <2>2. c2 \in Seq(Char) /\ Len(c2) <= 1
    <3> DEFINE b == i > 1
    <3>1. b \in BOOLEAN
      OBVIOUS
    <3> HIDE DEF b
    <3>2. /\ (IF b THEN Colon ELSE <<>>) \in Seq(Char)
          /\ Len(IF b THEN Colon ELSE <<>>) = (IF b THEN 1 ELSE 0)
      BY <3>1, ColonIf
    <3>3. Len(IF b THEN Colon ELSE <<>>) <= 1
      BY <3>2
    <3> QED BY <3>2, <3>3 DEF b
  <2>3. group \in Seq(Char) /\ Len(group) <= 5
    <3>1. group = Groups(host)[i] /\ Groups(host)[i] \in Seq(Char)
          /\ Len(Groups(host)[i]) \in 1 .. 5
      BY GroupsType
    <3> HIDE DEF group
    <3>2. \A n \in 1 .. 5 : n <= 5
      OBVIOUS
    <3> QED BY <3>1, <3>2
  <2>4. s.text \in Seq(Char)
    BY DEF Writing
  <2> QED BY <2>1, <2>2, <2>3, <2>4
<1> HIDE DEF c1, c2, group
<1>3. s.text \o c1 \in Seq(Char) /\ Len(s.text \o c1) = Len(s.text) + Len(c1)
  BY <1>2, Longer
<1>4. /\ s.text \o c1 \o c2 \in Seq(Char)
      /\ Len(s.text \o c1 \o c2) = Len(s.text \o c1) + Len(c2)
  BY <1>2, <1>3, Longer
<1>5. text \in Seq(Char) /\ Len(text) = Len(s.text \o c1 \o c2) + Len(group)
  BY <1>2, <1>4, Longer
<1>6. Len(s.text) \in Nat /\ Len(c1) \in Nat /\ Len(c2) \in Nat /\ Len(group) \in Nat
  BY <1>2, LenProperties
<1> HIDE DEF text
<1>7. Len(text) <= Len(s.text) + 6 + Len(c1)
  <2>1. \A n, n1, n2, n3 \in Nat : n2 <= 1 /\ n3 <= 5 => ((n + n1) + n2) + n3 <= (n + 6) + n1
    OBVIOUS
  <2>2. Len(text) = ((Len(s.text) + Len(c1)) + Len(c2)) + Len(group)
    BY <1>3, <1>4, <1>5
  <2> QED BY <1>2, <1>6, <2>1, <2>2
<1> DEFINE t == WriteGroup(host, s, i)
<1>8. s.foundZeros \in BOOLEAN /\ s.inZeros \in BOOLEAN
  BY DEF Writing
<1>9. ~ t.inZeros /\ (t.foundZeros <=> s.foundZeros \/ s.inZeros) /\ t.text = text
  BY <1>1, <1>8
<1> QED BY <1>2, <1>7, <1>9 DEF text, c1, c2, group

LEMMA TextsAre ==
  ASSUME NEW host \in [1 .. 8 -> Hextet]
  PROVE  /\ \A p \in 1 .. 9 : \A q \in 0 .. 8 : Texts(host, p, q) \in Seq(Char)
         /\ \A p \in 1 .. 9 : \A q \in 0 .. 8 : q < p => Texts(host, p, q) = <<>>
         /\ \A p \in 1 .. 9 : p \in 0 .. 8 => Texts(host, p, p) = GroupText(host[p])
         /\ \A p \in 1 .. 9 : \A q \in 0 .. 8 : q > p =>
              Texts(host, p, q) = Texts(host, p, q - 1) \o Colon \o GroupText(host[q])
<1>1. ASSUME NEW p \in 1 .. 9, NEW q \in 0 .. 8
      PROVE  /\ Texts(host, p, q) \in Seq(Char)
             /\ q < p => Texts(host, p, q) = <<>>
             /\ q = p => Texts(host, p, q) = GroupText(host[q])
             /\ q > p => Texts(host, p, q) =
                           Texts(host, p, q - 1) \o Colon \o GroupText(host[q])
  BY TextsStep
<1> QED BY <1>1

LEMMA Association == \A u, v, w \in Seq(Char) : (u \o v) \o w = u \o (v \o w)
<1> TAKE u, v, w \in Seq(Char)
<1> HIDE DEF Char
<1> QED BY ConcatAssociative, SMTT(30)

\* A turn keeps what HasWritten says of the groups before it.
LEMMA WriteGroupStep ==
  ASSUME NEW host \in [1 .. 8 -> Hextet], NEW s \in Writing, NEW i \in 1 .. 8,
         HasWritten(s, host, i - 1)
  PROVE  HasWritten(WriteGroup(host, s, i), host, i)
<1> DEFINE t == WriteGroup(host, s, i)
<1>1. s.inZeros \in BOOLEAN /\ s.foundZeros \in BOOLEAN /\ s.text \in Seq(Char)
  BY DEF Writing
<1>2. t \in Writing
  BY WriteGroupType
<1>3. ~ (s.inZeros /\ s.foundZeros)
  BY DEF HasWritten, AllGroups, InRun, AfterRun
<1>4. ASSUME StartsZeros(host, s, i)
      PROVE  t.inZeros /\ ~ t.foundZeros /\ ~ s.foundZeros /\ t.text = s.text /\ host[i] = 0
  BY <1>1, <1>4 DEF WriteGroup, StartsZeros, Writing
<1>5. ASSUME ~ StartsZeros(host, s, i)
      PROVE  /\ ~ t.inZeros /\ (t.foundZeros <=> s.foundZeros \/ s.inZeros)
             /\ t.text = s.text \o (IF s.inZeros THEN Colon ELSE <<>>)
                                \o (IF i > 1 THEN Colon ELSE <<>>) \o GroupText(host[i])
             /\ Len(t.text) <= Len(s.text) + 6 + (IF s.inZeros THEN 1 ELSE 0)
  BY <1>3, <1>5, GroupAdded
<1>6. Len(t.text) <= 6 * i + (IF t.foundZeros THEN 1 ELSE 0)
  <2>1. Len(s.text) <= 6 * (i - 1) + (IF s.foundZeros THEN 1 ELSE 0)
    BY DEF HasWritten
  <2>2. Len(s.text) \in Nat /\ Len(t.text) \in Nat
    BY <1>1, <1>2, LenProperties DEF Writing
  <2>3. CASE StartsZeros(host, s, i)
    BY <1>4, <2>1, <2>2, <2>3, SMTT(30)
  <2>4. CASE ~ StartsZeros(host, s, i)
    <3> DEFINE found == IF s.foundZeros THEN 1 ELSE 0
               in == IF s.inZeros THEN 1 ELSE 0
               foundNow == IF t.foundZeros THEN 1 ELSE 0
    <3>1. found \in Nat /\ in \in Nat /\ foundNow = found + in
      BY <1>1, <1>3, <1>5, <2>4
    <3>2. Len(t.text) <= Len(s.text) + 6 + in
      BY <1>5, <2>4
    <3>3. Len(s.text) <= 6 * (i - 1) + found
      BY <2>1
    <3> HIDE DEF t, found, in, foundNow
    <3>4. Len(t.text) <= 6 * i + foundNow
      BY <2>2, <3>1, <3>2, <3>3, SMTT(30)
    <3> QED BY <3>4 DEF foundNow
  <2> QED BY <2>3, <2>4
<1> SUFFICES HasWritten(t, host, i)
  OBVIOUS
<1> HIDE DEF t
<1>7. i \in 0 .. 8 /\ i \in 1 .. 9 /\ i - 1 \in 0 .. 8 /\ 1 \in 1 .. 9
  OBVIOUS
<1>8. \A u, v, w \in Seq(Char) : (u \o v) \o w = u \o (v \o w)
  BY Association
<1>9. CASE AllGroups(s, host, i - 1) /\ StartsZeros(host, s, i)
  <2>1. i < 8 /\ host[i + 1] = 0
    BY <1>9 DEF AllGroups, StartsZeros
  <2>2. NoRunBefore(host, i) /\ s.text = Texts(host, 1, i - 1)
    BY <1>9 DEF AllGroups
  <2>3. Zeros(host, i, i)
    BY <1>4, <1>9 DEF Zeros
  <2>4. InRun(t, host, i, i)
    BY <1>4, <1>9, <2>1, <2>2, <2>3 DEF InRun
  <2> QED BY <1>6, <2>4 DEF HasWritten
<1>10. CASE AllGroups(s, host, i - 1) /\ ~ StartsZeros(host, s, i)
  <2>1. ~ s.inZeros /\ ~ s.foundZeros /\ NoRunBefore(host, i) /\ s.text = Texts(host, 1, i - 1)
    BY <1>10 DEF AllGroups
  <2>2. NoRunBefore(host, i + 1)
    <3>1. i < 8 => ~ (host[i] = 0 /\ host[i + 1] = 0)
      BY <1>10, <2>1 DEF StartsZeros
    <3> QED BY <2>1, <3>1 DEF NoRunBefore
  <2>3. t.text = Texts(host, 1, i)
    <3>1. t.text = s.text \o <<>> \o (IF i > 1 THEN Colon ELSE <<>>) \o GroupText(host[i])
      BY <1>5, <1>10, <2>1
    <3>2. s.text \o <<>> = s.text
      BY <1>1, ConcatEmptySeq
    <3>3. CASE i > 1
      <4>1. t.text = s.text \o Colon \o GroupText(host[i])
        BY <3>1, <3>2, <3>3
      <4>2. Texts(host, 1, i) = Texts(host, 1, i - 1) \o Colon \o GroupText(host[i])
        BY <1>7, <3>3, TextsAre
      <4> QED BY <2>1, <4>1, <4>2
    <3>4. CASE i = 1
      <4>1. s.text = <<>>
        <5>1. i - 1 < 1
          BY <3>4
        <5>2. Texts(host, 1, i - 1) = <<>>
          BY <1>7, <5>1, TextsAre
        <5> QED BY <2>1, <5>2
      <4>2. GroupText(host[i]) \in Seq(Char)
        BY GroupsType
      <4>3. t.text = <<>> \o <<>> \o GroupText(host[i])
        BY <3>1, <3>2, <3>4, <4>1
      <4>4. t.text = GroupText(host[i])
        BY <4>2, <4>3, Characters, ConcatEmptySeq
      <4>5. Texts(host, 1, i) = GroupText(host[i])
        BY <1>7, <3>4, TextsAre
      <4> QED BY <4>4, <4>5
    <3> QED BY <3>3, <3>4
  <2>4. AllGroups(t, host, i)
    BY <1>5, <1>10, <2>1, <2>2, <2>3 DEF AllGroups
  <2> QED BY <1>6, <2>4 DEF HasWritten
<1>11. ASSUME NEW p \in 1 .. 8, InRun(s, host, i - 1, p), StartsZeros(host, s, i)
      PROVE  HasWritten(t, host, i)
  <2>1. Zeros(host, p, i)
    BY <1>4, <1>11 DEF InRun, Zeros
  <2>2. InRun(t, host, i, p)
    BY <1>4, <1>11, <2>1 DEF InRun
  <2> QED BY <1>6, <2>2 DEF HasWritten
<1>12. ASSUME NEW p \in 1 .. 8, InRun(s, host, i - 1, p), ~ StartsZeros(host, s, i)
       PROVE  HasWritten(t, host, i)
  <2> DEFINE q == i - 1
             before == Texts(host, 1, p - 1)
             group == GroupText(host[i])
  <2>1. /\ q \in 1 .. 8 /\ p <= q /\ q < i /\ i > 1 /\ q + 1 = i
        /\ s.inZeros /\ ~ s.foundZeros /\ Zeros(host, p, q) /\ s.text = before
    BY <1>12 DEF InRun
  <2>2. t.text = before \o Colon \o Colon \o group
    BY <1>5, <1>12, <2>1
  <2>3. before \in Seq(Char) /\ Colon \in Seq(Char)
    BY <1>1, <2>1, Characters
  <2>4. group = Texts(host, i, i)
    BY <1>7, TextsAre
  <2> HIDE DEF before, group, q
  <2>5. t.text = before \o <<":", ":">> \o Texts(host, q + 1, i)
    <3>1. Colon \o Colon = <<":", ":">>
      BY Characters
    <3>2. (before \o Colon) \o Colon = before \o (Colon \o Colon)
      BY <1>8, <2>3
    <3> QED BY <2>1, <2>2, <2>4, <3>1, <3>2
  <2>6. AfterRun(t, host, i, p, q)
    BY <1>5, <1>12, <2>1, <2>5 DEF AfterRun, before
  <2> QED BY <1>6, <2>1, <2>6 DEF HasWritten
<1>13. ASSUME NEW p \in 1 .. 8, NEW q \in 1 .. 8, AfterRun(s, host, i - 1, p, q)
       PROVE  HasWritten(t, host, i)
  <2> DEFINE before == Texts(host, 1, p - 1) \o <<":", ":">>
             behind == Texts(host, q + 1, i - 1)
             group == GroupText(host[i])
  <2>1. /\ p <= q /\ q < i - 1 /\ i > 1 /\ Zeros(host, p, q)
        /\ ~ s.inZeros /\ s.foundZeros /\ s.text = before \o behind
    BY <1>13 DEF AfterRun
  <2>2. ~ StartsZeros(host, s, i)
    BY <2>1 DEF StartsZeros
  <2>3. t.text = s.text \o <<>> \o Colon \o group
    BY <1>5, <2>1, <2>2
  <2>4. /\ before \in Seq(Char) /\ behind \in Seq(Char)
        /\ Colon \in Seq(Char) /\ group \in Seq(Char)
    <3>1. Texts(host, 1, p - 1) \in Seq(Char) /\ behind \in Seq(Char)
      <4>1. p - 1 \in 0 .. 8 /\ q + 1 \in 1 .. 9
        OBVIOUS
      <4> QED BY <1>7, <4>1, TextsAre
    <3>2. before \in Seq(Char)
      BY <3>1, Characters, ConcatProperties
    <3> QED BY <3>1, <3>2, Characters, GroupsType
  <2>5. Texts(host, q + 1, i) = behind \o Colon \o group
    <3>1. q + 1 \in 1 .. 9 /\ i > q + 1
      BY <2>1
    <3> QED BY <1>7, <3>1, TextsAre
  <2> HIDE DEF before, behind, group
  <2>6. t.text = ((before \o behind) \o Colon) \o group
    BY <1>1, <2>1, <2>3, ConcatEmptySeq
  <2>7. t.text = before \o Texts(host, q + 1, i)
    <3>1. behind \o Colon \in Seq(Char)
      BY <2>4, ConcatProperties
    <3>2. (before \o behind) \o Colon = before \o (behind \o Colon)
      BY <1>8, <2>4
    <3>3. (before \o (behind \o Colon)) \o group = before \o ((behind \o Colon) \o group)
      BY <1>8, <2>4, <3>1, ZenonT(60)
    <3> QED BY <2>5, <2>6, <3>2, <3>3
  <2>8. AfterRun(t, host, i, p, q)
    BY <1>5, <2>1, <2>2, <2>7 DEF AfterRun, before
  <2> QED BY <1>6, <2>8 DEF HasWritten
<1> QED BY <1>9, <1>10, <1>11, <1>12, <1>13 DEF HasWritten

\* The loop of ToURI() ends with every group accounted for.
LEMMA LoopWrites ==
  ASSUME NEW host \in [1 .. 8 -> Hextet]
  PROVE  \E s \in Writing :
           /\ HasWritten(s, host, 8)
           /\ IPv6Text(host) =
                <<"[">> \o (IF s.text = <<>> THEN <<":", ":">> ELSE s.text) \o <<"]">>
<1> DEFINE start == [inZeros |-> FALSE, foundZeros |-> FALSE, text |-> <<>>]
           last == 8
           step == [i \in 1 .. last |-> [s \in Writing |-> WriteGroup(host, s, i)]]
           Body(f) == [i \in 0 .. last |->
                         IF i = 0 THEN start ELSE WriteGroup(host, f[i - 1], i)]
           loop == CHOOSE f : f = Body(f)
<1>1. IPv6Text(host) =
        <<"[">> \o (IF loop[8].text = <<>> THEN <<":", ":">> ELSE loop[8].text) \o <<"]">>
  BY DEF IPv6Text
<1>2. start \in Writing /\ HasWritten(start, host, 0)
  <2>1. <<>> \in Seq(Char) /\ Len(<<>>) = 0
    BY Characters
  <2>2. Texts(host, 1, 0) = <<>>
    <3>1. 1 \in 1 .. 9 /\ 0 \in 0 .. 8 /\ 0 < 1
      OBVIOUS
    <3> QED BY <3>1, TextsStep
  <2>3. NoRunBefore(host, 0 + 1)
    BY DEF NoRunBefore
  <2>4. start.text = <<>> /\ ~ start.inZeros /\ ~ start.foundZeros /\ start \in Writing
    BY <2>1 DEF Writing
  <2> HIDE DEF start
  <2>5. AllGroups(start, host, 0)
    BY <2>2, <2>3, <2>4 DEF AllGroups
  <2>6. Len(start.text) <= 6 * 0 + (IF start.foundZeros THEN 1 ELSE 0)
    BY <2>1, <2>4
  <2> QED BY <2>4, <2>5, <2>6 DEF HasWritten
<1> HIDE DEF start
<1>3. \A i \in 1 .. last, s \in Writing : WriteGroup(host, s, i) \in Writing
  <2> TAKE i \in 1 .. last, s \in Writing
  <2>1. i \in 1 .. 8
    OBVIOUS
  <2> QED BY <2>1, WriteGroupType
<1>4. \A i \in 1 .. last, s \in Writing :
        HasWritten(s, host, i - 1) => HasWritten(WriteGroup(host, s, i), host, i)
  <2> TAKE i \in 1 .. last, s \in Writing
  <2>1. i \in 1 .. 8
    OBVIOUS
  <2> QED BY <2>1, WriteGroupStep
<1>5. last \in Nat
  OBVIOUS
<1> HIDE DEF last
<1>6. step \in [1 .. last -> [Writing -> Writing]]
  BY <1>3
<1>7. \A i \in 1 .. last, s \in Writing : step[i][s] = WriteGroup(host, s, i)
  OBVIOUS
<1> HIDE DEF step
<1>8. PICK f : Recurs(f, last, Writing, start, step)
  BY <1>2, <1>5, <1>6, Recursion
<1>9. f = Body(f)
  <2>1. \A i \in 1 .. last : f[i] = WriteGroup(host, f[i - 1], i)
    <3> TAKE i \in 1 .. last
    <3>1. i - 1 \in 0 .. last
      BY <1>5
    <3>2. f[i - 1] \in Writing
      BY <1>8, <3>1 DEF Recurs
    <3> QED BY <1>7, <1>8, <3>2 DEF Recurs
  <2>2. f[0] = start /\ f = [i \in 0 .. last |-> f[i]]
    BY <1>8 DEF Recurs
  <2>3. \A i \in 0 .. last : f[i] = IF i = 0 THEN start ELSE WriteGroup(host, f[i - 1], i)
    <3> TAKE i \in 0 .. last
    <3>1. CASE i = 0
      BY <2>2, <3>1
    <3>2. CASE i # 0
      <4>1. i \in 1 .. last
        BY <1>5, <3>2
      <4> QED BY <2>1, <3>2, <4>1
    <3> QED BY <3>1, <3>2
  <2> QED BY <2>2, <2>3
<1>10. loop = Body(loop)
  BY <1>9
<1> HIDE DEF loop
<1>11. /\ loop[0] = start
       /\ \A i \in 1 .. last : loop[i] = WriteGroup(host, loop[i - 1], i)
  BY <1>5, <1>10
<1>12. loop[last] \in Writing /\ HasWritten(loop[last], host, last)
  <2> DEFINE T == {n \in Nat : n <= last => loop[n] \in Writing /\ HasWritten(loop[n], host, n)}
  <2>1. 0 \in T
    BY <1>2, <1>11
  <2>2. ASSUME NEW n \in Nat, n \in T PROVE n + 1 \in T
    <3> SUFFICES ASSUME n + 1 <= last
                 PROVE  loop[n + 1] \in Writing /\ HasWritten(loop[n + 1], host, n + 1)
      OBVIOUS
    <3>1. n + 1 \in 1 .. last /\ (n + 1) - 1 = n /\ n <= last
      BY <1>5
    <3>2. loop[n] \in Writing /\ HasWritten(loop[n], host, n)
      BY <2>2, <3>1
    <3>3. loop[n + 1] = WriteGroup(host, loop[n], n + 1)
      BY <1>11, <3>1
    <3> QED BY <1>3, <1>4, <3>1, <3>2, <3>3
  <2> HIDE DEF T
  <2>3. Nat \subseteq T
    BY <2>1, <2>2, Induction
  <2>4. last \in T
    BY <1>5, <2>3
  <2> QED BY <1>5, <2>4 DEF T
<1>13. loop[8] \in Writing /\ HasWritten(loop[8], host, 8)
  BY <1>12 DEF last
<1> QED BY <1>1, <1>13

\* All ways to write an address, by what its groups are.
LEMMA Forms ==
  ASSUME NEW host \in [1 .. 8 -> Hextet]
  PROVE  /\ Texts(host, 1, 8) \in IPv6Forms(host)
         /\ \A p, q \in 1 .. 8 :
              p <= q /\ Zeros(host, p, q) =>
                Texts(host, 1, p - 1) \o <<":", ":">> \o Texts(host, q + 1, 8)
                  \in IPv6Forms(host)
<1> DEFINE text == [i \in 1 .. 8 |-> Numeral(host[i], 16)]
           runs == {r \in (1 .. 8) \X (1 .. 8) :
                      r[1] <= r[2] /\ \A i \in r[1] .. r[2] : host[i] = 0}
           shorter == {Joined(text, <<":">>, 1, r[1] - 1) \o <<":", ":">>
                         \o Joined(text, <<":">>, r[2] + 1, 8) : r \in runs}
<1>1. IPv6Forms(host) = {Joined(text, <<":">>, 1, 8)} \cup shorter
  BY DEF IPv6Forms
<1>2. \A p, q : Texts(host, p, q) = Joined(text, <<":">>, p, q)
  BY DEF Texts, Groups, Colon
<1>3. ASSUME NEW p \in 1 .. 8, NEW q \in 1 .. 8, p <= q, Zeros(host, p, q)
      PROVE  Texts(host, 1, p - 1) \o <<":", ":">> \o Texts(host, q + 1, 8) \in shorter
  <2> DEFINE r == <<p, q>>
  <2>1. r \in runs /\ r[1] = p /\ r[2] = q
    BY <1>3 DEF Zeros
  <2> HIDE DEF r, runs
  <2>2. Joined(text, <<":">>, 1, r[1] - 1) \o <<":", ":">> \o Joined(text, <<":">>, r[2] + 1, 8)
          \in shorter
    BY <2>1
  <2> QED BY <1>2, <2>1, <2>2
<1> HIDE DEF shorter, text
<1> QED BY <1>1, <1>2, <1>3

\* What the loop has written at the end is a form, unless it is still in a run.
LEMMA WrittenIsForm ==
  ASSUME NEW a \in Address, a.family = "IPV6", ~ (EndsInZeros(a) /\ FirstRunIsLast(a)),
         NEW s \in Writing, HasWritten(s, a.host, 8)
  PROVE  LET text == IF s.text = <<>> THEN <<":", ":">> ELSE s.text
         IN  text \in IPv6Forms(a.host) /\ text \in Seq(Char) /\ Len(text) <= 49
<1> DEFINE host == a.host
           double == <<":", ":">>
           text == IF s.text = <<>> THEN double ELSE s.text
<1>1. host \in [1 .. 8 -> Hextet]
  BY DEF Address
<1> HIDE DEF host
<1>2. s.text \in Seq(Char) /\ double \in Seq(Char) /\ Len(double) = 2
  BY Characters DEF Writing
<1>3. text \in Seq(Char) /\ Len(text) <= 49
  <2>1. Len(s.text) <= 6 * 8 + (IF s.foundZeros THEN 1 ELSE 0)
    BY DEF HasWritten, host
  <2>2. Len(s.text) \in Nat /\ s.foundZeros \in BOOLEAN
    BY <1>2, LenProperties DEF Writing
  <2>3. Len(s.text) <= 49
    BY <2>1, <2>2
  <2>4. CASE s.text = <<>>
    BY <1>2, <2>4
  <2>5. CASE s.text # <<>>
    BY <1>2, <2>3, <2>5
  <2> QED BY <2>4, <2>5
<1>4. CASE AllGroups(s, host, 8)
  <2>1. s.text = Texts(host, 1, 8)
    BY <1>4 DEF AllGroups
  <2>2. s.text = Texts(host, 1, 7) \o Colon \o GroupText(host[8])
    <3>1. 1 \in 1 .. 9 /\ 8 \in 0 .. 8 /\ 8 > 1 /\ 8 - 1 = 7
      OBVIOUS
    <3> QED BY <1>1, <2>1, <3>1, TextsAre
  <2>3. s.text # <<>>
    <3>1. /\ Texts(host, 1, 7) \in Seq(Char) /\ GroupText(host[8]) \in Seq(Char)
          /\ Colon \in Seq(Char) /\ Len(Colon) = 1
      <4>1. 1 \in 1 .. 9 /\ 7 \in 0 .. 8 /\ 8 \in 1 .. 8
        OBVIOUS
      <4> QED BY <1>1, <4>1, TextsAre, GroupsType, Characters
    <3>2. /\ Texts(host, 1, 7) \o Colon \in Seq(Char)
          /\ Len(Texts(host, 1, 7) \o Colon) = Len(Texts(host, 1, 7)) + Len(Colon)
          /\ Len(Texts(host, 1, 7)) \in Nat
      BY <3>1, Longer
    <3>3. /\ Len(s.text) = Len(Texts(host, 1, 7) \o Colon) + Len(GroupText(host[8]))
          /\ Len(GroupText(host[8])) \in Nat
      BY <2>2, <3>1, <3>2, Longer
    <3>4. Len(s.text) > 0
      BY <3>1, <3>2, <3>3
    <3> QED BY <3>4, Characters
  <2> QED BY <1>1, <1>3, <2>1, <2>3, Forms DEF host
<1>5. ASSUME NEW p \in 1 .. 8, InRun(s, host, 8, p)
      PROVE  text \in IPv6Forms(host)
  <2>1. /\ p < 8 /\ Zeros(host, p, 8) /\ NoRunBefore(host, p)
        /\ s.text = Texts(host, 1, p - 1)
    BY <1>5 DEF InRun
  <2>2. p = 1
    <3> SUFFICES ASSUME p # 1 PROVE EndsInZeros(a) /\ FirstRunIsLast(a)
      OBVIOUS
    <3>1. host[7] = 0 /\ host[8] = 0
      <4>1. 7 \in p .. 8 /\ 8 \in p .. 8
        BY <2>1
      <4> QED BY <2>1, <4>1 DEF Zeros
    <3>2. ~ (host[1] = 0 /\ host[2] = 0)
      <4>1. 1 \in 1 .. 7 /\ 1 < p /\ 1 + 1 = 2
        OBVIOUS
      <4> QED BY <2>1, <4>1 DEF NoRunBefore
    <3>3. ~ IsAny(a)
      <4>1. Host(a) = host
        BY DEF Host, host
      <4>2. 1 \in DOMAIN host /\ 2 \in DOMAIN host
        BY <1>1
      <4> QED BY <3>2, <4>1, <4>2 DEF IsAny
    <3>4. FirstRunIsLast(a)
      <4>1. ASSUME NEW i \in 1 .. 7, host[i] = 0, host[i + 1] = 0, NEW j \in i .. 8
            PROVE  host[j] = 0
        <5>1. ~ (i < p)
          BY <2>1, <4>1 DEF NoRunBefore
        <5>2. j \in p .. 8
          BY <5>1
        <5> QED BY <2>1, <5>2 DEF Zeros
      <4> QED BY <4>1 DEF FirstRunIsLast, host
    <3> QED BY <3>1, <3>3, <3>4 DEF EndsInZeros, host
  <2>3. Texts(host, 1, 0) = <<>> /\ Texts(host, 9, 8) = <<>>
    <3>1. 1 \in 1 .. 9 /\ 9 \in 1 .. 9 /\ 0 \in 0 .. 8 /\ 8 \in 0 .. 8 /\ 0 < 1 /\ 8 < 9
      OBVIOUS
    <3> QED BY <1>1, <3>1, TextsAre
  <2>4. text = double
    BY <2>1, <2>2, <2>3
  <2>5. Texts(host, 1, 0) \o double \o Texts(host, 9, 8) \in IPv6Forms(host)
    <3>1. 1 \in 1 .. 8 /\ 8 \in 1 .. 8 /\ 1 <= 8 /\ Zeros(host, 1, 8)
      BY <2>1, <2>2
    <3>2. \A m, n : m = 1 - 1 /\ n = 8 + 1 =>
                      Texts(host, 1, m) \o double \o Texts(host, n, 8) \in IPv6Forms(host)
      BY <1>1, <3>1, Forms
    <3>3. 0 = 1 - 1 /\ 9 = 8 + 1
      OBVIOUS
    <3> QED BY <3>2, <3>3
  <2>6. <<>> \o double \o <<>> = double
    BY <1>2, ConcatEmptySeq
  <2> HIDE DEF double, text
  <2> QED BY <2>3, <2>4, <2>5, <2>6
<1>6. ASSUME NEW p \in 1 .. 8, NEW q \in 1 .. 8, AfterRun(s, host, 8, p, q)
      PROVE  text \in IPv6Forms(host)
  <2> DEFINE before == Texts(host, 1, p - 1)
             behind == Texts(host, q + 1, 8)
  <2>1. p <= q /\ Zeros(host, p, q) /\ s.text = before \o double \o behind
    BY <1>6 DEF AfterRun
  <2>2. s.text \in IPv6Forms(host)
    BY <1>1, <2>1, Forms
  <2>3. before \in Seq(Char) /\ behind \in Seq(Char)
    <3>1. /\ 1 \in 1 .. 9 /\ p - 1 \in 0 .. 8 /\ q + 1 \in 1 .. 9 /\ 8 \in 0 .. 8
      OBVIOUS
    <3> QED BY <1>1, <3>1, TextsAre
  <2> HIDE DEF before, behind, double
  <2>4. /\ before \o double \in Seq(Char) /\ Len(before) \in Nat
        /\ Len(before \o double) = Len(before) + Len(double)
    BY <1>2, <2>3, Longer
  <2>5. Len(s.text) = Len(before \o double) + Len(behind) /\ Len(behind) \in Nat
    BY <2>1, <2>3, <2>4, Longer
  <2>6. Len(s.text) > 0
    BY <1>2, <2>4, <2>5
  <2>7. s.text # <<>>
    BY <2>6, Characters
  <2> QED BY <2>2, <2>7
<1>7. text \in IPv6Forms(host)
  BY <1>3, <1>4, <1>5, <1>6 DEF HasWritten, host
<1> QED BY <1>3, <1>7 DEF host

\* The text of an IPv4 address, and how long it may be.
LEMMA DottedWritten ==
  ASSUME NEW word \in [1 .. 4 -> Octet]
  PROVE  /\ IPv4Text(word) = Joined([i \in 1 .. 4 |-> Numeral(word[i], 10)], <<".">>, 1, 4)
         /\ IPv4Text(word) \in Seq(Char) /\ Len(IPv4Text(word)) <= 24
<1> DEFINE dotted == [i \in 1 .. 4 |-> Numeral(word[i], 10)]
           bytes == [i \in 1 .. 4 |-> ByteText(word[i])]
           dot == <<".">>
           upTo(k) == Joined(dotted, dot, 1, k)
<1>1. bytes = dotted
  <2>1. \A i \in 1 .. 4 : ByteText(word[i]) = Numeral(word[i], 10)
    BY NumbersWritten
  <2> QED BY <2>1
<1>2. IPv4Text(word) = upTo(4)
  BY <1>1 DEF IPv4Text
<1>3. \A i \in 1 .. 4 : dotted[i] \in Seq(Char) /\ Len(dotted[i]) \in Nat /\ Len(dotted[i]) <= 5
  <2>1. \A n \in Octet : n \in Hextet
    <3>1. \A n \in Octet : n \in Nat /\ n < 65536
      BY NumbersOfBytes
    <3> QED BY <3>1, NumbersOfBytes
  <2>2. 10 \in Base
    BY DEF Base
  <2>3. \A i \in 1 .. 4 : /\ Numeral(word[i], 10) \in Seq(Char)
                          /\ Len(Numeral(word[i], 10)) \in 1 .. 5
    BY <2>1, <2>2, NumeralType
  <2>4. \A n \in 1 .. 5 : n \in Nat /\ n <= 5
    OBVIOUS
  <2> QED BY <2>3, <2>4
<1>4. dot \in Seq(Char) /\ Len(dot) = 1 /\ <<>> \in Seq(Char) /\ Len(<<>>) = 0
  BY Characters
<1>5. dotted \in [1 .. 4 -> Seq(Char)]
  BY <1>3
<1> HIDE DEF dotted, dot, bytes
<1>6. \A k \in 0 .. 4 :
        /\ upTo(k) \in Seq(Char)
        /\ upTo(k) = IF k < 1 THEN <<>>
                     ELSE upTo(k - 1) \o (IF k > 1 THEN dot ELSE <<>>) \o dotted[k]
  <2> DEFINE n == 4
             first == 1
  <2>1. n \in Nat /\ first \in Nat \ {0} /\ dotted \in [1 .. n -> Seq(Char)]
    BY <1>5
  <2> HIDE DEF n, first
  <2>2. \A k \in 0 .. n :
          /\ Joined(dotted, dot, first, k) \in Seq(Char)
          /\ Joined(dotted, dot, first, k) =
               IF k < first THEN <<>>
               ELSE Joined(dotted, dot, first, k - 1)
                      \o (IF k > first THEN dot ELSE <<>>) \o dotted[k]
    <3>1. dot \in Seq(Char)
      BY <1>4
    <3> QED BY <2>1, <3>1, JoinedStep
  <2> QED BY <2>2 DEF n, first
<1> HIDE DEF upTo
<1>7. upTo(0) = <<>> /\ Len(upTo(0)) = 0
  <2>1. 0 \in 0 .. 4 /\ 0 < 1
    OBVIOUS
  <2>2. upTo(0) = <<>>
    BY <1>6, <2>1
  <2> QED BY <1>4, <2>2
<1>8. ASSUME NEW k \in 1 .. 4
      PROVE  /\ Len(upTo(k)) <= Len(upTo(k - 1)) + 6
             /\ Len(upTo(k - 1)) \in Nat /\ Len(upTo(k)) \in Nat
  <2> DEFINE between == IF k > 1 THEN dot ELSE <<>>
  <2>1. k \in 0 .. 4 /\ k - 1 \in 0 .. 4 /\ ~ (k < 1)
    OBVIOUS
  <2>2. upTo(k - 1) \in Seq(Char) /\ upTo(k) = upTo(k - 1) \o between \o dotted[k]
    BY <1>6, <2>1
  <2>3. between \in Seq(Char) /\ Len(between) <= 1
    <3>1. between = dot \/ between = <<>>
      OBVIOUS
    <3> HIDE DEF between
    <3>2. between \in Seq(Char) /\ (Len(between) = 1 \/ Len(between) = 0)
      BY <1>4, <3>1
    <3>3. 1 <= 1 /\ 0 <= 1
      OBVIOUS
    <3> QED BY <3>2, <3>3
  <2> HIDE DEF between
  <2> DEFINE m == Len(upTo(k - 1))
             earlier == upTo(k - 1)
  <2>4. earlier \in Seq(Char) /\ m \in Nat /\ Len(earlier) <= m /\ Len(earlier) = m
    BY <2>2, LenProperties
  <2> HIDE DEF m, earlier
  <2>5. 1 \in Nat /\ 5 \in Nat /\ m + 1 \in Nat /\ (m + 1) + 5 = m + 6
    BY <2>4
  <2>6. earlier \o between \in Seq(Char) /\ Len(earlier \o between) <= m + 1
    BY <2>3, <2>4, <2>5, BoundedText
  <2>7. dotted[k] \in Seq(Char) /\ Len(dotted[k]) <= 5
    BY <1>3
  <2>8. /\ earlier \o between \o dotted[k] \in Seq(Char)
        /\ Len(earlier \o between \o dotted[k]) <= (m + 1) + 5
    BY <2>5, <2>6, <2>7, BoundedText
  <2>9. upTo(k) = earlier \o between \o dotted[k]
    BY <2>2 DEF earlier
  <2>10. upTo(k) \in Seq(Char) /\ Len(upTo(k)) \in Nat /\ Len(upTo(k)) <= m + 6
    BY <2>5, <2>8, <2>9, LenProperties
  <2> QED BY <2>4, <2>10 DEF m
<1>9. Len(upTo(4)) <= 24
  <2>1. Len(upTo(1)) <= Len(upTo(0)) + 6 /\ Len(upTo(1)) \in Nat
    <3>1. 1 \in 1 .. 4 /\ 1 - 1 = 0
      OBVIOUS
    <3> QED BY <1>8, <3>1
  <2>2. Len(upTo(2)) <= Len(upTo(1)) + 6 /\ Len(upTo(2)) \in Nat
    <3>1. 2 \in 1 .. 4 /\ 2 - 1 = 1
      OBVIOUS
    <3> QED BY <1>8, <3>1
  <2>3. Len(upTo(3)) <= Len(upTo(2)) + 6 /\ Len(upTo(3)) \in Nat
    <3>1. 3 \in 1 .. 4 /\ 3 - 1 = 2
      OBVIOUS
    <3> QED BY <1>8, <3>1
  <2>4. Len(upTo(4)) <= Len(upTo(3)) + 6 /\ Len(upTo(4)) \in Nat
    <3>1. 4 \in 1 .. 4 /\ 4 - 1 = 3
      OBVIOUS
    <3> QED BY <1>8, <3>1
  <2> QED BY <1>7, <2>1, <2>2, <2>3, <2>4
<1>10. upTo(4) \in Seq(Char)
  BY <1>6
<1> QED BY <1>2, <1>9, <1>10 DEF upTo, dotted, dot

\* What ToURI() writes is a text of the address, unless it drops a run at the end.
LEMMA URIIsText ==
  ASSUME NEW a \in Address, HasFamily(a), ~ (EndsInZeros(a) /\ FirstRunIsLast(a))
  PROVE  IsTextOf(ToURI(a, TRUE), a)
<1> DEFINE n == ntohs(a.port)
           port == <<":">> \o Numeral(n, 10)
           dotted == [i \in 1 .. 4 |-> Numeral(a.word[i], 10)]
           body == IF a.family = "IPV4" THEN IPv4Text(a.word) ELSE IPv6Text(a.host)
<1>1. /\ a.port \in Octet \X Octet /\ a.word \in [1 .. 4 -> Octet]
      /\ a.host \in [1 .. 8 -> Hextet]
  BY DEF Address
<1>2. n \in Hextet
  BY <1>1, TwoBytes DEF ntohs
<1>3. PortText(n) = Numeral(n, 10)
  BY <1>2, NumbersWritten
<1>4. ToURI(a, TRUE) = body \o port
  BY <1>3 DEF ToURI
<1>5. port \in Seq(Char) /\ Len(port) <= 1 + 5
  <2>1. 10 \in Base
    BY DEF Base
  <2>2. Numeral(n, 10) \in Seq(Char) /\ Len(Numeral(n, 10)) \in 1 .. 5
    BY <1>2, <2>1, NumeralType
  <2>3. <<":">> \in Seq(Char) /\ Len(<<":">>) = 1
    BY Characters DEF Colon
  <2>4. Len(<<":">>) <= 1 /\ Len(Numeral(n, 10)) <= 5 /\ 1 \in Nat /\ 5 \in Nat
    <3>1. 1 <= 1 /\ \A k \in 1 .. 5 : k <= 5
      OBVIOUS
    <3> QED BY <2>2, <2>3, <3>1
  <2> HIDE DEF n
  <2> QED BY <2>2, <2>3, <2>4, BoundedText
<1>6. ASSUME NEW text \in Seq(Char), Len(text) <= 51
      PROVE  Len(text \o port) < 64
  <2>1. 51 \in Nat /\ 1 + 5 \in Nat /\ 51 + (1 + 5) = 57
    OBVIOUS
  <2> HIDE DEF port
  <2>2. text \o port \in Seq(Char) /\ Len(text \o port) <= 57
    BY <1>5, <1>6, <2>1, BoundedText
  <2>3. Len(text \o port) \in Nat
    BY <2>2, LenProperties
  <2> QED BY <2>2, <2>3
<1> HIDE DEF n
<1>7. CASE a.family = "IPV4"
  <2>1. /\ body = Joined(dotted, <<".">>, 1, 4)
        /\ body \in Seq(Char) /\ Len(body) <= 24
    BY <1>1, <1>7, DottedWritten
  <2>2. Len(ToURI(a, TRUE)) < 64
    <3> HIDE DEF body, port
    <3>1. Len(body) \in Nat
      BY <2>1, LenProperties
    <3>2. Len(body) <= 51
      BY <2>1, <3>1
    <3> QED BY <1>4, <1>6, <2>1, <3>2
  <2> HIDE DEF dotted
  <2> QED BY <1>4, <1>7, <2>1, <2>2 DEF IsTextOf, dotted, n
<1>8. CASE a.family = "IPV6"
  <2>1. PICK s \in Writing :
          /\ HasWritten(s, a.host, 8)
          /\ IPv6Text(a.host) =
               <<"[">> \o (IF s.text = <<>> THEN <<":", ":">> ELSE s.text) \o <<"]">>
    BY <1>1, LoopWrites
  <2> DEFINE form == IF s.text = <<>> THEN <<":", ":">> ELSE s.text
  <2>2. form \in IPv6Forms(a.host) /\ form \in Seq(Char) /\ Len(form) <= 49
    BY <1>8, <2>1, WrittenIsForm
  <2>3. body = <<"[">> \o form \o <<"]">>
    BY <1>8, <2>1
  <2> HIDE DEF form
  <2>4. body \in Seq(Char) /\ Len(body) <= 51
    <3>1. /\ <<"[">> \in Seq(Char) /\ Len(<<"[">>) = 1
          /\ <<"]">> \in Seq(Char) /\ Len(<<"]">>) = 1
      BY Characters
    <3>2. 1 \in Nat /\ 49 \in Nat /\ 1 + 49 \in Nat /\ (1 + 49) + 1 = 51 /\ 1 <= 1
      OBVIOUS
    <3>3. <<"[">> \o form \in Seq(Char) /\ Len(<<"[">> \o form) <= 1 + 49
      BY <2>2, <3>1, <3>2, BoundedText
    <3>4. /\ <<"[">> \o form \o <<"]">> \in Seq(Char)
          /\ Len(<<"[">> \o form \o <<"]">>) <= (1 + 49) + 1
      BY <3>1, <3>2, <3>3, BoundedText
    <3> HIDE DEF body
    <3> QED BY <2>3, <3>2, <3>4
  <2>5. Len(ToURI(a, TRUE)) < 64
    <3> HIDE DEF body, port
    <3> QED BY <1>4, <1>6, <2>4
  <2>6. ToURI(a, TRUE) = <<"[">> \o form \o <<"]">> \o port
    BY <1>4, <2>3
  <2> QED BY <1>8, <2>2, <2>5, <2>6 DEF IsTextOf, n
<1> QED BY <1>7, <1>8 DEF HasFamily

\* ToURI() writes every address that the program holds as a text of that address,
\* which fits in a String, but for those whose first run of zeroes is at the end.
THEOREM URIsReadBack == AddressSpec => []URIReadsBack
<1>1. AddressTypeOK => URIReadsBack
  BY URIIsText DEF AddressTypeOK, URIReadsBack
<1> QED BY <1>1, AddressTypeCorrect, PTL
=============================================================================

