--------------------------- MODULE ParseAddresses ---------------------------
(***************************************************************************)
(* A program that parses addresses (IPAddress::Parse(), in                 *)
(* src/smbb/IPAddress.cxx, the POSIX build) into an array, over the        *)
(* resolver and the interfaces of the machine, and makes others from them. *)
(***************************************************************************)
EXTENDS IPAddress, FiniteSets

CONSTANTS
  Native,        \* the sockaddr_in and sockaddr_in6 that callers pass
  Answer,        \* what getaddrinfo() may answer: sequences of addresses
  Listing,       \* what getifaddrs() may list: sequences of addresses
  ResultsSize,   \* the length of the array given to Parse()
  Port           \* the ports that callers pass

\* What a list of the kernel holds: an interface may have no address, or one of
\* another family.
SocketAddress == Address \cup [family : {"OTHER"}]

ASSUME AddressAssumption ==
  /\ Native \subseteq {a \in Address : HasFamily(a)}
  /\ Answer \subseteq Seq(SocketAddress)
  /\ Listing \subseteq Seq(SocketAddress)
  /\ Port \subseteq Hextet
  /\ ResultsSize \in Nat

VARIABLES
  results,    \* results[]
  returned,   \* what Parse() returned
  call        \* history: the arguments of Parse() and what it was told, if that
              \* was the last call

addressVars == <<results, returned, call>>

NoCall == [kind |-> "none"]

Call ==
  [kind : {"interfaces", "resolver"}, size : 0 .. ResultsSize,
   family : IPAddressFamily, answer : Answer, list : Listing]

AddressTypeOK ==
  /\ results \in [1 .. ResultsSize -> Address]
  /\ returned \in -1 .. ResultsSize
  /\ call \in Call \cup {NoCall}

AddressInit ==
  /\ results = [i \in 1 .. ResultsSize |-> Empty("FAMILY_UNSPECIFIED")]
  /\ returned = 0
  /\ call = NoCall

\* Mutant: one result too many.
Room_OneMore(i, size) == i <= size

Room(i, size) == i < size

\* The port of the first answer that has one; getaddrinfo(NULL, service) may fail,
\* which leaves the port 0.
ServicePort(answer) ==
  LET with == {i \in DOMAIN answer : HasFamily(answer[i]) /\ ntohs(answer[i].port) # 0}
  IN  IF with = {} THEN 0
      ELSE ntohs(answer[CHOOSE i \in with : \A j \in with : i <= j].port)

\* Mutant: loopback addresses are not left out.
IsWanted_Loopback(a, f) == HasFamily(a) /\ f \in {"FAMILY_UNSPECIFIED", a.family}

IsWanted(a, f) ==
  HasFamily(a) /\ f \in {"FAMILY_UNSPECIFIED", a.family} /\ ~ IsLoopback(a)

\* The address "" is for the addresses of all interfaces, with the port of the
\* service.  Any other goes to getaddrinfo(), whose answers are of the family asked.
Source(c) == IF c.kind = "interfaces" THEN c.list ELSE c.answer
Keeps(c, a) == IF c.kind = "interfaces" THEN IsWanted(a, c.family) ELSE HasFamily(a)
Result(c, a) ==
  IF c.kind = "interfaces" THEN WithPort(a, ServicePort(c.answer)) ELSE a

\* A turn of the loop over the list: array[i++] = a, where there is room.
Turn(s, c, a) ==
  IF Room(s.i, c.size) /\ Keeps(c, a)
  THEN [i |-> s.i + 1, array |-> [s.array EXCEPT ![s.i + 1] = Result(c, a)]]
  ELSE s

Filled(array, c) ==
  LET loop[k \in 0 .. Len(Source(c))] ==
        IF k = 0 THEN [i |-> 0, array |-> array]
        ELSE Turn(loop[k - 1], c, Source(c)[k])
  IN  loop[Len(Source(c))]

Fills(filled) == results' = filled.array /\ returned' = filled.i
Fails == returned' = -1 /\ UNCHANGED results

IsAnswered(c) ==
  c.kind = "resolver" =>
    /\ c.list = <<>>
    /\ \A i \in DOMAIN c.answer :
         c.family \in {"FAMILY_UNSPECIFIED", c.answer[i].family}

\* getifaddrs() or getaddrinfo() fails.
ParseFails(c) == c.answer = <<>> /\ c.list = <<>> /\ Fails

Parse(c) ==
  /\ (IsAnswered(c) /\ Fills(Filled(results, c))) \/ ParseFails(c)
  /\ call' = c

Assign(i, a) ==
  /\ results' = [results EXCEPT ![i] = a]
  /\ call' = NoCall
  /\ returned' = 0

\* The constructors and Loopback().  The one that parses gives the first result, or
\* the empty address if there is none.
Construct(i) ==
  \/ \E f \in IPAddressFamily : Assign(i, Empty(f)) \/ Assign(i, Loopback(f))
  \/ \E a \in Native : Assign(i, a)
  \/ \E j \in DOMAIN results, n \in Port : Assign(i, WithPort(results[j], n))
  \/ \E c \in {d \in Call : d.size = 1 /\ IsAnswered(d)} :
       Assign(i, Filled(<<Empty("FAMILY_UNSPECIFIED")>>, c).array[1])

AddressNext ==
  \/ \E c \in Call : Parse(c)
  \/ \E i \in DOMAIN results : Construct(i)

AddressSpec == AddressInit /\ [][AddressNext]_addressVars

-----------------------------------------------------------------------------
\* Properties.

\* The places in the list of what the caller asked for: with "" "all non-loopback
\* addresses" of the family, and else every address that the resolver knows.
Asked(c) ==
  {k \in DOMAIN Source(c) :
     /\ HasFamily(Source(c)[k])
     /\ c.kind = "interfaces" =>
          /\ c.family = "FAMILY_UNSPECIFIED" \/ c.family = c.list[k].family
          /\ ~ IsLoopback(c.list[k])}

\* The ports that the service may have.
Ports(c) ==
  LET ports == {ntohs(c.answer[i].port) : i \in {j \in DOMAIN c.answer : HasFamily(c.answer[j])}}
  IN  IF ports \subseteq {0} THEN {0} ELSE ports \ {0}

\* What Parse() gives is what was asked for and nothing else, in its order and none
\* twice or left out, as far as there is room: the addresses of interfaces with one
\* port, which the service has, and what the resolver answers as it is.
ParseIsRight ==
  call # NoCall /\ returned >= 0 =>
    /\ IF Cardinality(Asked(call)) < call.size
       THEN returned = Cardinality(Asked(call)) ELSE returned = call.size
    /\ \E port \in Ports(call) :
         \A k \in Asked(call) :
           LET n == Cardinality({j \in Asked(call) : j <= k})
           IN  n <= returned =>
                 IF call.kind = "interfaces"
                 THEN /\ results[n].family = call.list[k].family
                      /\ Host(results[n]) = Host(call.list[k])
                      /\ UnsignedShort(GetPort(results[n])) = port
                 ELSE results[n] = call.answer[k]

\* Parse() writes no more than the resultsSize entries it was given, and none but
\* those that it counts: a failure leaves the array as it was.
ParseStaysInside ==
  [][call' # NoCall =>
       /\ returned' <= call'.size
       /\ \A i \in DOMAIN results : i > returned' => results'[i] = results[i]]_addressVars

\* What a hash table needs: equal addresses have equal hashes, with the port and
\* without, and those that differ in the port alone have the same hash without.
HashAgrees ==
  \A i, j \in DOMAIN results :
    /\ HashesAlike(results[i], results[j])
    /\ \A n \in Port : Hash(WithPort(results[i], n), FALSE) = Hash(results[i], FALSE)

\* The port that GetPort() gives, a short that is negative from 32768 on, makes
\* an equal port again when it is passed back as an unsigned short.
PortSurvives ==
  \A i, j \in DOMAIN results : PortReturns(results[i], results[j])

\* The digits of a number without leading zeroes, by definition.
Width(n, base) ==
  CHOOSE w \in 1 .. 5 : n < base^w /\ (w > 1 => n >= base^(w - 1))

Numeral(n, base) ==
  [i \in 1 .. Width(n, base) |-> Digit[((n \div base^(Width(n, base) - i)) % base) + 1]]

\* All ways to write an IPv6 address (RFC 4291, section 2.2): eight groups, or
\* "::" for one run of zeroes.
IPv6Forms(host) ==
  LET text == [i \in 1 .. 8 |-> Numeral(host[i], 16)]
      runs == {r \in (1 .. 8) \X (1 .. 8) :
                 r[1] <= r[2] /\ \A i \in r[1] .. r[2] : host[i] = 0}
  IN  {Joined(text, <<":">>, 1, 8)} \cup
      {Joined(text, <<":">>, 1, r[1] - 1) \o <<":", ":">>
         \o Joined(text, <<":">>, r[2] + 1, 8) : r \in runs}

\* The text is one of the ways to write the address, and fits in a String.
IsTextOf(text, a) ==
  /\ Len(text) < 64
  /\ LET port == <<":">> \o Numeral(ntohs(a.port), 10)
         dotted == [i \in 1 .. 4 |-> Numeral(a.word[i], 10)]
     IN  IF a.family = "IPV4" THEN text = Joined(dotted, <<".">>, 1, 4) \o port
         ELSE \E form \in IPv6Forms(a.host) : text = <<"[">> \o form \o <<"]">> \o port

\* Two groups of zeroes or more at the end of an address, which ToURI() drops.
EndsInZeros(a) == a.family = "IPV6" /\ ~ IsAny(a) /\ a.host[7] = 0 /\ a.host[8] = 0

FirstRunIsLast(a) ==
  \A i \in 1 .. 7 : a.host[i] = 0 /\ a.host[i + 1] = 0 => \A j \in i .. 8 : a.host[j] = 0

\* What ToURI() writes reads back as the address, but for those whose first run
\* of zeroes is at the end.
URIReadsBack ==
  \A i \in DOMAIN results :
    LET a == results[i]
    IN  HasFamily(a) /\ ~ (EndsInZeros(a) /\ FirstRunIsLast(a)) =>
          IsTextOf(ToURI(a, TRUE), a)

\* "Gets the string URI authority (host/port) representation of the address,
\* returning the buffer if successful" (IPAddress.cxx:178): for every address.
EveryURIReadsBack ==
  \A i \in DOMAIN results :
    HasFamily(results[i]) => IsTextOf(ToURI(results[i], TRUE), results[i])
=============================================================================
