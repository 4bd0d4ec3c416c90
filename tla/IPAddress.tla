------------------------------ MODULE IPAddress ------------------------------
(***************************************************************************)
(* smbb::IPAddress (src/smbb/IPAddress.h, IPAddress.cxx, the POSIX build): *)
(* the operators on an address that keep no state.                         *)
(***************************************************************************)
EXTENDS Integers, Sequences

IPAddressFamily == {"IPV4", "IPV6", "FAMILY_UNSPECIFIED"}
Octet == 0 .. 2^8 - 1
Hextet == 0 .. 2^16 - 1

\* The union of sockaddr_in and sockaddr_in6, in network order.  word is
\* sin_addr, and sin6_flowinfo behind the same bytes; host is sin6_addr.
Address ==
  [family : IPAddressFamily, port : Octet \X Octet, word : [1 .. 4 -> Octet],
   host : [1 .. 8 -> Hextet], scope : Nat]

\* An interface may have an address of another family, or none.
HasFamily(a) == a.family \in {"IPV4", "IPV6"}

\* Mutant: the port as it lies in memory, on a machine that is little-endian.
ntohs_Nothing(port) == port[2] * 256 + port[1]

ntohs(port) == port[1] * 256 + port[2]
htons(n) == <<n \div 256, n % 256>>

\* The conversions from unsigned short to short and back.
Short(n) == IF n < 32768 THEN n ELSE n - 65536
UnsignedShort(n) == n % 65536

LOOPBACK_IP == <<127, 0, 0, 1>>
LOOPBACK_IPV6 == <<0, 0, 0, 0, 0, 0, 0, 1>>

\* IPAddress(family)
Empty(f) ==
  [family |-> f, port |-> <<0, 0>>, word |-> [i \in 1 .. 4 |-> 0],
   host |-> [i \in 1 .. 8 |-> 0], scope |-> 0]

Loopback(f) ==
  CASE f = "IPV4" -> [Empty(f) EXCEPT !.word = LOOPBACK_IP]
    [] f = "IPV6" -> [Empty(f) EXCEPT !.host = LOOPBACK_IPV6]
    [] OTHER      -> Empty(f)

\* IPAddress(address, port)
WithPort(a, n) == IF HasFamily(a) THEN [a EXCEPT !.port = htons(n)] ELSE a

GetPort(a) == IF HasFamily(a) THEN Short(ntohs(a.port)) ELSE 0

\* The part of the union that is the address.
Host(a) == IF a.family = "IPV4" THEN a.word ELSE a.host

\* operator==
Equal(a, b) ==
  /\ a.family = b.family /\ HasFamily(a)
  /\ Host(a) = Host(b) /\ a.port = b.port

\* Mutant: the scope goes into the hash.
Hash_Scope(a, includePort) ==
  IF HasFamily(a)
  THEN Host(a) \o (IF includePort THEN a.port ELSE <<>>) \o <<a.scope>> ELSE <<>>

\* Hash() by the bytes that it multiplies and xors into the result, in order.
Hash(a, includePort) ==
  IF HasFamily(a) THEN Host(a) \o (IF includePort THEN a.port ELSE <<>>) ELSE <<>>

IsAny(a) == HasFamily(a) /\ \A i \in DOMAIN Host(a) : Host(a)[i] = 0
IsLoopback(a) == HasFamily(a) /\ Host(a) = Host(Loopback(a.family))
IsMulticast(a) ==
  \/ a.family = "IPV4" /\ a.word[1] \div 16 = 14
  \/ a.family = "IPV6" /\ a.host[1] \div 256 = 255

\* Equal addresses have equal hashes, with the port and without.
HashesAlike(a, b) ==
  Equal(a, b) => \A includePort \in BOOLEAN : Hash(a, includePort) = Hash(b, includePort)

\* The port of a, read as a short and given to b, is the port of b.
PortReturns(a, b) ==
  HasFamily(a) /\ HasFamily(b) =>
    LET c == WithPort(b, UnsignedShort(GetPort(a)))
    IN  GetPort(c) = GetPort(a) /\ c.port = a.port

-----------------------------------------------------------------------------
\* ToURI(), as a sequence of characters.

Digit == <<"0", "1", "2", "3", "4", "5", "6", "7", "8", "9", "a", "b", "c", "d",
           "e", "f">>

\* Mutant: a digit is shown or not for its own sake.
GetDigit_ForgetsShow(s, div) ==
  LET digit == s.value \div div
  IN  [value |-> s.value % div, show |-> digit # 0,
       text |-> s.text \o IF digit # 0 THEN <<Digit[digit + 1]>> ELSE <<>>]

\* IP_ADDRESS_GET_DIGIT
GetDigit(s, div) ==
  LET digit == s.value \div div
      show == s.show \/ digit # 0
  IN  [value |-> s.value % div, show |-> show,
       text |-> s.text \o IF show THEN <<Digit[digit + 1]>> ELSE <<>>]

\* The digits of a number; the last one is always written.
Started(n) == [value |-> n, show |-> FALSE, text |-> <<>>]
Ended(s) == s.text \o <<Digit[s.value + 1]>>

ByteText(n) == Ended(GetDigit(GetDigit(Started(n), 100), 10))
PortText(n) ==
  Ended(GetDigit(GetDigit(GetDigit(GetDigit(Started(n), 10000), 1000), 100), 10))

\* The texts from first to last, each but the first behind a separator.
Joined(text, separator, first, last) ==
  LET loop[k \in 0 .. Len(text)] ==
        IF k < first THEN <<>>
        ELSE loop[k - 1] \o (IF k > first THEN separator ELSE <<>>) \o text[k]
  IN  loop[last]

IPv4Text(word) == Joined([i \in 1 .. 4 |-> ByteText(word[i])], <<".">>, 1, 4)

\* The two bytes of a group in hexadecimal.
GroupText(group) ==
  LET a == group \div 256
      b == group % 256
  IN  (IF a \div 16 # 0 THEN <<Digit[a \div 16 + 1]>> ELSE <<>>)
      \o (IF a # 0 THEN <<Digit[(a % 16) + 1]>> ELSE <<>>)
      \o (IF a # 0 \/ b \div 16 # 0 THEN <<Digit[b \div 16 + 1]>> ELSE <<>>)
      \o <<Digit[(b % 16) + 1]>>

\* Group i is left out: the first run of at least two zeroes has begun.
StartsZeros(host, s, i) ==
  /\ host[i] = 0 /\ ~ s.foundZeros
  /\ s.inZeros \/ (i < 8 /\ host[i + 1] = 0)

WriteGroup(host, s, i) ==
  IF StartsZeros(host, s, i) THEN [s EXCEPT !.inZeros = TRUE]
  ELSE [inZeros |-> FALSE, foundZeros |-> s.foundZeros \/ s.inZeros,
        text |-> s.text \o (IF s.inZeros THEN <<":">> ELSE <<>>)
                        \o (IF i > 1 THEN <<":">> ELSE <<>>)
                        \o GroupText(host[i])]

IPv6Text(host) ==
  LET loop[i \in 0 .. 8] ==
        IF i = 0 THEN [inZeros |-> FALSE, foundZeros |-> FALSE, text |-> <<>>]
        ELSE WriteGroup(host, loop[i - 1], i)
      text == loop[8].text
  IN  <<"[">> \o (IF text = <<>> THEN <<":", ":">> ELSE text) \o <<"]">>

\* The text in the buffer, or NULL as the empty sequence.
ToURI(a, includePort) ==
  IF ~ HasFamily(a) THEN <<>>
  ELSE (IF a.family = "IPV4" THEN IPv4Text(a.word) ELSE IPv6Text(a.host))
       \o (IF includePort THEN <<":">> \o PortText(ntohs(a.port)) ELSE <<>>)
=============================================================================
