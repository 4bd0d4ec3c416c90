------------------------- MODULE MCParseAddresses --------------------------
(***************************************************************************)
(* Instances of ParseAddresses for TLC.                                    *)
(***************************************************************************)
EXTENDS ParseAddresses

V4(word, port) == [Empty("IPV4") EXCEPT !.word = word, !.port = htons(port)]
V6(host, port, scope) ==
  [Empty("IPV6") EXCEPT !.host = host, !.port = htons(port), !.scope = scope]

LinkLocal == <<65152, 0, 0, 0, 16, 256, 4096, 1>>

\* Runs of zeroes at the start, in the middle, twice and alone; groups of every
\* width; numbers with a zero inside and at the end; ports on both sides of the
\* sign bit; one link-local address on two interfaces.
MCNative ==
  {V4(<<10, 0, 0, 100>>, 80), V4(<<224, 9, 109, 255>>, 65007),
   V6(LinkLocal, 80, 1), V6(LinkLocal, 80, 2),
   V6(<<1, 0, 0, 2, 0, 0, 0, 0>>, 80, 0),
   V6(<<65282, 0, 2, 0, 3, 0, 4, 0>>, 80, 0)}

\* An address whose only run of zeroes is at the end.
MCEndsInZeros == MCNative \cup {V6(<<8193, 3512, 0, 0, 0, 0, 0, 0>>, 80, 0)}

MCPacket == [family |-> "OTHER"]
MCListing ==
  {<<>>,
   <<MCPacket, MCPacket, Loopback("IPV4"), V4(<<10, 0, 0, 100>>, 0),
     Loopback("IPV6"), V6(LinkLocal, 0, 1)>>}

MCAnswer ==
  {<<>>, <<V4(<<10, 0, 0, 100>>, 80)>>,
   <<Empty("IPV6"), MCPacket, V4(<<0, 0, 0, 0>>, 65007)>>}
=============================================================================
