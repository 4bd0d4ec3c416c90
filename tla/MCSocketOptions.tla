-------------------------- MODULE MCSocketOptions ---------------------------
(***************************************************************************)
(* The instance of SocketOptions for TLC.                                  *)
(***************************************************************************)
EXTENDS SocketOptions

MCValue ==
  [o \in Plain |->
     CASE o = "TOS" -> {0, 3, 184, 255}
       [] o = "MTU_DISCOVER" -> {0, 2}
       [] o = "MULTICAST_HOPS" -> {-1, 0, 255, 256}
       [] OTHER -> {0, 1}]

LocalV4(word) == [Empty("IPV4") EXCEPT !.word = word]
LocalV6(host) == [Empty("IPV6") EXCEPT !.host = host]

Eth0V4 == LocalV4(<<10, 0, 0, 1>>)
Eth0V6 == LocalV6(<<65152, 0, 0, 0, 0, 0, 0, 1>>)
Eth1V6 == LocalV6(<<65152, 0, 0, 0, 0, 0, 0, 2>>)

MCDevice ==
  {[name |-> "eth0", address |-> Eth0V4], [name |-> "eth0", address |-> Eth0V6],
   [name |-> "eth1", address |-> Eth1V6]}

MCGroup == {LocalV4(<<224, 0, 0, 9>>), LocalV6(<<65282, 0, 0, 0, 0, 0, 0, 9>>)}
MCLocal == {Empty("FAMILY_UNSPECIFIED"), Eth0V4, Eth0V6}
=============================================================================
