----------------------- MODULE MCAddressesAndOptions ------------------------
(***************************************************************************)
(* The instance of ParseAddresses and SocketOptions for TLC, in one        *)
(* program.  The parts share IPAddress and no state, so one stays as it    *)
(* began while the other moves.                                            *)
(***************************************************************************)
EXTENDS MCParseAddresses, MCSocketOptions

Init == AddressInit /\ OptionInit

AddressesAtRest ==
  /\ results = [i \in 1 .. ResultsSize |-> Empty("FAMILY_UNSPECIFIED")]
  /\ returned = 0 /\ call = NoCall

\* The option that is followed while the addresses move.
OptionAtRest ==
  /\ option = "TOS" /\ family = "FAMILY_UNSPECIFIED" /\ ~ dual
  /\ last = NotCalled

\* Of two different entries nothing is left to be done but to clear one: bounds the
\* run.
EntriesFollowed ==
  \/ \E i \in 1 .. ResultsSize : results[i] = Empty("FAMILY_UNSPECIFIED")
  \/ \A i, j \in 1 .. ResultsSize : results[i] = results[j]

Clear == \E i \in 1 .. ResultsSize : Assign(i, Empty("FAMILY_UNSPECIFIED"))

Next ==
  \/ /\ OptionAtRest
     /\ \/ EntriesFollowed /\ AddressNext
        \/ ~ EntriesFollowed /\ Clear
     /\ UNCHANGED optionVars
  \/ AddressesAtRest /\ OptionNext /\ UNCHANGED addressVars

Spec == Init /\ [][Next]_<<addressVars, optionVars>>

\* What the kernel does with IPv4 options of IPv6 sockets does not matter to others.
DualMatters == dual => family = "IPV6"
=============================================================================
