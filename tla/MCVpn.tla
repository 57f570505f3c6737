-------------------------------- MODULE MCVpn --------------------------------
(***************************************************************************)
(* Instances of Vpn with seven byte values: 0 is the network prefix, 1 and *)
(* 2 are the users, 3 the server's number in the virtual network, 4 the    *)
(* first byte of an IPv4 packet, 5 that of one with options and 6 that of  *)
(* any other packet.  c1 and c2 are devices of users 1 and 2; w was given  *)
(* number 1 and another password.                                          *)
(*                                                                         *)
(* c1's table sends 6 to 2: what is not IPv4 looks like a datagram of user *)
(* 2 to the server.  c2's table sends 5 to 1: an IPv4 packet for user 1    *)
(* looks like one with options at c2, if c2 gets it.                       *)
(***************************************************************************)
EXTENDS Vpn, Integers, Sequences, TLC

CONSTANTS c1, c2, w, a1, a2, a3, srv, none

Renamings == Permutations({a1, a2, a3})

(***************************************************************************)
(* Bounds: two changes of address to a new one, enough for a client to     *)
(* come to an address another one has left; and how many datagrams there   *)
(* are at once.                                                            *)
(***************************************************************************)
FewMoves ==
  Cardinality(UNION { {c} \X been[c] : c \in Clients })
    <= Cardinality(Clients) + 2

OneUnderWay == FewMoves /\ Cardinality(net) <= 1
TwoUnderWay == FewMoves /\ Cardinality(net) <= 2

MCByte == 0 .. 6
MCVer4 == {4, 5}

Pair(s) ==
  LET enc == [b \in MCByte |-> s[b + 1]]
  IN  [encode |-> enc, decode |-> AntiFunction(enc)]

TableOf1 == Pair(<<6, 0, 5, 4, 1, 3, 2>>)
TableOf2 == Pair(<<4, 5, 6, 3, 2, 1, 0>>)
WrongTable == Pair(<<5, 4, 6, 2, 1, 0, 3>>)

MCUsers == {1, 2}
MCSrvTable == [u \in Users |-> IF u = 1 THEN TableOf1 ELSE TableOf2]
MCUid == [c \in Clients |-> IF c = c2 THEN 2 ELSE 1]
MCCliTable ==
  [c \in Clients |-> CASE c = c1 -> TableOf1
                       [] c = c2 -> TableOf2
                       [] c = w -> WrongTable]

P(ver, src, dst) == [ver |-> ver, net |-> 0, src |-> src, dst |-> dst]

(***************************************************************************)
(* Packets for the server, between users, with options or not IPv4, with a *)
(* source that is not its own, and for a number that no user has.          *)
(***************************************************************************)
MCClientPackets ==
  [c \in Clients |-> CASE c = c1 -> {P(4, 1, 3), P(6, 1, 3)}
                       [] c = c2 -> {P(4, 2, 1)}
                       [] c = w -> {P(4, 1, 3), P(4, 2, 3)}]

MCServerPackets == {P(4, 3, 1)}

(***************************************************************************)
(* Less traffic, for a network that holds more of it.                      *)
(***************************************************************************)
FewClientPackets == [c \in Clients |-> {P(4, Uid[c], 3)}]
FewServerPackets == {P(5, 3, 1), P(4, 3, 6)}
=============================================================================
