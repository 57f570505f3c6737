-------------------------------- MODULE Wire --------------------------------
(***************************************************************************)
(* What the server and the clients share: the users and their tables, the  *)
(* addresses, and the UDP datagrams under way between them.                *)
(*                                                                         *)
(* `net' holds every datagram that has been sent and is not yet at the     *)
(* head of a socket's buffer: on a link, or behind another one.  It has no *)
(* order; datagrams can be lost and, if MayDuplicate, arrive again.        *)
(***************************************************************************)
EXTENDS Tables, Naturals, FiniteSets

CONSTANTS
  Users,          \* the numbers in the server's configuration
  SrvTable,       \* the tables the server made for each of them
  Clients,        \* the client processes
  Uid,            \* the number each client was started with
  CliTable,       \* the tables it made from its number and its password
  Ver4,           \* the first bytes whose high half is 4
  LocalNet,       \* the first three bytes of the server's `local' address
  ClientPackets,  \* what the kernel of each client can route to its tunnel
  ServerPackets,  \* what the kernel of the server can route to its tunnel
  Addr,           \* the addresses clients can have
  ServerAddr,     \* the address of the server, and its name as an end
  NoAddr,         \* what an address holds that was never written
  MaxNet,         \* bound: what can be under way between two addresses
  MayDuplicate    \* whether the network can deliver a datagram again

(***************************************************************************)
(* A client whose number and password are those of a user.  A client with  *)
(* another password has other tables.                                      *)
(***************************************************************************)
Rightful(c) == Uid[c] \in Users /\ CliTable[c] = SrvTable[Uid[c]]

(***************************************************************************)
(* The test of svpn_server.c on a datagram: its first byte, before         *)
(* decryption, is the number of a user, and decrypted with the tables of   *)
(* this user it comes from the user's address in the virtual network.      *)
(***************************************************************************)
Accepts(data) ==
  /\ data.ver \in Users
  /\ LET p == Decrypt(SrvTable[data.ver], data)
     IN  p.net = LocalNet /\ p.src = data.ver

ASSUME MagicAssumption == Magic \in Byte /\ Magic \in Ver4
ASSUME UserAssumption ==
  /\ Users \subseteq Byte
  /\ \A u \in Users : SrvTable[u] \in TablesFor(u)
ASSUME ClientAssumption ==
  \A c \in Clients : Uid[c] \in Byte /\ CliTable[c] \in TablesFor(Uid[c])
ASSUME PacketAssumption ==
  /\ \A c \in Clients : ClientPackets[c] \subseteq Packet
  /\ ServerPackets \subseteq Packet
ASSUME AddressAssumption ==
  /\ ServerAddr \notin Addr
  /\ NoAddr \notin Addr
  /\ NoAddr # ServerAddr
  /\ ServerAddr \notin Clients
ASSUME DuplicateAssumption == MayDuplicate \in BOOLEAN
ASSUME BoundAssumption == MaxNet \in Nat

(***************************************************************************)
(* What the scheme leaves to chance: a datagram that was not encrypted     *)
(* with the tables of the user its first byte names does not decrypt to    *)
(* that user's address; in the code four bytes have to agree.              *)
(***************************************************************************)
ASSUME UpSeparation ==
  \A c \in Clients : \A p \in ClientPackets[c] :
    Accepts(Encrypt(CliTable[c], p)) =>
      /\ Rightful(c)
      /\ Encrypt(CliTable[c], p).ver = Uid[c]

Datagram == [from : Addr \cup {ServerAddr}, to : Addr \cup {ServerAddr},
             data : Packet]

VARIABLES
  net,      \* the datagrams under way
  written   \* the last packet written to a tunnel device, and at which end;
            \* a set of at most one

Write(end, p) == written' = {[at |-> end, packet |-> p]}

At(a) == { d \in net : d.to = a }

(***************************************************************************)
(* sendto.  A datagram that is lost (no route, a full buffer, a link that  *)
(* drops it or damages it) never gets under way.                           *)
(***************************************************************************)
Send(from, to, data) ==
  LET d == [from |-> from, to |-> to, data |-> data]
  IN  \/ net' = net
      \/ /\ Cardinality({ e \in At(to) : e.from = from } \cup {d}) <= MaxNet
         /\ net' = net \cup {d}

(***************************************************************************)
(* A datagram arrives at a socket, or a copy of it does.                   *)
(***************************************************************************)
Arrive(d) == net' = net \ {d} \/ (MayDuplicate /\ net' = net)
=============================================================================
