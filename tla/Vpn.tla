--------------------------------- MODULE Vpn ---------------------------------
(***************************************************************************)
(* The server, its clients and the network between them.                   *)
(***************************************************************************)
EXTENDS Server, Client

vars == <<serverVars, clientVars, net, written>>

Init ==
  /\ net = {}
  /\ written = {}
  /\ ServerInit
  /\ ClientInit

ServerActs == ServerStep /\ UNCHANGED clientVars

ClientActs(c) == ClientStep(c) /\ UNCHANGED serverVars

Next ==
  \/ ServerActs
  \/ \E c \in Clients : ClientActs(c)

Spec == Init /\ [][Next]_vars

-----------------------------------------------------------------------------
TypeOK ==
  /\ ServerTypeOK
  /\ ClientTypeOK
  /\ net \subseteq Datagram
  /\ written \subseteq [at : Clients \cup {ServerAddr}, packet : Packet]

(***************************************************************************)
(* A device of user u that has been at address a.                          *)
(***************************************************************************)
DeviceAt(u, a) == \E c \in Clients : Rightful(c) /\ Uid[c] = u /\ a \in been[c]

(***************************************************************************)
(* The address the server holds for a user is one at which a device with   *)
(* the user's number and password has been, however datagrams were         *)
(* delayed, whatever clients with another password send, and however       *)
(* addresses are handed on: svpn_server.c learns the address of any        *)
(* datagram that passes its test.                                          *)
(***************************************************************************)
AddrOfOwner == \A u \in Users : addr[u] # NoAddr => DeviceAt(u, addr[u])

(***************************************************************************)
(* Everything the server has sent is encrypted for one user and goes to an *)
(* address a device of this user has had; everything a client has sent is  *)
(* one of its packets under its table.                                     *)
(***************************************************************************)
DownSealed(d) ==
  \E p \in ServerPackets :
    /\ p.dst \in Users
    /\ d.data = Encrypt(SrvTable[p.dst], p)
    /\ DeviceAt(p.dst, d.to)

UpSealed(d) ==
  \E c \in Clients : \E p \in ClientPackets[c] :
    d.from \in been[c] /\ d.data = Encrypt(CliTable[c], p)

InFlight == net \cup sdgram \cup UNION { cdgram[c] : c \in Clients }

NetSealed ==
  \A d \in InFlight :
    IF d.to = ServerAddr THEN UpSealed(d) ELSE DownSealed(d)

(***************************************************************************)
(* The tunnel implements TunnelService: a packet is in transit while some  *)
(* datagram under way holds it, encrypted with its user's tables.          *)
(***************************************************************************)
UpItems ==
  UNION { { [dir |-> "up", user |-> Uid[c], packet |-> p] :
              p \in { q \in ClientPackets[c] :
                        q.ver = Magic /\ q.net = LocalNet /\ q.src = Uid[c] } }
          : c \in { d \in Clients : Rightful(d) } }

DownItems ==
  { [dir |-> "down", user |-> p.dst, packet |-> p] :
      p \in { q \in ServerPackets : q.dst \in Users } }

GoodItems ==
  [dir : {"up", "down"}, user : Users,
   packet : { p \in Packet : p.ver \in Ver4 }]

(***************************************************************************)
(* What the client of user u makes of a packet for another user.  It       *)
(* writes it to its device if the result looks like an IPv4 packet: half a *)
(* byte decides (svpn_client.c:92).                                        *)
(***************************************************************************)
Misread ==
  [u \in Users |-> [x \in DownItems |->
     [dir |-> "down", user |-> u,
      packet |-> Decrypt(SrvTable[u], Encrypt(SrvTable[x.user], x.packet))]]]

Holds(d, x) ==
  /\ (x.dir = "up") <=> (d.to = ServerAddr)
  /\ d.data = Encrypt(SrvTable[x.user], x.packet)

Transit == { x \in UpItems \cup DownItems : \E d \in InFlight : Holds(d, x) }

(***************************************************************************)
(* What the ends that have the tables of a user have written.              *)
(***************************************************************************)
Delivered ==
  { IF w.at = ServerAddr
      THEN [dir |-> "up", user |-> w.packet.src, packet |-> w.packet]
      ELSE [dir |-> "down", user |-> Uid[w.at], packet |-> w.packet]
    : w \in { v \in written : v.at = ServerAddr \/ Rightful(v.at) } }

(***************************************************************************)
(* The users whose devices have been at the same address.                  *)
(***************************************************************************)
Shared ==
  { pair \in Users \X Users :
      /\ pair[1] # pair[2]
      /\ \E c \in Clients, other \in Clients :
           /\ Uid[c] = pair[1] /\ Uid[other] = pair[2]
           /\ been[c] \cap been[other] # {}
           /\ Rightful(c) /\ Rightful(other) }

Service == INSTANCE TunnelService
  WITH Items     <- UpItems \cup DownItems,
       Good      <- GoodItems,
       Garbled   <- Misread,
       transit   <- Transit,
       delivered <- Delivered,
       shared    <- Shared

CarriesPackets == Service!Spec

-----------------------------------------------------------------------------
(***************************************************************************)
(* Fairness.  The loops go on; each host keeps routing packets to its      *)
(* tunnel; of the datagrams that are sent again and again some get under   *)
(* way, and some of those arrive.  Nothing makes a client move, or a       *)
(* process end or start.                                                   *)
(***************************************************************************)
ServerRuns ==
  \/ \E d \in net : ServerSelectSock(d)
  \/ ServerSelectTun
  \/ \E d \in sdgram : ServerAccept(d) \/ ServerReject(d)
  \/ \E p \in ServerPackets : ServerTun(p)

ClientRuns(c) ==
  \/ \E d \in net : ClientSelectSock(c, d)
  \/ ClientSelectTun(c)
  \/ \E p \in ClientPackets[c] : ClientTun(c, p)
  \/ \E d \in cdgram[c] : ClientSock(c, d)

ClientReads(c) ==
  /\ ClientSelectTun(c) \/ \E d \in net : ClientSelectSock(c, d)
  /\ cread'[c]

(***************************************************************************)
(* A send that the network does not lose.                                  *)
(***************************************************************************)
ClientSends(c) ==
  \E p \in ClientPackets[c] :
    /\ Accepts(Encrypt(CliTable[c], p))
    /\ ClientTun(c, p)
    /\ [from |-> loc[c], to |-> ServerAddr,
        data |-> Encrypt(CliTable[c], p)] \in net'

ServerSends(u) ==
  \E p \in ServerPackets :
    /\ p.dst = u
    /\ ServerTun(p)
    /\ [from |-> ServerAddr, to |-> addr[u],
        data |-> Encrypt(SrvTable[u], p)] \in net'

(***************************************************************************)
(* Something that c has sent from where it is arrives, something that the  *)
(* server takes or that it rejects.                                        *)
(***************************************************************************)
UnderWay(c, taken) ==
  { d \in At(ServerAddr) :
      /\ d.from = loc[c]
      /\ \E p \in ClientPackets[c] :
           d.data = Encrypt(CliTable[c], p) /\ Accepts(d.data) = taken }

ServerHears(c, taken) == \E d \in UnderWay(c, taken) : ServerSelectSock(d)

ServerTurns == ServerRuns /\ UNCHANGED clientVars
KernelFills == ServerTunFills /\ UNCHANGED clientVars
Telling(u) == ServerSends(u) /\ UNCHANGED clientVars
Hearing(c, taken) == ServerHears(c, taken) /\ UNCHANGED clientVars

ClientTurns(c) == ClientRuns(c) /\ UNCHANGED serverVars
Reading(c) == ClientReads(c) /\ UNCHANGED serverVars
Sending(c) == ClientSends(c) /\ UNCHANGED serverVars
Receiving(c) == (\E d \in net : ClientSelectSock(c, d)) /\ UNCHANGED serverVars

ServerFairness ==
  /\ WF_vars(ServerTurns)
  /\ WF_vars(KernelFills)
  /\ \A u \in Users : SF_vars(Telling(u))

ClientFairness(c) ==
  /\ WF_vars(ClientTurns(c))
  /\ SF_vars(Reading(c))
  /\ SF_vars(Sending(c))
  /\ \A taken \in BOOLEAN : SF_vars(Hearing(c, taken))
  /\ SF_vars(Receiving(c))

FairSpec ==
  Spec /\ ServerFairness /\ \A c \in Clients : Rightful(c) => ClientFairness(c)

(***************************************************************************)
(* No step that fairness speaks of waits for another party.  A server that *)
(* runs goes on from wherever it is in its turn, unless it is in select    *)
(* and nothing is there; it can be given what is under way.  A client that *)
(* runs goes on, finds its tunnel readable and can be given what is for    *)
(* it.  Whoever is at a tunnel can send, unless as much is under way as    *)
(* there can be.                                                           *)
(***************************************************************************)
TunIsRead == sread /\ sdgram = {}

Full(c) == Cardinality({ d \in At(ServerAddr) : d.from = loc[c] }) >= MaxNet

CanServe ==
  /\ up /\ stun /\ ~TunIsRead => ENABLED <<ServerTurns>>_vars
  /\ up /\ ~stun => ENABLED <<KernelFills>>_vars

CanTalk(c) ==
  on[c] =>
    /\ ENABLED <<ClientTurns(c)>>_vars
    /\ Waits(c) => ENABLED <<Reading(c)>>_vars
    /\ cread[c] => Full(c) \/ ENABLED <<Sending(c)>>_vars

CanHear(c) ==
  up =>
    /\ ~InSelect => ENABLED <<ServerTurns>>_vars
    /\ InSelect /\ UnderWay(c, TRUE) # {} => ENABLED <<Hearing(c, TRUE)>>_vars
    /\ InSelect /\ UnderWay(c, TRUE) = {} /\ Full(c) =>
         ENABLED <<Hearing(c, FALSE)>>_vars

CanReach(c) ==
  /\ up /\ TunIsRead /\ addr[Uid[c]] = loc[c] =>
       At(loc[c]) # {} \/ ENABLED <<Telling(Uid[c])>>_vars
  /\ on[c] /\ Waits(c) /\ At(loc[c]) # {} => ENABLED <<Receiving(c)>>_vars

NeverStuck ==
  /\ CanServe
  /\ \A c \in Clients : Rightful(c) => CanTalk(c) /\ CanHear(c) /\ CanReach(c)

(***************************************************************************)
(* From some time on the server and client c run and c stays at a.         *)
(***************************************************************************)
Settled(c, a) == <>[](up /\ on[c] /\ loc[c] = a)

(***************************************************************************)
(* From some time on nobody sends the server what it rejects.              *)
(***************************************************************************)
Undisturbed ==
  <>[](\A d \in InFlight : d.to = ServerAddr => Accepts(d.data))

Alone(c) ==
  /\ Rightful(c)
  /\ \A other \in Clients : Rightful(other) /\ Uid[other] = Uid[c] => other = c

(***************************************************************************)
(* What would send the server back to an address that c has left: the      *)
(* datagrams under way that it will take for c's, and that come from       *)
(* elsewhere.                                                              *)
(***************************************************************************)
Stale(c) ==
  { d \in net \cup sdgram :
      /\ d.to = ServerAddr /\ d.from # loc[c]
      /\ d.data.ver = Uid[c] /\ Accepts(d.data) }

Sure(c) == addr[Uid[c]] = loc[c] /\ Stale(c) = {}

(***************************************************************************)
(* While the only device of a user stays where it is, nothing new comes to *)
(* mislead the server, whatever other clients send and whatever arrives    *)
(* twice; and a server that knows the address and has nothing stale ahead  *)
(* of it knows it until it is started again.  The code takes the address   *)
(* of every datagram that passes (svpn_server.c:207), so what is under way *)
(* decides.                                                                *)
(***************************************************************************)
StaysSure ==
  [][\A c \in Clients :
       Alone(c) /\ up /\ loc'[c] = loc[c] =>
         /\ Stale(c)' \subseteq Stale(c)
         /\ Sure(c) => Sure(c)']_vars

(***************************************************************************)
(* The server comes to know the address of a user whose device stays       *)
(* somewhere, and is not misled for ever by datagrams from where it was.   *)
(***************************************************************************)
Converges ==
  \A c \in Clients : \A a \in Addr :
    Alone(c) /\ Settled(c, a) => <>[](addr[Uid[c]] = a)

(***************************************************************************)
(* While the server runs, what its tunnel has for it is served in the end, *)
(* unless rejected datagrams never stop: the branch of the socket is       *)
(* before that of the tunnel and ends the turn on a datagram it rejects.   *)
(***************************************************************************)
TunServed ==
  <>[]up /\ Undisturbed => (stun ~> (sread /\ sdgram = {}))

(***************************************************************************)
(* And a user's device that stays somewhere hears from the server again    *)
(* and again.                                                              *)
(***************************************************************************)
Reaches ==
  \A c \in Clients : \A a \in Addr :
    Alone(c) /\ Settled(c, a) /\ Undisturbed => []<>(cdgram[c] # {})
=============================================================================
