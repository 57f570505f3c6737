------------------------------- MODULE Server -------------------------------
(***************************************************************************)
(* The server's loop (svpn_server_handle_thread, src/server/svpn_server.c).*)
(*                                                                         *)
(* A turn of the loop is a select on the socket and the tunnel device,     *)
(* then, for what select reported, the branch of the socket and after it   *)
(* the branch of the tunnel.  Each is an action.  select returns when the  *)
(* socket has a datagram, the one recvfrom will return, or the tunnel has  *)
(* a packet.  A `continue' ends the turn: what select had reported for the *)
(* tunnel is left to a later turn.                                         *)
(*                                                                         *)
(* The server is one process, which is started again, all its addresses    *)
(* forgotten, after a signal has ended it.                                 *)
(***************************************************************************)
EXTENDS Wire

VARIABLES
  up,       \* whether the process runs
  stun,     \* whether the tunnel device has a packet for the server
  sdgram,   \* the datagram select reported, a set of at most one
  sread,    \* whether select reported the tunnel
  addr      \* clients[u]->addr for every user

serverVars == <<up, stun, sdgram, sread, addr>>

InSelect == sdgram = {} /\ ~sread

NoAddress == [u \in Users |-> NoAddr]

ServerInit ==
  /\ up = TRUE
  /\ stun = FALSE
  /\ sdgram = {}
  /\ sread = FALSE
  /\ addr = NoAddress

(***************************************************************************)
(* The kernel routes a packet to the tunnel device.                        *)
(***************************************************************************)
ServerTunFills ==
  /\ up /\ ~stun
  /\ stun' = TRUE
  /\ UNCHANGED <<up, sdgram, sread, addr, net, written>>

(***************************************************************************)
(* select returns with the socket readable, and with the tunnel if it has  *)
(* a packet.                                                               *)
(***************************************************************************)
ServerSelectSock(d) ==
  /\ up /\ InSelect
  /\ d \in At(ServerAddr)
  /\ Arrive(d)
  /\ sdgram' = {d}
  /\ sread' = stun
  /\ UNCHANGED <<up, stun, addr, written>>

(***************************************************************************)
(* select returns with the tunnel alone.                                   *)
(***************************************************************************)
ServerSelectTun ==
  /\ up /\ InSelect
  /\ stun
  /\ sread' = TRUE
  /\ UNCHANGED <<up, stun, sdgram, addr, net, written>>

\* mutant of ServerAccept: the source address is not checked
AcceptUnchecked(d) ==
  /\ up /\ d \in sdgram
  /\ d.data.ver \in Users
  /\ addr' = [addr EXCEPT ![d.data.ver] = d.from]
  /\ Write(ServerAddr, Decrypt(SrvTable[d.data.ver], d.data))
  /\ sdgram' = {}
  /\ UNCHANGED <<up, stun, sread, net>>

\* mutant of ServerAccept: the first address of a user is kept
AcceptOnce(d) ==
  /\ up /\ d \in sdgram
  /\ Accepts(d.data)
  /\ addr' = [addr EXCEPT ![d.data.ver] = IF @ = NoAddr THEN d.from ELSE @]
  /\ Write(ServerAddr, Decrypt(SrvTable[d.data.ver], d.data))
  /\ sdgram' = {}
  /\ UNCHANGED <<up, stun, sread, net>>

\* mutant of ServerAccept: it ends the turn
AcceptContinues(d) ==
  /\ up /\ d \in sdgram
  /\ Accepts(d.data)
  /\ addr' = [addr EXCEPT ![d.data.ver] = d.from]
  /\ Write(ServerAddr, Decrypt(SrvTable[d.data.ver], d.data))
  /\ sdgram' = {}
  /\ sread' = FALSE
  /\ UNCHANGED <<up, stun, net>>

\* mutant of ServerAccept: the user is taken from the destination address
AcceptByDestination(d) ==
  /\ up /\ d \in sdgram
  /\ Accepts(d.data)
  /\ LET p == Decrypt(SrvTable[d.data.ver], d.data)
     IN  /\ addr' = [u \in Users |-> IF u = p.dst THEN d.from ELSE addr[u]]
         /\ Write(ServerAddr, p)
  /\ sdgram' = {}
  /\ UNCHANGED <<up, stun, sread, net>>

(***************************************************************************)
(* The branch of the socket, for a datagram the server accepts: the        *)
(* sender's address becomes the user's, and the packet goes to the tunnel. *)
(***************************************************************************)
ServerAccept(d) ==
  /\ up /\ d \in sdgram
  /\ Accepts(d.data)
  /\ addr' = [addr EXCEPT ![d.data.ver] = d.from]
  /\ Write(ServerAddr, Decrypt(SrvTable[d.data.ver], d.data))
  /\ sdgram' = {}
  /\ UNCHANGED <<up, stun, sread, net>>

\* mutant of ServerReject: the address is stored before the test
RejectLearns(d) ==
  /\ up /\ d \in sdgram
  /\ ~Accepts(d.data)
  /\ addr' = IF d.data.ver \in Users THEN [addr EXCEPT ![d.data.ver] = d.from]
             ELSE addr
  /\ sdgram' = {}
  /\ sread' = FALSE
  /\ UNCHANGED <<up, stun, net, written>>

\* mutant of ServerReject: the datagram is looked at and left in the buffer
RejectPeeks(d) ==
  /\ up /\ d \in sdgram
  /\ ~Accepts(d.data)
  /\ sdgram' = sdgram
  /\ sread' = FALSE
  /\ UNCHANGED <<up, stun, addr, net, written>>

(***************************************************************************)
(* The same branch for a datagram of no user, or one that does not decrypt *)
(* to its user's address.                                                  *)
(***************************************************************************)
ServerReject(d) ==
  /\ up /\ d \in sdgram
  /\ ~Accepts(d.data)
  /\ sdgram' = {}
  /\ sread' = FALSE
  /\ UNCHANGED <<up, stun, addr, net, written>>

\* mutant of ServerTun: the address is not looked at
TunToAnyone(p) ==
  /\ up /\ sdgram = {} /\ sread
  /\ stun' \in BOOLEAN
  /\ sread' = FALSE
  /\ IF p.dst \in Users
       THEN Send(ServerAddr, addr[p.dst], Encrypt(SrvTable[p.dst], p))
       ELSE net' = net
  /\ UNCHANGED <<up, sdgram, addr, written>>

\* mutant of ServerTun: the buffer before encryption is sent
TunInClear(p) ==
  /\ up /\ sdgram = {} /\ sread
  /\ stun' \in BOOLEAN
  /\ sread' = FALSE
  /\ IF p.dst \in Users /\ addr[p.dst] # NoAddr
       THEN Send(ServerAddr, addr[p.dst], p)
       ELSE net' = net
  /\ UNCHANGED <<up, sdgram, addr, written>>

\* mutant of ServerTun: the user is taken from the source address
TunBySource(p) ==
  /\ up /\ sdgram = {} /\ sread
  /\ stun' \in BOOLEAN
  /\ sread' = FALSE
  /\ IF p.src \in Users /\ addr[p.src] # NoAddr
       THEN Send(ServerAddr, addr[p.src], Encrypt(SrvTable[p.src], p))
       ELSE net' = net
  /\ UNCHANGED <<up, sdgram, addr, written>>

(***************************************************************************)
(* The branch of the tunnel: the last byte of the destination names the    *)
(* user.  An address that was never written leads nowhere.                 *)
(***************************************************************************)
ServerTun(p) ==
  /\ up /\ sdgram = {} /\ sread
  /\ stun' \in BOOLEAN
  /\ sread' = FALSE
  /\ IF p.dst \in Users /\ addr[p.dst] # NoAddr
       THEN Send(ServerAddr, addr[p.dst], Encrypt(SrvTable[p.dst], p))
       ELSE net' = net
  /\ UNCHANGED <<up, sdgram, addr, written>>

(***************************************************************************)
(* SIGUSR1, whose handler only prints: select fails with EINTR and the     *)
(* server returns; the tunnel device goes away with the process.  A signal *)
(* that comes during a turn has no effect.                                 *)
(***************************************************************************)
ServerSignal ==
  /\ up /\ InSelect
  /\ up' = FALSE
  /\ stun' = FALSE
  /\ UNCHANGED <<sdgram, sread, addr, net, written>>

(***************************************************************************)
(* A new process: the nodes of the users are allocated and not cleared.    *)
(***************************************************************************)
ServerStart ==
  /\ ~up
  /\ up' = TRUE
  /\ addr' = NoAddress
  /\ UNCHANGED <<stun, sdgram, sread, net, written>>

ServerStep ==
  \/ ServerTunFills
  \/ \E d \in net : ServerSelectSock(d)
  \/ ServerSelectTun
  \/ \E d \in sdgram : ServerAccept(d)
  \/ \E d \in sdgram : ServerReject(d)
  \/ \E p \in ServerPackets : ServerTun(p)
  \/ ServerSignal
  \/ ServerStart

ServerTypeOK ==
  /\ up \in BOOLEAN
  /\ stun \in BOOLEAN
  /\ sdgram \subseteq Datagram
  /\ sread \in BOOLEAN
  /\ addr \in [Users -> Addr \cup {NoAddr}]
=============================================================================
