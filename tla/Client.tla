------------------------------- MODULE Client -------------------------------
(***************************************************************************)
(* The clients' loop (svpn_handle_thread, src/client/svpn_client.c), one   *)
(* for each client process.                                                *)
(*                                                                         *)
(* A turn is a select, then the branch of the tunnel device, then the one  *)
(* of the socket.  The socket is bound to any local address and never      *)
(* connected: the client goes on with it when its host gets another        *)
(* address, and it takes datagrams from anyone.                            *)
(***************************************************************************)
EXTENDS Wire

VARIABLES
  on,       \* whether each client process runs
  cdgram,   \* the datagram its select reported, a set of at most one
  cread,    \* whether its select reported the tunnel
  loc,      \* the address the network knows it under
  been      \* history: every address it has had

clientVars == <<on, cdgram, cread, loc, been>>

Waits(c) == cdgram[c] = {} /\ ~cread[c]

(***************************************************************************)
(* Clients start at different addresses.                                   *)
(***************************************************************************)
ClientInit ==
  /\ on = [c \in Clients |-> TRUE]
  /\ cdgram = [c \in Clients |-> {}]
  /\ cread = [c \in Clients |-> FALSE]
  /\ loc \in Injection(Clients, Addr)
  /\ been = [c \in Clients |-> {loc[c]}]

(***************************************************************************)
(* select returns with the socket readable, the tunnel as it happens.      *)
(***************************************************************************)
ClientSelectSock(c, d) ==
  /\ on[c] /\ Waits(c)
  /\ d \in At(loc[c])
  /\ Arrive(d)
  /\ cdgram' = [cdgram EXCEPT ![c] = {d}]
  /\ \E b \in BOOLEAN : cread' = [cread EXCEPT ![c] = b]
  /\ UNCHANGED <<on, loc, been, written>>

(***************************************************************************)
(* select returns with the tunnel alone.                                   *)
(***************************************************************************)
ClientSelectTun(c) ==
  /\ on[c] /\ Waits(c)
  /\ cread' = [cread EXCEPT ![c] = TRUE]
  /\ UNCHANGED <<on, cdgram, loc, been, net, written>>

(***************************************************************************)
(* The branch of the tunnel: every packet goes to the server.              *)
(***************************************************************************)
ClientTun(c, p) ==
  /\ on[c] /\ cread[c]
  /\ cread' = [cread EXCEPT ![c] = FALSE]
  /\ Send(loc[c], ServerAddr, Encrypt(CliTable[c], p))
  /\ UNCHANGED <<on, cdgram, loc, been, written>>

(***************************************************************************)
(* The branch of the socket: what decrypts to an IPv4 packet is written to *)
(* the tunnel, the rest is dropped.                                        *)
(***************************************************************************)
ClientSock(c, d) ==
  /\ on[c] /\ ~cread[c] /\ d \in cdgram[c]
  /\ cdgram' = [cdgram EXCEPT ![c] = {}]
  /\ LET p == Decrypt(CliTable[c], d.data)
     IN  IF p.ver \in Ver4 THEN Write(c, p) ELSE written' = written
  /\ UNCHANGED <<on, cread, loc, been, net>>

(***************************************************************************)
(* SIGUSR1 ends the client in select and has no effect elsewhere.          *)
(***************************************************************************)
ClientSignal(c) ==
  /\ on[c] /\ Waits(c)
  /\ on' = [on EXCEPT ![c] = FALSE]
  /\ UNCHANGED <<cdgram, cread, loc, been, net, written>>

ClientStart(c) ==
  /\ ~on[c]
  /\ on' = [on EXCEPT ![c] = TRUE]
  /\ UNCHANGED <<cdgram, cread, loc, been, net, written>>

(***************************************************************************)
(* The host of a client gets an address nobody else has.                   *)
(***************************************************************************)
Move(c, a) ==
  /\ \A other \in Clients : loc[other] # a
  /\ loc' = [loc EXCEPT ![c] = a]
  /\ been' = [been EXCEPT ![c] = @ \cup {a}]
  /\ UNCHANGED <<on, cdgram, cread, net, written>>

ClientStep(c) ==
  \/ \E d \in net : ClientSelectSock(c, d)
  \/ ClientSelectTun(c)
  \/ \E p \in ClientPackets[c] : ClientTun(c, p)
  \/ \E d \in cdgram[c] : ClientSock(c, d)
  \/ ClientSignal(c)
  \/ ClientStart(c)
  \/ \E a \in Addr : Move(c, a)

ClientTypeOK ==
  /\ on \in [Clients -> BOOLEAN]
  /\ cdgram \in [Clients -> SUBSET Datagram]
  /\ cread \in [Clients -> BOOLEAN]
  /\ loc \in [Clients -> Addr]
  /\ been \in [Clients -> SUBSET Addr]
=============================================================================
