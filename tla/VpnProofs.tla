------------------------------ MODULE VpnProofs ------------------------------
(***************************************************************************)
(* The safety of the tunnel for any number of users, clients, addresses    *)
(* and packets and any tables, under the assumptions of Wire.              *)
(***************************************************************************)
EXTENDS Vpn, Integers, FiniteSetTheorems, TLAPS

(***************************************************************************)
(* The facts about tables that Tables!TablesFor stands for.                *)
(***************************************************************************)
LEMMA TableFacts ==
  ASSUME NEW id, NEW t \in TablesFor(id)
  PROVE  /\ t.encode \in [Byte -> Byte]
         /\ t.decode \in [Byte -> Byte]
         /\ \A b \in Byte : t.decode[t.encode[b]] = b
         /\ t.encode[Magic] = id
<1>1. t.encode \in Bijection(Byte, Byte) /\ t.decode \in [Byte -> Byte]
  BY DEF TablesFor
<1>2. t.encode \in [Byte -> Byte]
  BY <1>1 DEF Bijection, Injection
<1>3. QED
  BY <1>1, <1>2 DEF TablesFor

LEMMA Sealing ==
  ASSUME NEW id, NEW t \in TablesFor(id), NEW p \in Packet
  PROVE  /\ Encrypt(t, p) \in Packet
         /\ Decrypt(t, p) \in Packet
         /\ Decrypt(t, Encrypt(t, p)) = p
         /\ Encrypt(t, p).ver = t.encode[p.ver]
<1>1. /\ t.encode \in [Byte -> Byte]
      /\ t.decode \in [Byte -> Byte]
      /\ \A b \in Byte : t.decode[t.encode[b]] = b
  BY TableFacts
<1> DEFINE e == t.encode
           f == t.decode
<1> HIDE DEF e, f
<1>2. e \in [Byte -> Byte] /\ f \in [Byte -> Byte] /\ \A b \in Byte : f[e[b]] = b
  BY <1>1 DEF e, f
<1>3. Through(e, p) \in Packet /\ Through(f, p) \in Packet
  BY <1>2 DEF Through, Packet
<1>4. Through(f, Through(e, p)) = p
  BY <1>2 DEF Through, Packet
<1>5. Through(e, p).ver = e[p.ver]
  BY DEF Through
<1>6. QED
  BY <1>3, <1>4, <1>5 DEF Encrypt, Decrypt, e, f

(***************************************************************************)
(* A datagram the server accepts was made by a device of the user it       *)
(* names, from a packet with the user's source address.                    *)
(***************************************************************************)
LEMMA AcceptedIsOwn ==
  ASSUME NEW d, UpSealed(d), Accepts(d.data)
  PROVE  \E c \in Clients : \E p \in ClientPackets[c] :
           /\ Rightful(c)
           /\ Uid[c] = d.data.ver
           /\ d.from \in been[c]
           /\ d.data = Encrypt(SrvTable[Uid[c]], p)
           /\ Decrypt(SrvTable[Uid[c]], d.data) = p
           /\ p \in Packet
           /\ p.ver = Magic
           /\ p.net = LocalNet
           /\ p.src = Uid[c]
<1>0. PICK c \in Clients :
        \E p \in ClientPackets[c] :
          d.from \in been[c] /\ d.data = Encrypt(CliTable[c], p)
  BY DEF UpSealed
<1>1. PICK p \in ClientPackets[c] :
        d.from \in been[c] /\ d.data = Encrypt(CliTable[c], p)
  BY <1>0
<1>2. p \in Packet
  BY PacketAssumption
<1>3. Rightful(c) /\ d.data.ver = Uid[c]
  BY <1>1, UpSeparation
<1>4. /\ Uid[c] \in Users
      /\ CliTable[c] = SrvTable[Uid[c]]
      /\ SrvTable[Uid[c]] \in TablesFor(Uid[c])
  BY <1>3, UserAssumption DEF Rightful
<1>5. /\ Decrypt(SrvTable[Uid[c]], d.data) = p
      /\ d.data.ver = SrvTable[Uid[c]].encode[p.ver]
  BY <1>1, <1>2, <1>4, Sealing
<1>6. p.net = LocalNet /\ p.src = Uid[c]
  BY <1>3, <1>5 DEF Accepts
<1>7. p.ver = Magic
  <2>1. p.ver \in Byte /\ Magic \in Byte
    BY <1>2, MagicAssumption DEF Packet
  <2>2. SrvTable[Uid[c]].encode[p.ver] = SrvTable[Uid[c]].encode[Magic]
    BY <1>3, <1>4, <1>5, TableFacts
  <2>3. QED
    BY <1>4, <2>1, <2>2, TableFacts
<1>8. QED
  BY <1>1, <1>2, <1>3, <1>4, <1>5, <1>6, <1>7

-----------------------------------------------------------------------------
(***************************************************************************)
(* The inductive invariant.  NetSealed is what makes AddrOfOwner           *)
(* inductive: the server learns an address only from a datagram, so one    *)
(* must know what every datagram under way is.                             *)
(***************************************************************************)
Heads ==
  /\ \A d \in sdgram : d.to = ServerAddr
  /\ \A c \in Clients : \A d \in cdgram[c] : d.to # ServerAddr

BeenHere ==
  \A c \in Clients :
    /\ loc[c] \in been[c]
    /\ \A d \in cdgram[c] : d.to \in been[c]

IInv == TypeOK /\ Heads /\ BeenHere /\ NetSealed /\ AddrOfOwner

Sealed(d) == IF d.to = ServerAddr THEN UpSealed(d) ELSE DownSealed(d)

LEMMA InitIInv == Init => IInv
<1> SUFFICES ASSUME Init PROVE IInv
  OBVIOUS
<1> USE DEF Init, ServerInit, ClientInit
<1>1. loc \in [Clients -> Addr]
  BY DEF Injection
<1>2. TypeOK
  BY <1>1 DEF TypeOK, ServerTypeOK, ClientTypeOK, NoAddress
<1>3. Heads /\ BeenHere
  BY DEF Heads, BeenHere
<1>4. InFlight = {}
  BY DEF InFlight
<1>5. NetSealed /\ AddrOfOwner
  BY <1>4 DEF NetSealed, AddrOfOwner, NoAddress
<1>6. QED
  BY <1>2, <1>3, <1>5 DEF IInv

(***************************************************************************)
(* What is sealed stays so, since clients only add to where they have      *)
(* been.                                                                   *)
(***************************************************************************)
LEMMA StaysSealed ==
  ASSUME \A c \in Clients : been[c] \subseteq been[c]'
  PROVE  /\ \A d : Sealed(d) => Sealed(d)'
         /\ \A u, a : DeviceAt(u, a) => DeviceAt(u, a)'
BY DEF Sealed, UpSealed, DownSealed, DeviceAt

LEMMA FlowSealed ==
  ASSUME NetSealed,
         \A c \in Clients : been[c] \subseteq been[c]',
         \A d \in InFlight' : d \in InFlight \/ Sealed(d)'
  PROVE  NetSealed'
BY StaysSealed DEF NetSealed, Sealed

LEMMA AddrStays ==
  ASSUME AddrOfOwner, addr' = addr,
         \A c \in Clients : been[c] \subseteq been[c]'
  PROVE  AddrOfOwner'
BY StaysSealed DEF AddrOfOwner

LEMMA SendAdds ==
  ASSUME NEW from, NEW to, NEW data, Send(from, to, data)
  PROVE  LET d == [from |-> from, to |-> to, data |-> data]
         IN  net' = net \/ net' = net \cup {d}
BY DEF Send

(***************************************************************************)
(* The server's actions keep the invariant.                                *)
(***************************************************************************)
LEMMA ServerKeeps == IInv /\ ServerActs => IInv'
<1> SUFFICES ASSUME IInv, ServerStep, UNCHANGED clientVars PROVE IInv'
  BY DEF ServerActs
<1>0. /\ on' = on /\ cdgram' = cdgram /\ cread' = cread
      /\ loc' = loc /\ been' = been
  BY DEF clientVars
<1>a. \A c \in Clients : been[c] \subseteq been[c]'
  BY <1>0
<1>b. TypeOK /\ Heads /\ BeenHere /\ NetSealed /\ AddrOfOwner
  BY DEF IInv
<1>c. BeenHere' /\ ClientTypeOK'
  BY <1>0, <1>b DEF BeenHere, TypeOK, ClientTypeOK
<1>1. ASSUME ServerTunFills PROVE IInv'
  <2>1. TypeOK'
    BY <1>1, <1>b, <1>c DEF ServerTunFills, TypeOK, ServerTypeOK
  <2>2. NetSealed'
    BY <1>1, <1>0, <1>a, <1>b, FlowSealed DEF ServerTunFills, InFlight
  <2>3. AddrOfOwner' /\ Heads'
    BY <1>1, <1>0, <1>a, <1>b, AddrStays DEF ServerTunFills, Heads
  <2>4. QED
    BY <1>c, <2>1, <2>2, <2>3 DEF IInv
<1>2. ASSUME NEW d \in net, ServerSelectSock(d) PROVE IInv'
  <2>0. net' \subseteq net /\ d \in net /\ d.to = ServerAddr
    BY <1>2 DEF ServerSelectSock, Arrive, At
  <2>1. TypeOK'
    BY <1>2, <1>b, <1>c, <2>0 DEF ServerSelectSock, TypeOK, ServerTypeOK
  <2>2. NetSealed'
    <3>1. InFlight' \subseteq InFlight
      BY <1>2, <1>0, <2>0 DEF ServerSelectSock, InFlight
    <3>2. QED
      BY <3>1, <1>a, <1>b, FlowSealed
  <2>3. AddrOfOwner' /\ Heads'
    BY <1>2, <1>0, <1>a, <1>b, <2>0, AddrStays DEF ServerSelectSock, Heads
  <2>4. QED
    BY <1>c, <2>1, <2>2, <2>3 DEF IInv
<1>3. ASSUME ServerSelectTun PROVE IInv'
  <2>1. TypeOK'
    BY <1>3, <1>b, <1>c DEF ServerSelectTun, TypeOK, ServerTypeOK
  <2>2. NetSealed'
    BY <1>3, <1>0, <1>a, <1>b, FlowSealed DEF ServerSelectTun, InFlight
  <2>3. AddrOfOwner' /\ Heads'
    BY <1>3, <1>0, <1>a, <1>b, AddrStays DEF ServerSelectTun, Heads
  <2>4. QED
    BY <1>c, <2>1, <2>2, <2>3 DEF IInv
<1>4. ASSUME NEW d \in sdgram, ServerAccept(d) PROVE IInv'
  <2>0. /\ d \in InFlight /\ d.to = ServerAddr /\ Accepts(d.data)
        /\ addr' = [addr EXCEPT ![d.data.ver] = d.from]
        /\ net' = net /\ sdgram' = {} /\ up' = up /\ stun' = stun /\ sread' = sread
        /\ written' = {[at |-> ServerAddr,
                         packet |-> Decrypt(SrvTable[d.data.ver], d.data)]}
    BY <1>4, <1>b DEF ServerAccept, InFlight, Heads, Write
  <2>1. PICK c \in Clients :
          \E p \in ClientPackets[c] :
            /\ Rightful(c) /\ Uid[c] = d.data.ver /\ d.from \in been[c]
            /\ Decrypt(SrvTable[Uid[c]], d.data) = p /\ p \in Packet
    BY <2>0, <1>b, AcceptedIsOwn DEF NetSealed
  <2>2. /\ d.from \in Addr /\ d.data.ver \in Users
        /\ DeviceAt(d.data.ver, d.from)
        /\ Decrypt(SrvTable[d.data.ver], d.data) \in Packet
    BY <2>1, <1>b DEF Rightful, DeviceAt, TypeOK, ClientTypeOK
  <2>3. addr \in [Users -> Addr \cup {NoAddr}]
    BY <1>b DEF TypeOK, ServerTypeOK
  <2>4. TypeOK'
    BY <2>0, <2>2, <2>3, <1>b, <1>c DEF TypeOK, ServerTypeOK
  <2>5. NetSealed'
    <3>1. InFlight' \subseteq InFlight
      BY <2>0, <1>0 DEF InFlight
    <3>2. QED
      BY <3>1, <1>a, <1>b, FlowSealed
  <2>6. AddrOfOwner'
    <3>1. ASSUME NEW u \in Users, addr'[u] # NoAddr
          PROVE  DeviceAt(u, addr'[u])
      <4>1. CASE u = d.data.ver
        BY <4>1, <2>0, <2>2, <2>3
      <4>2. CASE u # d.data.ver
        <5>1. addr'[u] = addr[u]
          BY <4>2, <2>0, <2>3
        <5>2. QED
          BY <5>1, <3>1, <1>b DEF AddrOfOwner
      <4>3. QED
        BY <4>1, <4>2
    <3>2. \A u, a : DeviceAt(u, a) => DeviceAt(u, a)'
      BY <1>a, StaysSealed
    <3>3. QED
      BY <3>1, <3>2 DEF AddrOfOwner
  <2>7. Heads'
    BY <2>0, <1>0, <1>b DEF Heads
  <2>8. QED
    BY <1>c, <2>4, <2>5, <2>6, <2>7 DEF IInv
<1>5. ASSUME NEW d \in sdgram, ServerReject(d) PROVE IInv'
  <2>1. TypeOK'
    BY <1>5, <1>b, <1>c DEF ServerReject, TypeOK, ServerTypeOK
  <2>2. NetSealed'
    <3>1. InFlight' \subseteq InFlight
      BY <1>5, <1>0 DEF ServerReject, InFlight
    <3>2. QED
      BY <3>1, <1>a, <1>b, FlowSealed
  <2>3. AddrOfOwner' /\ Heads'
    BY <1>5, <1>0, <1>a, <1>b, AddrStays DEF ServerReject, Heads
  <2>4. QED
    BY <1>c, <2>1, <2>2, <2>3 DEF IInv
<1>6. ASSUME NEW p \in ServerPackets, ServerTun(p) PROVE IInv'
  <2> DEFINE data == Encrypt(SrvTable[p.dst], p)
             d == [from |-> ServerAddr, to |-> addr[p.dst], data |-> data]
  <2>1. \/ net' = net
        \/ /\ net' = net \cup {d}
           /\ p.dst \in Users
           /\ addr[p.dst] # NoAddr
    BY <1>6, SendAdds DEF ServerTun
  <2>2. ASSUME p.dst \in Users, addr[p.dst] # NoAddr
        PROVE  /\ d \in Datagram
               /\ d.to # ServerAddr
               /\ DownSealed(d)
    <3>1. addr[p.dst] \in Addr /\ addr[p.dst] # ServerAddr
      BY <2>2, <1>b, AddressAssumption DEF TypeOK, ServerTypeOK
    <3>2. p \in Packet /\ SrvTable[p.dst] \in TablesFor(p.dst)
      BY <2>2, PacketAssumption, UserAssumption
    <3>3. data \in Packet
      BY <3>2, Sealing
    <3>4. DeviceAt(p.dst, addr[p.dst])
      BY <2>2, <1>b DEF AddrOfOwner
    <3> HIDE DEF data
    <3>5. d.to = addr[p.dst] /\ d.data = data
      OBVIOUS
    <3>6. DownSealed(d)
      BY <2>2, <3>4, <3>5 DEF DownSealed, data
    <3>7. d \in Datagram
      BY <3>1, <3>3 DEF Datagram
    <3>8. QED
      BY <3>1, <3>5, <3>6, <3>7
  <2> HIDE DEF d
  <2>3. net' \subseteq Datagram
    BY <2>1, <2>2, <1>b DEF TypeOK
  <2>4. TypeOK'
    BY <1>6, <1>b, <1>c, <2>3 DEF ServerTun, TypeOK, ServerTypeOK
  <2>5. NetSealed'
    <3>1. \A x \in InFlight' : x \in InFlight \/ Sealed(x)
      BY <1>6, <1>0, <2>1, <2>2 DEF ServerTun, InFlight, Sealed
    <3>2. \A x \in InFlight' : x \in InFlight \/ Sealed(x)'
      BY <3>1, <1>a, StaysSealed
    <3>3. QED
      BY <3>2, <1>a, <1>b, FlowSealed
  <2>6. AddrOfOwner' /\ Heads'
    BY <1>6, <1>0, <1>a, <1>b, AddrStays DEF ServerTun, Heads
  <2>7. QED
    BY <1>c, <2>4, <2>5, <2>6 DEF IInv
<1>7. ASSUME ServerSignal PROVE IInv'
  <2>1. TypeOK'
    BY <1>7, <1>b, <1>c DEF ServerSignal, TypeOK, ServerTypeOK
  <2>2. NetSealed'
    BY <1>7, <1>0, <1>a, <1>b, FlowSealed DEF ServerSignal, InFlight
  <2>3. AddrOfOwner' /\ Heads'
    BY <1>7, <1>0, <1>a, <1>b, AddrStays DEF ServerSignal, Heads
  <2>4. QED
    BY <1>c, <2>1, <2>2, <2>3 DEF IInv
<1>8. ASSUME ServerStart PROVE IInv'
  <2>1. TypeOK'
    BY <1>8, <1>b, <1>c DEF ServerStart, TypeOK, ServerTypeOK, NoAddress
  <2>2. NetSealed'
    BY <1>8, <1>0, <1>a, <1>b, FlowSealed DEF ServerStart, InFlight
  <2>3. AddrOfOwner' /\ Heads'
    BY <1>8, <1>0, <1>b DEF ServerStart, NoAddress, AddrOfOwner, Heads
  <2>4. QED
    BY <1>c, <2>1, <2>2, <2>3 DEF IInv
<1>9. QED
  BY <1>1, <1>2, <1>3, <1>4, <1>5, <1>6, <1>7, <1>8 DEF ServerStep

(***************************************************************************)
(* So do those of the clients.                                             *)
(***************************************************************************)
LEMMA ClientKeeps ==
  ASSUME NEW c \in Clients
  PROVE  IInv /\ ClientActs(c) => IInv'
<1> SUFFICES ASSUME IInv, ClientStep(c), UNCHANGED serverVars PROVE IInv'
  BY DEF ClientActs
<1>0. /\ up' = up /\ stun' = stun /\ sdgram' = sdgram
      /\ sread' = sread /\ addr' = addr
  BY DEF serverVars
<1>b. TypeOK /\ Heads /\ BeenHere /\ NetSealed /\ AddrOfOwner
  BY DEF IInv
<1>c. ServerTypeOK'
  BY <1>0, <1>b DEF TypeOK, ServerTypeOK
<1>1. ASSUME NEW d \in net, ClientSelectSock(c, d) PROVE IInv'
  <2>0. /\ net' \subseteq net /\ d.to = loc[c] /\ d.to # ServerAddr
        /\ cdgram' = [cdgram EXCEPT ![c] = {d}]
        /\ on' = on /\ loc' = loc /\ been' = been /\ written' = written
        /\ cread' \in [Clients -> BOOLEAN]
    BY <1>1, <1>b, AddressAssumption
       DEF ClientSelectSock, Arrive, At, TypeOK, ClientTypeOK
  <2>1. cdgram' \in [Clients -> SUBSET Datagram]
    BY <2>0, <1>b DEF TypeOK, ClientTypeOK
  <2>2. TypeOK'
    BY <1>b, <1>c, <2>0, <2>1 DEF TypeOK, ClientTypeOK
  <2>3. \A x \in Clients : cdgram'[x] = IF x = c THEN {d} ELSE cdgram[x]
    BY <2>0, <1>b DEF TypeOK, ClientTypeOK
  <2>4. InFlight' \subseteq InFlight
    BY <1>0, <2>0, <2>3 DEF InFlight
  <2>5. NetSealed' /\ AddrOfOwner'
    BY <1>0, <1>b, <2>0, <2>4, FlowSealed, AddrStays
  <2>6. Heads' /\ BeenHere'
    BY <1>0, <1>b, <2>0, <2>3 DEF Heads, BeenHere
  <2>7. QED
    BY <2>2, <2>5, <2>6 DEF IInv
<1>2. ASSUME ClientSelectTun(c) PROVE IInv'
  <2>1. TypeOK'
    BY <1>2, <1>b, <1>c DEF ClientSelectTun, TypeOK, ClientTypeOK
  <2>2. NetSealed' /\ AddrOfOwner'
    BY <1>2, <1>0, <1>b, FlowSealed, AddrStays DEF ClientSelectTun, InFlight
  <2>3. Heads' /\ BeenHere'
    BY <1>2, <1>0, <1>b DEF ClientSelectTun, Heads, BeenHere
  <2>4. QED
    BY <2>1, <2>2, <2>3 DEF IInv
<1>3. ASSUME NEW p \in ClientPackets[c], ClientTun(c, p) PROVE IInv'
  <2> DEFINE data == Encrypt(CliTable[c], p)
             d == [from |-> loc[c], to |-> ServerAddr, data |-> data]
  <2>0. /\ on' = on /\ cdgram' = cdgram /\ loc' = loc /\ been' = been
        /\ written' = written /\ cread' = [cread EXCEPT ![c] = FALSE]
    BY <1>3 DEF ClientTun
  <2>1. net' = net \/ net' = net \cup {d}
    BY <1>3, SendAdds DEF ClientTun
  <2>2. data \in Packet
    BY PacketAssumption, ClientAssumption, Sealing
  <2>3. d.to = ServerAddr /\ d.from = loc[c] /\ d.data = Encrypt(CliTable[c], p)
    OBVIOUS
  <2>4. d \in Datagram
    <3> HIDE DEF data
    <3>1. loc[c] \in Addr
      BY <1>b DEF TypeOK, ClientTypeOK
    <3>2. QED
      BY <2>2, <3>1 DEF Datagram
  <2> HIDE DEF d
  <2>5. UpSealed(d)
    BY <2>3, <1>b DEF UpSealed, BeenHere
  <2>6. TypeOK'
    BY <1>b, <1>c, <2>0, <2>1, <2>4 DEF TypeOK, ClientTypeOK
  <2>7. \A x \in InFlight' : x \in InFlight \/ Sealed(x)
    BY <1>0, <2>0, <2>1, <2>3, <2>5 DEF InFlight, Sealed
  <2>8. \A x \in InFlight' : x \in InFlight \/ Sealed(x)'
    BY <2>0, <2>7, StaysSealed
  <2>9. NetSealed' /\ AddrOfOwner'
    BY <1>0, <1>b, <2>0, <2>8, FlowSealed, AddrStays
  <2>10. Heads' /\ BeenHere'
    BY <1>0, <1>b, <2>0 DEF Heads, BeenHere
  <2>11. QED
    BY <2>6, <2>9, <2>10 DEF IInv
<1>4. ASSUME NEW d \in cdgram[c], ClientSock(c, d) PROVE IInv'
  <2>0. /\ on' = on /\ cread' = cread /\ loc' = loc /\ been' = been /\ net' = net
        /\ cdgram' = [cdgram EXCEPT ![c] = {}]
        /\ \/ written' = written
           \/ written' = {[at |-> c, packet |-> Decrypt(CliTable[c], d.data)]}
    BY <1>4 DEF ClientSock, Write
  <2>1. d.data \in Packet
    BY <1>b DEF TypeOK, ClientTypeOK, Datagram
  <2>2. Decrypt(CliTable[c], d.data) \in Packet
    BY <2>1, ClientAssumption, Sealing
  <2>3. written' \subseteq [at : Clients \cup {ServerAddr}, packet : Packet]
    BY <2>0, <2>2, <1>b DEF TypeOK
  <2>4. \A x \in Clients : cdgram'[x] = IF x = c THEN {} ELSE cdgram[x]
    BY <2>0, <1>b DEF TypeOK, ClientTypeOK
  <2>5. TypeOK'
    BY <1>b, <1>c, <2>0, <2>3 DEF TypeOK, ClientTypeOK
  <2>6. InFlight' \subseteq InFlight
    BY <1>0, <2>0, <2>4 DEF InFlight
  <2>7. NetSealed' /\ AddrOfOwner'
    BY <1>0, <1>b, <2>0, <2>6, FlowSealed, AddrStays
  <2>8. Heads' /\ BeenHere'
    BY <1>0, <1>b, <2>0, <2>4 DEF Heads, BeenHere
  <2>9. QED
    BY <2>5, <2>7, <2>8 DEF IInv
<1>5. ASSUME ClientSignal(c) \/ ClientStart(c) PROVE IInv'
  <2>0. /\ cdgram' = cdgram /\ cread' = cread /\ loc' = loc /\ been' = been
        /\ net' = net /\ written' = written
        /\ on' = [on EXCEPT ![c] = FALSE] \/ on' = [on EXCEPT ![c] = TRUE]
    BY <1>5 DEF ClientSignal, ClientStart
  <2>1. TypeOK'
    BY <2>0, <1>b, <1>c DEF TypeOK, ClientTypeOK
  <2>2. NetSealed' /\ AddrOfOwner'
    BY <2>0, <1>0, <1>b, FlowSealed, AddrStays DEF InFlight
  <2>3. Heads' /\ BeenHere'
    BY <2>0, <1>0, <1>b DEF Heads, BeenHere
  <2>4. QED
    BY <2>1, <2>2, <2>3 DEF IInv
<1>6. ASSUME NEW a \in Addr, Move(c, a) PROVE IInv'
  <2>0. /\ on' = on /\ cdgram' = cdgram /\ cread' = cread /\ net' = net
        /\ written' = written
        /\ loc' = [loc EXCEPT ![c] = a]
        /\ been' = [been EXCEPT ![c] = been[c] \cup {a}]
    BY <1>6 DEF Move
  <2>1. TypeOK'
    BY <2>0, <1>b, <1>c DEF TypeOK, ClientTypeOK
  <2>2. \A x \in Clients : been[x] \subseteq been'[x]
    BY <2>0, <1>b DEF TypeOK, ClientTypeOK
  <2>3. NetSealed' /\ AddrOfOwner'
    BY <2>0, <2>2, <1>0, <1>b, FlowSealed, AddrStays DEF InFlight
  <2>4. Heads' /\ BeenHere'
    BY <2>0, <1>0, <1>b DEF Heads, BeenHere, TypeOK, ClientTypeOK
  <2>5. QED
    BY <2>1, <2>3, <2>4 DEF IInv
<1>7. QED
  BY <1>1, <1>2, <1>3, <1>4, <1>5, <1>6 DEF ClientStep

LEMMA StepIInv == IInv /\ [Next]_vars => IInv'
<1> SUFFICES ASSUME IInv, [Next]_vars PROVE IInv'
  OBVIOUS
<1>1. CASE UNCHANGED vars
  <2>1. /\ UNCHANGED <<up, stun, sdgram, sread, addr>>
        /\ UNCHANGED <<on, cdgram, cread, loc, been>>
        /\ UNCHANGED <<net, written>>
    BY <1>1 DEF vars, serverVars, clientVars
  <2>2. TypeOK' /\ Heads' /\ BeenHere'
    BY <2>1 DEF IInv, TypeOK, ServerTypeOK, ClientTypeOK, Heads, BeenHere
  <2>3. NetSealed' /\ AddrOfOwner'
    BY <2>1, FlowSealed, AddrStays DEF IInv, InFlight
  <2>4. QED
    BY <2>2, <2>3 DEF IInv
<1>2. QED
  BY <1>1, ServerKeeps, ClientKeeps DEF Next

LEMMA Invariance == Spec => []IInv
BY InitIInv, StepIInv, PTL DEF Spec

(***************************************************************************)
(* Every state is of the expected type; in particular the server never     *)
(* sends to its own address or to one that was never written.              *)
(***************************************************************************)
THEOREM TypeCorrect == Spec => []TypeOK
<1>1. IInv => TypeOK
  BY DEF IInv
<1>2. QED
  BY <1>1, Invariance, PTL

(***************************************************************************)
(* The server only holds addresses of devices of the user.                 *)
(***************************************************************************)
THEOREM AddressesOfOwners == Spec => []AddrOfOwner
<1>1. IInv => AddrOfOwner
  BY DEF IInv
<1>2. QED
  BY <1>1, Invariance, PTL

(***************************************************************************)
(* The server only sends a user's packets, encrypted with the user's       *)
(* table, to where a device of the user has been.                          *)
(***************************************************************************)
THEOREM AlwaysSealed == Spec => []NetSealed
<1>1. IInv => NetSealed
  BY DEF IInv
<1>2. QED
  BY <1>1, Invariance, PTL

-----------------------------------------------------------------------------
(***************************************************************************)
(* The tunnel implements TunnelService.  What arrives at an end was in     *)
(* transit: the datagram it came out of holds it.                          *)
(***************************************************************************)
Items == UpItems \cup DownItems

LEMMA UpItem ==
  ASSUME NEW c \in Clients, Rightful(c), NEW p \in ClientPackets[c],
         p.ver = Magic, p.net = LocalNet, p.src = Uid[c]
  PROVE  [dir |-> "up", user |-> Uid[c], packet |-> p] \in Items
BY DEF Items, UpItems

LEMMA DownItem ==
  ASSUME NEW p \in ServerPackets, p.dst \in Users
  PROVE  /\ [dir |-> "down", user |-> p.dst, packet |-> p] \in Items
         /\ [dir |-> "down", user |-> p.dst, packet |-> p] \in DownItems
BY DEF Items, DownItems

LEMMA GoodItem ==
  ASSUME NEW x, NEW dir \in {"up", "down"}, NEW u \in Users, NEW p \in Packet,
         x = [dir |-> dir, user |-> u, packet |-> p], p.ver \in Ver4
  PROVE  x \in GoodItems
BY DEF GoodItems

LEMMA TransitShrinks ==
  ASSUME InFlight' \subseteq InFlight
  PROVE  Transit' \in SUBSET Transit
BY DEF Transit, Holds

LEMMA TransitGrows ==
  ASSUME NEW d, InFlight' = InFlight \/ InFlight' = InFlight \cup {d}
  PROVE  \E taken \in SUBSET Items : Transit' = Transit \cup taken
<1>1. CASE InFlight' = InFlight
  <2>1. Transit' = Transit \cup {}
    BY <1>1 DEF Transit
  <2>2. QED
    BY <2>1
<1>2. CASE InFlight' = InFlight \cup {d}
  <2> DEFINE taken == { x \in Items : Holds(d, x) }
  <2>1. taken \in SUBSET Items
    OBVIOUS
  <2>2. Transit' = { x \in Items : \E e \in InFlight \cup {d} : Holds(e, x) }
    BY <1>2 DEF Transit, Items
  <2>3. Transit = { x \in Items : \E e \in InFlight : Holds(e, x) }
    BY DEF Transit, Items
  <2>4. Transit' = Transit \cup taken
    BY <2>2, <2>3
  <2>5. QED
    BY <2>1, <2>4
<1>3. QED
  BY <1>1, <1>2

LEMMA AcceptDelivers ==
  ASSUME IInv, NEW d \in sdgram, ServerAccept(d)
  PROVE  \E x \in Transit \cap GoodItems : Delivered' = {x}
<1>1. d \in InFlight /\ d.to = ServerAddr /\ UpSealed(d) /\ Accepts(d.data)
  BY DEF IInv, InFlight, NetSealed, Heads, ServerAccept
<1>2. PICK c \in Clients :
        \E p \in ClientPackets[c] :
           /\ Rightful(c)
           /\ Uid[c] = d.data.ver
           /\ d.data = Encrypt(SrvTable[Uid[c]], p)
           /\ Decrypt(SrvTable[Uid[c]], d.data) = p
           /\ p \in Packet
           /\ p.ver = Magic
           /\ p.net = LocalNet
           /\ p.src = Uid[c]
  BY <1>1, AcceptedIsOwn
<1>3. PICK p \in ClientPackets[c] :
           /\ Rightful(c)
           /\ Uid[c] = d.data.ver
           /\ d.data = Encrypt(SrvTable[Uid[c]], p)
           /\ Decrypt(SrvTable[Uid[c]], d.data) = p
           /\ p \in Packet
           /\ p.ver = Magic
           /\ p.net = LocalNet
           /\ p.src = Uid[c]
  BY <1>2
<1> DEFINE x == [dir |-> "up", user |-> Uid[c], packet |-> p]
<1>4. x \in Items
  BY <1>3, UpItem
<1>5. Holds(d, x)
  BY <1>1, <1>3 DEF Holds
<1>6. x \in Transit \cap GoodItems
  <2>1. Uid[c] \in Users /\ p.ver \in Ver4
    BY <1>3, MagicAssumption DEF Rightful
  <2>2. x \in GoodItems
    BY <1>3, <2>1, GoodItem
  <2>3. QED
    BY <1>1, <1>4, <1>5, <2>2 DEF Transit, Items
<1>7. written' = {[at |-> ServerAddr, packet |-> p]}
  BY <1>3 DEF ServerAccept, Write
<1>8. Delivered' = {x}
  <2> DEFINE v == [at |-> ServerAddr, packet |-> p]
  <2>1. { y \in {v} : y.at = ServerAddr \/ Rightful(y.at) } = {v}
    OBVIOUS
  <2>2. Delivered' =
          { IF y.at = ServerAddr
              THEN [dir |-> "up", user |-> y.packet.src, packet |-> y.packet]
              ELSE [dir |-> "down", user |-> Uid[y.at], packet |-> y.packet]
            : y \in {v} }
    BY <1>7, <2>1 DEF Delivered
  <2>3. v.at = ServerAddr /\ v.packet = p
    OBVIOUS
  <2> HIDE DEF v
  <2>4. QED
    BY <1>3, <2>2, <2>3
<1>9. QED
  BY <1>6, <1>8

(***************************************************************************)
(* What a client writes is a packet for its user, or what its tables make  *)
(* of a datagram for another user, which has come to an address where a    *)
(* device of this user has been, too.                                      *)
(***************************************************************************)
LEMMA Misdelivery ==
  ASSUME IInv, NEW c \in Clients, Rightful(c), NEW p \in ServerPackets,
         NEW d \in cdgram[c],
         p.dst \in Users, p.dst # Uid[c], DeviceAt(p.dst, d.to)
  PROVE  <<Uid[c], p.dst>> \in Shared
<1>1. d.to \in been[c] /\ Uid[c] \in Users
  BY DEF IInv, BeenHere, Rightful
<1>2. PICK other \in Clients :
        Rightful(other) /\ Uid[other] = p.dst /\ d.to \in been[other]
  BY DEF DeviceAt
<1>3. been[c] \cap been[other] # {}
  BY <1>1, <1>2
<1>4. QED
  BY <1>1, <1>2, <1>3 DEF Shared

LEMMA SockDelivers ==
  ASSUME IInv, NEW c \in Clients, NEW d \in cdgram[c], ClientSock(c, d)
  PROVE  \/ \E x \in Transit \cap GoodItems : Delivered' = {x}
         \/ \E x \in Transit : \E pair \in Shared :
              /\ x.dir = "down" /\ pair[2] = x.user
              /\ Misread[pair[1]][x] \in GoodItems
              /\ Delivered' = {Misread[pair[1]][x]}
         \/ Delivered' \subseteq Delivered
<1> DEFINE q == Decrypt(CliTable[c], d.data)
           v == [at |-> c, packet |-> q]
<1>1. d \in InFlight /\ d.to # ServerAddr /\ DownSealed(d)
  BY DEF IInv, InFlight, NetSealed, Heads
<1>2. CASE written' = written
  BY <1>2 DEF Delivered
<1>3. CASE written' # written
  <2>1. q.ver \in Ver4 /\ written' = {v}
    BY <1>3 DEF ClientSock, Write
  <2>2. v.at = c /\ v.packet = q /\ c # ServerAddr
    BY AddressAssumption
  <2> HIDE DEF v
  <2>3. CASE ~Rightful(c)
    <3>1. { y \in {v} : y.at = ServerAddr \/ Rightful(y.at) } = {}
      BY <2>2, <2>3
    <3>2. Delivered' = {}
      BY <2>1, <3>1 DEF Delivered
    <3>3. QED
      BY <3>2
  <2>4. CASE Rightful(c)
    <3>1. PICK p \in ServerPackets :
            /\ p.dst \in Users
            /\ d.data = Encrypt(SrvTable[p.dst], p)
            /\ DeviceAt(p.dst, d.to)
      BY <1>1 DEF DownSealed
    <3>2. /\ CliTable[c] = SrvTable[Uid[c]] /\ Uid[c] \in Users
          /\ SrvTable[Uid[c]] \in TablesFor(Uid[c])
          /\ p \in Packet
          /\ SrvTable[p.dst] \in TablesFor(p.dst)
      BY <2>4, <3>1, PacketAssumption, UserAssumption DEF Rightful
    <3>3. q \in Packet
      BY <3>1, <3>2, Sealing
    <3> DEFINE x == [dir |-> "down", user |-> p.dst, packet |-> p]
               y == [dir |-> "down", user |-> Uid[c], packet |-> q]
    <3>4. y \in GoodItems
      BY <2>1, <3>2, <3>3, GoodItem
    <3>5. x \in Items /\ x \in DownItems
      BY <3>1, DownItem
    <3>6. Holds(d, x)
      BY <1>1, <3>1 DEF Holds
    <3>7. x \in Transit
      BY <1>1, <3>5, <3>6 DEF Transit, Items
    <3>8. Delivered' = {y}
      <4>1. { z \in {v} : z.at = ServerAddr \/ Rightful(z.at) } = {v}
        BY <2>2, <2>4
      <4>2. Delivered' =
              { IF z.at = ServerAddr
                  THEN [dir |-> "up", user |-> z.packet.src, packet |-> z.packet]
                  ELSE [dir |-> "down", user |-> Uid[z.at], packet |-> z.packet]
                : z \in {v} }
        BY <2>1, <4>1 DEF Delivered
      <4>3. QED
        BY <2>2, <4>2
    <3>9. CASE Uid[c] = p.dst
      <4>1. q = p
        BY <3>1, <3>2, <3>9, Sealing
      <4>2. y = x
        BY <4>1, <3>9
      <4>3. QED
        BY <3>4, <3>7, <3>8, <4>2
    <3>10. CASE Uid[c] # p.dst
      <4> DEFINE pair == <<Uid[c], p.dst>>
      <4>1. pair \in Shared
        BY <2>4, <3>1, <3>10, Misdelivery
      <4>2. Misread[pair[1]][x] = y
        BY <3>1, <3>2, <3>5 DEF Misread
      <4>3. x.dir = "down" /\ pair[2] = x.user
        OBVIOUS
      <4> HIDE DEF x, y, pair
      <4>4. QED
        BY <3>4, <3>7, <3>8, <4>1, <4>2, <4>3
    <3>11. QED
      BY <3>9, <3>10
  <2>5. QED
    BY <2>3, <2>4
<1>4. QED
  BY <1>2, <1>3

LEMMA SharedStays ==
  ASSUME been' = been
  PROVE  Shared' = Shared
BY DEF Shared

LEMMA SharedGrows ==
  ASSUME \A c \in Clients : been[c] \subseteq been[c]'
  PROVE  Shared \subseteq Shared'
<1>1. \A c, other \in Clients :
        been[c] \cap been[other] # {} => been'[c] \cap been'[other] # {}
  OBVIOUS
<1>2. QED
  BY <1>1 DEF Shared, Rightful

LEMMA StepImplements == IInv /\ [Next]_vars => [Service!Next]_(Service!vars)
<1> SUFFICES ASSUME IInv, [Next]_vars PROVE [Service!Next]_(Service!vars)
  OBVIOUS
<1>a. ASSUME InFlight' \subseteq InFlight, Delivered' \subseteq Delivered,
             been' = been
      PROVE  Service!Next
  BY <1>a, TransitShrinks, SharedStays DEF Service!Next, Service!Lose
<1>b. ASSUME InFlight' \subseteq InFlight, been' = been,
             \E x \in Transit \cap GoodItems : Delivered' = {x}
      PROVE  Service!Next
  BY <1>b, TransitShrinks, SharedStays DEF Service!Next, Service!Deliver
<1>e. ASSUME InFlight' \subseteq InFlight, been' = been,
             \E x \in Transit : \E pair \in Shared :
               /\ x.dir = "down" /\ pair[2] = x.user
               /\ Misread[pair[1]][x] \in GoodItems
               /\ Delivered' = {Misread[pair[1]][x]}
      PROVE  Service!Next
  BY <1>e, TransitShrinks, SharedStays DEF Service!Next, Service!Misdeliver
<1>c. ASSUME NEW d, InFlight' = InFlight \/ InFlight' = InFlight \cup {d},
             Delivered' = Delivered, been' = been
      PROVE  Service!Next
  BY <1>c, TransitGrows, SharedStays DEF Items, Service!Next, Service!Carry
<1>d. TypeOK
  BY DEF IInv
<1>1. ASSUME ServerActs PROVE Service!Next
  <2>0. cdgram' = cdgram /\ been' = been
    BY <1>1 DEF ServerActs, clientVars
  <2>1. CASE ServerTunFills \/ ServerSelectTun \/ ServerSignal \/ ServerStart
    <3>1. InFlight' \subseteq InFlight
      BY <2>0, <2>1
         DEF InFlight, ServerTunFills, ServerSelectTun, ServerSignal, ServerStart
    <3>2. Delivered' \subseteq Delivered
      BY <2>1
         DEF Delivered, ServerTunFills, ServerSelectTun, ServerSignal, ServerStart
    <3>3. QED
      BY <1>a, <2>0, <3>1, <3>2
  <2>2. ASSUME NEW d \in net, ServerSelectSock(d) PROVE Service!Next
    <3>1. InFlight' \subseteq InFlight
      BY <2>0, <2>2 DEF InFlight, ServerSelectSock, Arrive
    <3>2. Delivered' \subseteq Delivered
      BY <2>2 DEF Delivered, ServerSelectSock
    <3>3. QED
      BY <1>a, <2>0, <3>1, <3>2
  <2>3. ASSUME NEW d \in sdgram, ServerAccept(d) PROVE Service!Next
    <3>1. InFlight' \subseteq InFlight
      BY <2>0, <2>3 DEF InFlight, ServerAccept
    <3>2. QED
      BY <1>b, <2>0, <2>3, <3>1, AcceptDelivers
  <2>4. ASSUME NEW d \in sdgram, ServerReject(d) PROVE Service!Next
    <3>1. InFlight' \subseteq InFlight
      BY <2>0, <2>4 DEF InFlight, ServerReject
    <3>2. Delivered' \subseteq Delivered
      BY <2>4 DEF Delivered, ServerReject
    <3>3. QED
      BY <1>a, <2>0, <3>1, <3>2
  <2>5. ASSUME NEW p \in ServerPackets, ServerTun(p) PROVE Service!Next
    <3> DEFINE d == [from |-> ServerAddr, to |-> addr[p.dst],
                     data |-> Encrypt(SrvTable[p.dst], p)]
    <3>1. net' = net \/ net' = net \cup {d}
      BY <2>5, SendAdds DEF ServerTun
    <3> HIDE DEF d
    <3>2. InFlight' = InFlight \/ InFlight' = InFlight \cup {d}
      BY <2>0, <2>5, <3>1 DEF InFlight, ServerTun
    <3>3. Delivered' = Delivered
      BY <2>5 DEF Delivered, ServerTun
    <3>4. QED
      BY <1>c, <2>0, <3>2, <3>3
  <2>6. QED
    BY <1>1, <2>1, <2>2, <2>3, <2>4, <2>5 DEF ServerActs, ServerStep
<1>2. ASSUME NEW c \in Clients, ClientActs(c) PROVE Service!Next
  <2>0. sdgram' = sdgram
    BY <1>2 DEF ClientActs, serverVars
  <2>1. ASSUME NEW d \in net, ClientSelectSock(c, d) PROVE Service!Next
    <3>1. \A x \in Clients : cdgram'[x] = IF x = c THEN {d} ELSE cdgram[x]
      BY <1>d, <2>1 DEF ClientSelectSock, TypeOK, ClientTypeOK
    <3>2. InFlight' \subseteq InFlight
      BY <2>0, <2>1, <3>1 DEF InFlight, ClientSelectSock, Arrive
    <3>3. Delivered' \subseteq Delivered
      BY <2>1 DEF Delivered, ClientSelectSock
    <3>4. been' = been
      BY <2>1 DEF ClientSelectSock
    <3>5. QED
      BY <1>a, <3>2, <3>3, <3>4
  <2>2. ASSUME NEW p \in ClientPackets[c], ClientTun(c, p) PROVE Service!Next
    <3> DEFINE d == [from |-> loc[c], to |-> ServerAddr,
                     data |-> Encrypt(CliTable[c], p)]
    <3>1. net' = net \/ net' = net \cup {d}
      BY <2>2, SendAdds DEF ClientTun
    <3> HIDE DEF d
    <3>2. InFlight' = InFlight \/ InFlight' = InFlight \cup {d}
      BY <2>0, <2>2, <3>1 DEF InFlight, ClientTun
    <3>3. Delivered' = Delivered
      BY <2>2 DEF Delivered, ClientTun
    <3>4. been' = been
      BY <2>2 DEF ClientTun
    <3>5. QED
      BY <1>c, <3>2, <3>3, <3>4
  <2>3. ASSUME NEW d \in cdgram[c], ClientSock(c, d) PROVE Service!Next
    <3>1. \A x \in Clients : cdgram'[x] = IF x = c THEN {} ELSE cdgram[x]
      BY <1>d, <2>3 DEF ClientSock, TypeOK, ClientTypeOK
    <3>2. InFlight' \subseteq InFlight
      BY <2>0, <2>3, <3>1 DEF InFlight, ClientSock
    <3>3. been' = been
      BY <2>3 DEF ClientSock
    <3>4. QED
      BY <1>a, <1>b, <1>e, <2>3, <3>2, <3>3, SockDelivers
  <2>4. CASE ClientSelectTun(c) \/ ClientSignal(c) \/ ClientStart(c)
    <3>1. /\ cdgram' = cdgram /\ net' = net /\ written' = written
          /\ been' = been
      BY <2>4 DEF ClientSelectTun, ClientSignal, ClientStart
    <3>2. InFlight' \subseteq InFlight /\ Delivered' \subseteq Delivered
      BY <2>0, <3>1 DEF InFlight, Delivered
    <3>3. QED
      BY <1>a, <3>1, <3>2
  <2>5. ASSUME NEW a \in Addr, Move(c, a) PROVE Service!Next
    <3>1. /\ cdgram' = cdgram /\ net' = net /\ written' = written
          /\ been' = [been EXCEPT ![c] = been[c] \cup {a}]
      BY <2>5 DEF Move
    <3>2. Transit' = Transit /\ Delivered' = Delivered
      BY <2>0, <3>1 DEF Transit, InFlight, Delivered
    <3>3. \A x \in Clients : been[x] \subseteq been[x]'
      BY <1>d, <3>1 DEF TypeOK, ClientTypeOK
    <3>4. QED
      BY <3>2, <3>3, SharedGrows DEF Service!Next, Service!Meet
  <2>6. QED
    BY <1>2, <2>1, <2>2, <2>3, <2>4, <2>5 DEF ClientActs, ClientStep
<1>3. ASSUME UNCHANGED vars PROVE UNCHANGED Service!vars
  BY <1>3 DEF vars, serverVars, clientVars, Service!vars, Transit, InFlight,
              Delivered, Shared
<1>4. QED
  BY <1>1, <1>2, <1>3 DEF Next

(***************************************************************************)
(* Only what a device of the user, or the server's side for the user, was  *)
(* given comes out at the other end, and what another user's tables make   *)
(* of it, where an address was handed on (svpn_client.c:92).               *)
(***************************************************************************)
THEOREM ImplementsTunnelService == Spec => CarriesPackets
<1>1. ASSUME Init PROVE Service!Init
  <2>1. Transit = {} /\ Delivered = {}
    BY <1>1 DEF Init, ServerInit, ClientInit, Transit, InFlight, Delivered
  <2>2. \A c, d \in Clients : loc[c] = loc[d] => c = d
    BY <1>1 DEF Init, ClientInit, Injection, IsInjective
  <2>3. \A c \in Clients : been[c] = {loc[c]}
    BY <1>1 DEF Init, ClientInit
  <2>4. Shared = {}
    BY <2>2, <2>3 DEF Shared
  <2>5. QED
    BY <2>1, <2>4 DEF Service!Init
<1>2. QED
  BY <1>1, StepImplements, Invariance, PTL
     DEF Spec, CarriesPackets, Service!Spec

-----------------------------------------------------------------------------
(***************************************************************************)
(* The server is not misled for ever.  Of what the server takes for c's,   *)
(* only c sends something, and it sends from where it is; so while c stays *)
(* what is stale can only be used up.                                      *)
(***************************************************************************)
Misleads(c, d) ==
  d.to = ServerAddr /\ Accepts(d.data) /\ d.data.ver = Uid[c] /\ d.from # loc[c]

(***************************************************************************)
(* What a client sends misleads nobody about a client that is alone: its   *)
(* own datagrams come from where it is, and those of others are not taken  *)
(* for its.                                                                *)
(***************************************************************************)
LEMMA SentMisleadsNobody ==
  ASSUME NEW c \in Clients, Alone(c), NEW x \in Clients, NEW p \in ClientPackets[x]
  PROVE  ~Misleads(c, [from |-> loc[x], to |-> ServerAddr,
                       data |-> Encrypt(CliTable[x], p)])
<1> DEFINE d == [from |-> loc[x], to |-> ServerAddr,
                 data |-> Encrypt(CliTable[x], p)]
<1> SUFFICES ASSUME Misleads(c, d) PROVE FALSE
  OBVIOUS
<1>1. d.from = loc[x] /\ d.data = Encrypt(CliTable[x], p)
  OBVIOUS
<1> HIDE DEF d
<1>2. /\ Accepts(Encrypt(CliTable[x], p))
      /\ Encrypt(CliTable[x], p).ver = Uid[c]
      /\ loc[x] # loc[c]
  BY <1>1 DEF Misleads
<1>3. Rightful(x) /\ Uid[x] = Uid[c]
  BY <1>2, UpSeparation
<1>4. x = c
  BY <1>3 DEF Alone
<1>5. QED
  BY <1>2, <1>4

(***************************************************************************)
(* What a step can change of what is under way.                            *)
(***************************************************************************)
LEMMA Traffic ==
  ASSUME Next
  PROVE  /\ \/ net' \subseteq net
            \/ \E p \in ServerPackets :
                 /\ p.dst \in Users
                 /\ addr[p.dst] # NoAddr
                 /\ net' = net \cup {[from |-> ServerAddr, to |-> addr[p.dst],
                                      data |-> Encrypt(SrvTable[p.dst], p)]}
            \/ \E x \in Clients : \E p \in ClientPackets[x] :
                 net' = net \cup {[from |-> loc[x], to |-> ServerAddr,
                                   data |-> Encrypt(CliTable[x], p)]}
         /\ sdgram' \subseteq sdgram \/ \E d \in net : ServerSelectSock(d)
<1>1. CASE ServerActs
  <2>1. ASSUME NEW p \in ServerPackets, ServerTun(p)
        PROVE  /\ sdgram' = sdgram
               /\ \/ net' = net
                  \/ /\ p.dst \in Users
                     /\ addr[p.dst] # NoAddr
                     /\ net' = net \cup
                          {[from |-> ServerAddr, to |-> addr[p.dst],
                            data |-> Encrypt(SrvTable[p.dst], p)]}
    BY <2>1, SendAdds DEF ServerTun
  <2>2. CASE ~\E p \in ServerPackets : ServerTun(p)
    <3>1. /\ net' \subseteq net
          /\ sdgram' \subseteq sdgram \/ \E d \in net : ServerSelectSock(d)
      BY <1>1, <2>2 DEF ServerActs, ServerStep, ServerTunFills,
           ServerSelectSock, Arrive, ServerSelectTun, ServerAccept,
           ServerReject, ServerSignal, ServerStart
    <3>2. QED
      BY <3>1
  <2>3. QED
    BY <2>1, <2>2
<1>2. ASSUME NEW x \in Clients, ClientActs(x)
      PROVE  /\ sdgram' = sdgram
             /\ \/ net' \subseteq net
                \/ \E p \in ClientPackets[x] :
                     net' = net \cup {[from |-> loc[x], to |-> ServerAddr,
                                       data |-> Encrypt(CliTable[x], p)]}
  <2>0. sdgram' = sdgram
    BY <1>2 DEF ClientActs, serverVars
  <2>1. ASSUME NEW p \in ClientPackets[x], ClientTun(x, p)
        PROVE  \/ net' = net
               \/ net' = net \cup {[from |-> loc[x], to |-> ServerAddr,
                                    data |-> Encrypt(CliTable[x], p)]}
    BY <2>1, SendAdds DEF ClientTun
  <2>2. CASE ~\E p \in ClientPackets[x] : ClientTun(x, p)
    <3>1. net' \subseteq net
      BY <1>2, <2>2 DEF ClientActs, ClientStep, ClientSelectSock, Arrive,
           ClientSelectTun, ClientSock, ClientSignal, ClientStart, Move
    <3>2. QED
      BY <2>0, <3>1
  <2>3. QED
    BY <2>0, <2>1, <2>2
<1>3. QED
  BY <1>1, <1>2 DEF Next

LEMMA NothingNewMisleads ==
  ASSUME IInv, Next, NEW c \in Clients, Alone(c)
  PROVE  \A e \in net' : e \in net \/ ~Misleads(c, e)
<1>1. ASSUME NEW p \in ServerPackets, p.dst \in Users, addr[p.dst] # NoAddr
      PROVE  ~Misleads(c, [from |-> ServerAddr, to |-> addr[p.dst],
                           data |-> Encrypt(SrvTable[p.dst], p)])
  <2>1. addr[p.dst] # ServerAddr
    BY <1>1, AddressAssumption DEF IInv, TypeOK, ServerTypeOK
  <2>2. QED
    BY <2>1 DEF Misleads
<1>2. QED
  BY <1>1, SentMisleadsNobody, Traffic

LEMMA StaleIs ==
  ASSUME NEW c, NEW d
  PROVE  d \in Stale(c) <=> d \in net \cup sdgram /\ Misleads(c, d)
BY DEF Stale, Misleads

LEMMA StaleFades ==
  ASSUME IInv, Next, NEW c \in Clients, Alone(c), loc'[c] = loc[c]
  PROVE  Stale(c)' \subseteq Stale(c)
<1>1. \A d : d \in Stale(c)' => d \in net' \cup sdgram' /\ Misleads(c, d)
  BY DEF Stale, Misleads
<1>2. sdgram' \subseteq net \cup sdgram
  BY Traffic DEF ServerSelectSock
<1>3. \A d \in net' : d \in net \/ ~Misleads(c, d)
  BY NothingNewMisleads
<1>4. QED
  BY <1>1, <1>2, <1>3, StaleIs

(***************************************************************************)
(* The server takes a datagram for one of c's, and one that comes from     *)
(* where c is not.                                                         *)
(***************************************************************************)
Hears(c) == \E d \in sdgram : ServerAccept(d) /\ d.data.ver = Uid[c]

Mishears(c) ==
  \E d \in sdgram :
    ServerAccept(d) /\ d.data.ver = Uid[c] /\ d.from # loc[c]

LEMMA AddrChanges ==
  ASSUME IInv, Next, up, NEW c \in Clients, Alone(c)
  PROVE  /\ addr'[Uid[c]] # addr[Uid[c]] => Hears(c)
         /\ Hears(c) => Mishears(c) \/ addr'[Uid[c]] = loc[c]
<1>0. addr \in [Users -> Addr \cup {NoAddr}] /\ Uid[c] \in Users
  BY DEF IInv, TypeOK, ServerTypeOK, Alone, Rightful
<1>1. ASSUME NEW d \in sdgram, ServerAccept(d)
      PROVE  addr' = [addr EXCEPT ![d.data.ver] = d.from]
  BY <1>1 DEF ServerAccept
<1>2. \/ addr' = addr
      \/ \E d \in sdgram : ServerAccept(d)
  <2>1. CASE ServerActs
    BY <2>1 DEF ServerActs, ServerStep, ServerTunFills, ServerSelectSock,
         ServerSelectTun, ServerReject, ServerTun, ServerSignal, ServerStart
  <2>2. CASE \E x \in Clients : ClientActs(x)
    BY <2>2 DEF ClientActs, serverVars
  <2>3. QED
    BY <2>1, <2>2 DEF Next
<1>3. ASSUME addr'[Uid[c]] # addr[Uid[c]]
      PROVE  Hears(c)
  <2>1. PICK d \in sdgram : ServerAccept(d)
    BY <1>2, <1>3
  <2>2. d.data.ver = Uid[c]
    BY <1>0, <1>1, <1>3, <2>1
  <2>3. QED
    BY <2>1, <2>2 DEF Hears
<1>4. ASSUME Hears(c), ~Mishears(c)
      PROVE  addr'[Uid[c]] = loc[c]
  <2>1. PICK d \in sdgram : ServerAccept(d) /\ d.data.ver = Uid[c]
    BY <1>4 DEF Hears
  <2>2. d.from = loc[c]
    BY <1>4, <2>1 DEF Mishears
  <2>3. QED
    BY <1>0, <1>1, <2>1, <2>2
<1>5. QED
  BY <1>3, <1>4

(***************************************************************************)
(* What misleads is stale, so a server that is sure of the address of c    *)
(* stays so.                                                               *)
(***************************************************************************)
LEMMA MisheardWasStale ==
  ASSUME IInv, NEW c \in Clients, Mishears(c)
  PROVE  \E d \in sdgram : ServerAccept(d) /\ Misleads(c, d)
BY DEF Mishears, Misleads, ServerAccept, IInv, Heads

LEMMA SureStays ==
  ASSUME IInv, Next, NEW c \in Clients, Alone(c), up, loc'[c] = loc[c], Sure(c)
  PROVE  Sure(c)'
<1>1. Stale(c)' = {}
  BY StaleFades DEF Sure
<1>2. ~Mishears(c)
  BY MisheardWasStale, StaleIs DEF Sure
<1>3. addr'[Uid[c]] = loc'[c]
  BY <1>2, AddrChanges DEF Sure
<1>4. QED
  BY <1>1, <1>3 DEF Sure

(***************************************************************************)
(* While the only device of a user stays where it is, nothing new misleads *)
(* the server about it, whatever other clients send and however often      *)
(* datagrams come; and a server that knows its address, with nothing stale *)
(* ahead, keeps it until it is started again.                              *)
(***************************************************************************)
THEOREM StaysSureOfAddresses == Spec => StaysSure
<1>1. IInv /\ [Next]_vars =>
        [\A c \in Clients :
           Alone(c) /\ up /\ loc'[c] = loc[c] =>
             /\ Stale(c)' \subseteq Stale(c)
             /\ Sure(c) => Sure(c)']_vars
  BY StaleFades, SureStays
<1>2. QED
  BY <1>1, Invariance, PTL DEF Spec, StaysSure

-----------------------------------------------------------------------------
(***************************************************************************)
(* If nothing comes twice, the server mishears a client that stays only so *)
(* often: Ahead counts what can still mislead it, twice on its way and     *)
(* once when it is read.                                                   *)
(***************************************************************************)
Misleading(c, S) == { d \in S : Misleads(c, d) }

Ahead(c) ==
  2 * Cardinality(Misleading(c, net)) + Cardinality(Misleading(c, sdgram))

FiniteTraffic == IsFiniteSet(net) /\ IsFiniteSet(sdgram)

LEMMA AlwaysFinite == Spec => []FiniteTraffic
<1>1. Init => FiniteTraffic
  BY FS_EmptySet DEF Init, ServerInit, FiniteTraffic
<1>2. FiniteTraffic /\ [Next]_vars => FiniteTraffic'
  <2> SUFFICES ASSUME FiniteTraffic, [Next]_vars PROVE FiniteTraffic'
    OBVIOUS
  <2>1. CASE Next
    <3>1. IsFiniteSet(net')
      BY <2>1, Traffic, FS_Subset, FS_AddElement DEF FiniteTraffic
    <3>2. CASE sdgram' \subseteq sdgram
      BY <3>1, <3>2, FS_Subset DEF FiniteTraffic
    <3>3. CASE \E d \in net : ServerSelectSock(d)
      <4>1. \E d : sdgram' = {d}
        BY <3>3 DEF ServerSelectSock
      <4>2. QED
        BY <3>1, <4>1, FS_Singleton DEF FiniteTraffic
    <3>4. QED
      BY <2>1, <3>2, <3>3, Traffic
  <2>2. CASE UNCHANGED vars
    BY <2>2 DEF vars, serverVars, FiniteTraffic
  <2>3. QED
    BY <2>1, <2>2
<1>3. QED
  BY <1>1, <1>2, PTL DEF Spec

LEMMA MisleadingFacts ==
  ASSUME NEW c, NEW S, NEW T, IsFiniteSet(S),
         \A d \in T : d \in S \/ ~Misleads(c, d)
  PROVE  /\ IsFiniteSet(Misleading(c, S)) /\ Cardinality(Misleading(c, S)) \in Nat
         /\ Cardinality(Misleading(c, T)) \in Nat
         /\ Cardinality(Misleading(c, T)) <= Cardinality(Misleading(c, S))
<1>1. Misleading(c, S) \in SUBSET S /\ Misleading(c, T) \in SUBSET Misleading(c, S)
  BY DEF Misleading
<1>2. IsFiniteSet(Misleading(c, S))
  BY <1>1, FS_Subset
<1>3. IsFiniteSet(Misleading(c, T))
  BY <1>1, <1>2, FS_Subset
<1>4. QED
  BY <1>1, <1>2, <1>3, FS_Subset, FS_CardinalityType

LEMMA AheadFalls ==
  ASSUME IInv, FiniteTraffic, Next, ~MayDuplicate,
         NEW c \in Clients, Alone(c), loc'[c] = loc[c]
  PROVE  /\ Ahead(c) \in Nat /\ Ahead(c)' \in Nat
         /\ Ahead(c)' <= Ahead(c)
         /\ Mishears(c) => Ahead(c)' < Ahead(c)
<1> DEFINE n == Cardinality(Misleading(c, net))
           s == Cardinality(Misleading(c, sdgram))
           nn == Cardinality(Misleading(c, net'))
           ss == Cardinality(Misleading(c, sdgram'))
<1>1. Ahead(c) = 2 * n + s /\ Ahead(c)' = 2 * nn + ss
  <2>1. \A d : Misleads(c, d)' <=> Misleads(c, d)
    BY DEF Misleads
  <2>2. /\ Misleading(c, net)' = Misleading(c, net')
        /\ Misleading(c, sdgram)' = Misleading(c, sdgram')
    BY <2>1 DEF Misleading
  <2>3. QED
    BY <2>2 DEF Ahead
<1>2. n \in Nat /\ nn \in Nat /\ nn <= n
  BY NothingNewMisleads, MisleadingFacts DEF FiniteTraffic
<1>3. s \in Nat
  BY MisleadingFacts DEF FiniteTraffic
<1>4. CASE sdgram' \subseteq sdgram
  <2>1. ss \in Nat /\ ss <= s
    BY <1>4, MisleadingFacts DEF FiniteTraffic
  <2>2. ASSUME Mishears(c) PROVE ss < s
    <3>1. PICK d \in sdgram : ServerAccept(d) /\ Misleads(c, d)
      BY <2>2, MisheardWasStale
    <3>2. sdgram' = {}
      BY <3>1 DEF ServerAccept
    <3>3. ss = 0
      BY <3>2, FS_EmptySet DEF Misleading
    <3>4. Misleading(c, sdgram) # {}
      BY <3>1 DEF Misleading
    <3>5. IsFiniteSet(Misleading(c, sdgram))
      BY MisleadingFacts DEF FiniteTraffic
    <3>6. s # 0
      BY <3>4, <3>5, FS_EmptySet
    <3>7. QED
      BY <1>3, <3>3, <3>6
  <2> HIDE DEF n, s, nn, ss
  <2>3. QED
    BY <1>1, <1>2, <1>3, <2>1, <2>2
<1>5. ASSUME NEW d \in net, ServerSelectSock(d)
      PROVE  /\ ss \in Nat /\ 2 * nn + ss <= 2 * n + s /\ ~Mishears(c)
  <2>1. /\ d \in net /\ net' = net \ {d} /\ sdgram = {} /\ sdgram' = {d}
    BY <1>5 DEF ServerSelectSock, InSelect, Arrive, At
  <2>2. ~Mishears(c)
    BY <2>1 DEF Mishears
  <2>3. s = 0
    BY <2>1, FS_EmptySet DEF Misleading
  <2>4. CASE Misleads(c, d)
    <3>1. /\ Misleading(c, net') = Misleading(c, net) \ {d}
          /\ Misleading(c, sdgram') = {d}
          /\ d \in Misleading(c, net)
      BY <2>1, <2>4 DEF Misleading
    <3>2. IsFiniteSet(Misleading(c, net))
      BY MisleadingFacts DEF FiniteTraffic
    <3>3. Cardinality(Misleading(c, net) \ {d}) = n - 1
      BY <3>1, <3>2, FS_RemoveElement
    <3>4. nn = n - 1 /\ ss = 1
      BY <3>1, <3>3, FS_Singleton
    <3> HIDE DEF n, s, nn, ss
    <3>5. QED
      BY <1>2, <2>2, <2>3, <3>4
  <2>5. CASE ~Misleads(c, d)
    <3>1. Misleading(c, sdgram') = {}
      BY <2>1, <2>5 DEF Misleading
    <3>2. ss = 0
      BY <3>1, FS_EmptySet
    <3> HIDE DEF n, s, nn, ss
    <3>3. QED
      BY <1>2, <2>2, <2>3, <3>2
  <2>6. QED
    BY <2>4, <2>5
<1> HIDE DEF n, s, nn, ss
<1>6. QED
  BY <1>1, <1>2, <1>3, <1>4, <1>5, Traffic

(***************************************************************************)
(* Without duplicates, while the only device of a user stays where it is,  *)
(* every datagram that moves its address away (svpn_server.c:207-212) uses *)
(* up some of a finite number that never grows.                            *)
(***************************************************************************)
MisheardLess ==
  [][\A c \in Clients :
       Alone(c) /\ loc'[c] = loc[c] =>
         /\ Ahead(c)' <= Ahead(c)
         /\ Mishears(c) => Ahead(c)' < Ahead(c)]_vars

AheadIsNatural == \A c \in Clients : Ahead(c) \in Nat

THEOREM MishearsFinitely ==
  ASSUME ~MayDuplicate
  PROVE  Spec => MisheardLess /\ []AheadIsNatural
<1>1. IInv /\ FiniteTraffic /\ [Next]_vars =>
        [\A c \in Clients :
           Alone(c) /\ loc'[c] = loc[c] =>
             /\ Ahead(c)' <= Ahead(c)
             /\ Mishears(c) => Ahead(c)' < Ahead(c)]_vars
  BY AheadFalls
<1>2. FiniteTraffic => AheadIsNatural
  <2> SUFFICES ASSUME FiniteTraffic, NEW c \in Clients PROVE Ahead(c) \in Nat
    BY DEF AheadIsNatural
  <2>1. /\ Cardinality(Misleading(c, net)) \in Nat
        /\ Cardinality(Misleading(c, sdgram)) \in Nat
    BY MisleadingFacts DEF FiniteTraffic
  <2>2. QED
    BY <2>1 DEF Ahead
<1>3. QED
  BY <1>1, <1>2, Invariance, AlwaysFinite, PTL DEF Spec, MisheardLess

(***************************************************************************)
(* And that is all Converges takes: a client stays somewhere while server  *)
(* and client run, the server hears it again and again, and stops          *)
(* mishearing it.  Then the server comes to know its address and keeps it. *)
(***************************************************************************)
THEOREM ConvergesIfHeard ==
  ASSUME NEW c \in Clients, NEW a \in Addr, Alone(c)
  PROVE  Spec =>
           (/\ Settled(c, a)
            /\ []<><<Hears(c)>>_vars
            /\ <>[][~Mishears(c)]_vars
            => <>[](addr[Uid[c]] = a))
<1> DEFINE stays == up /\ on[c] /\ loc[c] = a
           known == addr[Uid[c]] = a
<1>1. IInv /\ [Next]_vars /\ stays /\ <<Hears(c)>>_vars /\ [~Mishears(c)]_vars
        => known'
  BY AddrChanges
<1>2. IInv /\ [Next]_vars /\ stays /\ [~Mishears(c)]_vars /\ known => known'
  <2>1. CASE Next
    BY <2>1, AddrChanges DEF vars, serverVars
  <2>2. CASE UNCHANGED vars
    BY <2>2 DEF vars, serverVars
  <2>3. QED
    BY <2>1, <2>2
<1>3. Settled(c, a) <=> <>[]stays
  BY DEF Settled
<1> HIDE DEF stays, known
<1>4. Spec => (/\ <>[]stays
               /\ []<><<Hears(c)>>_vars
               /\ <>[][~Mishears(c)]_vars
               => <>[]known)
  BY <1>1, <1>2, Invariance, PTL DEF Spec
<1>5. QED
  BY <1>3, <1>4 DEF known

-----------------------------------------------------------------------------
(***************************************************************************)
(* Liveness.  Fairness speaks of steps that can be taken, which the        *)
(* provers cannot see into; that they can is a hypothesis, one of the      *)
(* parts of NeverStuck.  What is proved is the rest: from wherever it is,  *)
(* each turn brings the loop nearer to the branch of the tunnel.           *)
(***************************************************************************)
LEMMA FairServer ==
  FairSpec => Spec /\ WF_vars(ServerTurns) /\ WF_vars(KernelFills)
BY PTL DEF FairSpec, ServerFairness

(***************************************************************************)
(* Where the loop can be while the tunnel has a packet: in select, at a    *)
(* datagram without or with the tunnel reported, and at the tunnel.        *)
(***************************************************************************)
InTurn(datagram, tunnel) ==
  stun /\ (sdgram # {}) = datagram /\ sread = tunnel

Quiet == \A d \in InFlight : d.to = ServerAddr => Accepts(d.data)

LEMMA TurnStep ==
  ASSUME IInv, [Next]_vars, up, up', Quiet
  PROVE  /\ InTurn(FALSE, FALSE) =>
              \/ InTurn(FALSE, FALSE)' /\ ~ServerTurns
              \/ InTurn(TRUE, TRUE)' \/ InTurn(FALSE, TRUE)'
         /\ InTurn(TRUE, FALSE) =>
              (InTurn(TRUE, FALSE)' /\ ~ServerTurns) \/ InTurn(FALSE, FALSE)'
         /\ InTurn(TRUE, TRUE) =>
              (InTurn(TRUE, TRUE)' /\ ~ServerTurns) \/ InTurn(FALSE, TRUE)'
<1>1. /\ stun \in BOOLEAN /\ sread \in BOOLEAN
      /\ \A d \in sdgram : Accepts(d.data)
  BY DEF IInv, TypeOK, ServerTypeOK, Heads, Quiet, InFlight
<1>2. ASSUME UNCHANGED <<stun, sdgram, sread>>
      PROVE  \A b, r \in BOOLEAN : InTurn(b, r) => InTurn(b, r)'
  BY <1>2 DEF InTurn
<1>3. ASSUME NEW d \in net, ServerSelectSock(d)
      PROVE  /\ sdgram = {} /\ ~sread
             /\ stun => InTurn(TRUE, TRUE)'
  BY <1>3 DEF ServerSelectSock, InSelect, InTurn
<1>4. ASSUME ServerSelectTun
      PROVE  sdgram = {} /\ ~sread /\ InTurn(FALSE, TRUE)'
  BY <1>4 DEF ServerSelectTun, InSelect, InTurn
<1>5. ASSUME NEW d \in sdgram, ServerAccept(d) \/ ServerReject(d)
      PROVE  /\ sdgram # {}
             /\ stun /\ ~sread => InTurn(FALSE, FALSE)'
             /\ stun /\ sread => InTurn(FALSE, TRUE)'
  BY <1>1, <1>5 DEF ServerAccept, ServerReject, InTurn
<1>6. ASSUME NEW p \in ServerPackets, ServerTun(p)
      PROVE  sdgram = {} /\ sread
  BY <1>6 DEF ServerTun
<1>7. ASSUME ServerRuns
      PROVE  /\ InTurn(FALSE, FALSE) => InTurn(TRUE, TRUE)' \/ InTurn(FALSE, TRUE)'
             /\ InTurn(TRUE, FALSE) => InTurn(FALSE, FALSE)'
             /\ InTurn(TRUE, TRUE) => InTurn(FALSE, TRUE)'
  BY <1>3, <1>4, <1>5, <1>6, <1>7 DEF ServerRuns, InTurn
<1>8. CASE ServerActs
  <2>1. CASE ServerRuns
    BY <1>7, <2>1
  <2>2. CASE ~ServerRuns /\ ~InTurn(FALSE, TRUE)
    <3>1. ServerTunFills
      BY <1>8, <2>2 DEF ServerActs, ServerStep, ServerRuns, ServerSignal, ServerStart
    <3>2. ~stun
      BY <3>1 DEF ServerTunFills
    <3>3. QED
      BY <3>2 DEF InTurn
  <2>3. CASE InTurn(FALSE, TRUE)
    BY <2>3 DEF InTurn
  <2>4. QED
    BY <2>1, <2>2, <2>3
<1>9. CASE (\E c \in Clients : ClientActs(c)) \/ UNCHANGED vars
  <2>1. UNCHANGED <<stun, sdgram, sread>>
    BY <1>9 DEF ClientActs, serverVars, vars
  <2>2. CASE ServerRuns
    BY <1>7, <2>2
  <2>3. CASE ~ServerRuns
    BY <1>2, <2>1, <2>3 DEF ServerTurns
  <2>4. QED
    BY <2>2, <2>3
<1>10. QED
  BY <1>8, <1>9 DEF Next

(***************************************************************************)
(* The branch of the tunnel is reached again and again by a server that    *)
(* runs and hears nothing it rejects, however many datagrams come: a       *)
(* datagram it accepts does not end the turn (svpn_server.c:180-221).      *)
(***************************************************************************)
LEMMA TunAgainAndAgain ==
  FairSpec /\ []CanServe => (<>[]up /\ Undisturbed => []<>TunIsRead)
<1> DEFINE N == ~stun
           A == InTurn(FALSE, FALSE)
           B0 == InTurn(TRUE, FALSE)
           B1 == InTurn(TRUE, TRUE)
<1>1. IInv => N \/ A \/ B0 \/ B1 \/ TunIsRead
  BY DEF IInv, TypeOK, ServerTypeOK, InTurn, TunIsRead
<1>2. /\ InTurn(FALSE, TRUE) => TunIsRead
      /\ A \/ B0 \/ B1 => stun /\ ~TunIsRead
  BY DEF InTurn, TunIsRead
<1>3. ASSUME IInv, [Next]_vars, up, up', Quiet
      PROVE  /\ A => (A' /\ ~ServerTurns) \/ B1' \/ TunIsRead'
             /\ B0 => (B0' /\ ~ServerTurns) \/ A'
             /\ B1 => (B1' /\ ~ServerTurns) \/ TunIsRead'
  BY <1>2, <1>3, TurnStep DEF InTurn, TunIsRead
<1>4. <<KernelFills>>_vars => ~N'
  BY DEF KernelFills, ServerTunFills
<1>5. Undisturbed <=> <>[]Quiet
  BY DEF Undisturbed, Quiet
<1>6. CanServe => /\ up /\ (A \/ B0 \/ B1) => ENABLED <<ServerTurns>>_vars
                  /\ up /\ N => ENABLED <<KernelFills>>_vars
  BY <1>2 DEF CanServe
<1> HIDE DEF N, A, B0, B1
<1>7. FairSpec /\ []CanServe => (<>[]up /\ <>[]Quiet => []<>TunIsRead)
  BY <1>1, <1>3, <1>4, <1>6, FairServer, Invariance, PTL DEF Spec
<1>8. QED
  BY <1>5, <1>7

(***************************************************************************)
(* What the server's tunnel has for it is served in the end.               *)
(***************************************************************************)
THEOREM AlwaysTunServed == FairSpec /\ []CanServe => TunServed
<1>1. TunServed <=> (<>[]up /\ Undisturbed => (stun ~> TunIsRead))
  BY PTL DEF TunServed, TunIsRead
<1>2. QED
  BY <1>1, TunAgainAndAgain, PTL

-----------------------------------------------------------------------------
(***************************************************************************)
(* A client that runs waits again and again, and looks at its tunnel again *)
(* and again.                                                              *)
(***************************************************************************)
HearingIsFair(c, taken) == SF_vars(Hearing(c, taken))

LEMMA FairClients ==
  FairSpec => Spec /\ \A c \in Clients : Rightful(c) => ClientFairness(c)
BY PTL DEF FairSpec

LEMMA FairClient ==
  ASSUME NEW c \in Clients, Rightful(c)
  PROVE  FairSpec => /\ Spec
                     /\ WF_vars(ClientTurns(c))
                     /\ SF_vars(Reading(c))
                     /\ SF_vars(Sending(c))
                     /\ SF_vars(Receiving(c))
                     /\ SF_vars(Hearing(c, TRUE))
                     /\ SF_vars(Hearing(c, FALSE))
<1>1. FairSpec => Spec /\ ClientFairness(c)
  BY FairClients
<1>2. ClientFairness(c) => /\ WF_vars(ClientTurns(c))
                           /\ SF_vars(Reading(c))
                           /\ SF_vars(Sending(c))
                           /\ SF_vars(Receiving(c))
                           /\ \A taken \in BOOLEAN : HearingIsFair(c, taken)
  BY PTL DEF ClientFairness, HearingIsFair
<1>3. (\A taken \in BOOLEAN : HearingIsFair(c, taken)) =>
        HearingIsFair(c, TRUE) /\ HearingIsFair(c, FALSE)
  OBVIOUS
<1>4. /\ HearingIsFair(c, TRUE) => SF_vars(Hearing(c, TRUE))
      /\ HearingIsFair(c, FALSE) => SF_vars(Hearing(c, FALSE))
  BY PTL DEF HearingIsFair
<1>5. QED
  BY <1>1, <1>2, <1>3, <1>4, PTL

(***************************************************************************)
(* Where client c can be in its loop: in select, at its tunnel, at its     *)
(* socket.                                                                 *)
(***************************************************************************)
AtSock(c) == ~cread[c] /\ cdgram[c] # {}

LEMMA ClientTurnStep ==
  ASSUME IInv, [Next]_vars, NEW c \in Clients
  PROVE  /\ Waits(c) \/ cread[c] \/ AtSock(c)
         /\ AtSock(c) => (AtSock(c)' /\ ~ClientTurns(c)) \/ Waits(c)'
         /\ cread[c] => (cread'[c] /\ ~ClientTurns(c)) \/ Waits(c)' \/ AtSock(c)'
         /\ Reading(c) => cread'[c]
         /\ Sending(c) => UnderWay(c, TRUE)' # {}
         /\ Receiving(c) => cdgram'[c] # {}
<1>1. /\ cdgram \in [Clients -> SUBSET Datagram]
      /\ cread \in [Clients -> BOOLEAN]
  BY DEF IInv, TypeOK, ClientTypeOK
<1>2. Waits(c) \/ cread[c] \/ AtSock(c)
  BY <1>1 DEF Waits, AtSock
<1>3. ASSUME NEW d \in cdgram[c], ClientSock(c, d)
      PROVE  AtSock(c) /\ Waits(c)'
  BY <1>1, <1>3 DEF ClientSock, AtSock, Waits
<1>4. ASSUME NEW p \in ClientPackets[c], ClientTun(c, p)
      PROVE  /\ cread[c] /\ ~cread'[c] /\ cdgram'[c] = cdgram[c]
  BY <1>1, <1>4 DEF ClientTun
<1>5. ASSUME \/ \E d \in net : ClientSelectSock(c, d)
             \/ ClientSelectTun(c)
      PROVE  Waits(c)
  BY <1>5 DEF ClientSelectSock, ClientSelectTun
<1>6. Waits(c) => ~cread[c] /\ ~AtSock(c)
  BY DEF Waits, AtSock
<1>7. ASSUME ~ClientRuns(c)
      PROVE  cread'[c] = cread[c] /\ cdgram'[c] = cdgram[c]
  <2>1. ASSUME NEW x \in Clients, ClientActs(x)
        PROVE  cread'[c] = cread[c] /\ cdgram'[c] = cdgram[c]
    <3>1. CASE x # c
      BY <1>1, <2>1, <3>1 DEF ClientActs, ClientStep, ClientSelectSock,
           ClientSelectTun, ClientTun, ClientSock, ClientSignal, ClientStart, Move
    <3>2. CASE x = c
      BY <1>7, <2>1, <3>2 DEF ClientActs, ClientStep, ClientRuns, ClientSignal,
           ClientStart, Move
    <3>3. QED
      BY <3>1, <3>2
  <2>2. ASSUME ServerActs \/ UNCHANGED vars
        PROVE  cread'[c] = cread[c] /\ cdgram'[c] = cdgram[c]
    BY <2>2 DEF ServerActs, vars, clientVars
  <2>3. QED
    BY <2>1, <2>2 DEF Next
<1>8. ClientRuns(c) => /\ AtSock(c) => Waits(c)'
                       /\ cread[c] => Waits(c)' \/ AtSock(c)'
  BY <1>3, <1>4, <1>5, <1>6 DEF ClientRuns, AtSock, Waits
<1>9. /\ AtSock(c) => (AtSock(c)' /\ ~ClientTurns(c)) \/ Waits(c)'
      /\ cread[c] => (cread'[c] /\ ~ClientTurns(c)) \/ Waits(c)' \/ AtSock(c)'
  BY <1>7, <1>8 DEF ClientTurns, AtSock, Waits
<1>10. Reading(c) => cread'[c]
  BY DEF Reading, ClientReads
<1>11. Sending(c) => UnderWay(c, TRUE)' # {}
  BY DEF Sending, ClientSends, ClientTun, UnderWay, At
<1>12. Receiving(c) => cdgram'[c] # {}
  BY <1>1 DEF Receiving, ClientSelectSock
<1>13. QED
  BY <1>2, <1>9, <1>10, <1>11, <1>12

LEMMA TurnsAgainAndAgain ==
  ASSUME NEW c \in Clients, Rightful(c)
  PROVE  FairSpec /\ []CanTalk(c) /\ <>[](on[c]) =>
           []<>(Waits(c)) /\ []<>(cread[c])
<1> DEFINE W == Waits(c)
           C == cread[c]
           D == AtSock(c)
           R == on[c]
<1>1. IInv /\ [Next]_vars =>
        /\ W \/ C \/ D
        /\ D => (D' /\ ~ClientTurns(c)) \/ W'
        /\ C => (C' /\ ~ClientTurns(c)) \/ W' \/ D'
        /\ Reading(c) => C'
  BY ClientTurnStep
<1>2. CanTalk(c) => /\ R => ENABLED <<ClientTurns(c)>>_vars
                    /\ R /\ W => ENABLED <<Reading(c)>>_vars
  BY DEF CanTalk
<1> HIDE DEF W, C, D, R
<1>3. FairSpec /\ []CanTalk(c) /\ <>[]R => []<>W /\ []<>C
  BY <1>1, <1>2, FairClient, Invariance, PTL DEF Spec
<1>4. QED
  BY <1>3 DEF W, C, R

(***************************************************************************)
(* A server that runs is back in select again and again, whatever comes.   *)
(***************************************************************************)
Got(c) ==
  sdgram # {} /\ \A d \in sdgram : d.data.ver = Uid[c] /\ Accepts(d.data)

(***************************************************************************)
(* What the server does with the datagram it has, and until it is back in  *)
(* select.                                                                 *)
(***************************************************************************)
LEMMA HearingStep ==
  ASSUME IInv, [Next]_vars, up, up', NEW c \in Clients
  PROVE  /\ InSelect \/ sdgram # {} \/ TunIsRead
         /\ sdgram # {} =>
              (sdgram' # {} /\ ~ServerTurns) \/ TunIsRead' \/ InSelect'
         /\ TunIsRead => (TunIsRead' /\ ~ServerTurns) \/ InSelect'
         /\ Got(c) => ~InSelect
         /\ Got(c) => (Got(c)' /\ ~ServerTurns) \/ <<Hears(c)>>_vars
<1>1. sread \in BOOLEAN /\ sread' \in BOOLEAN
  <2>1. sread' \in BOOLEAN
    BY StepIInv DEF IInv, TypeOK, ServerTypeOK
  <2>2. QED
    BY <2>1 DEF IInv, TypeOK, ServerTypeOK
<1>2. InSelect \/ sdgram # {} \/ TunIsRead
  BY <1>1 DEF InSelect, TunIsRead
<1>3. CASE ServerTurns
  <2>1. ASSUME NEW d \in sdgram, ServerAccept(d) \/ ServerReject(d)
        PROVE  sdgram' = {}
    BY <2>1 DEF ServerAccept, ServerReject
  <2>2. ASSUME NEW p \in ServerPackets, ServerTun(p)
        PROVE  sdgram' = {} /\ ~sread' /\ sdgram = {}
    BY <2>2 DEF ServerTun
  <2>3. ASSUME ServerSelectTun \/ \E d \in net : ServerSelectSock(d)
        PROVE  sdgram = {} /\ ~sread
    BY <2>3 DEF ServerSelectTun, ServerSelectSock, InSelect
  <2>4. sdgram # {} => TunIsRead' \/ InSelect'
    BY <1>1, <1>3, <2>1, <2>2, <2>3 DEF ServerTurns, ServerRuns, TunIsRead, InSelect
  <2>5. TunIsRead => InSelect'
    BY <1>3, <2>2, <2>3 DEF ServerTurns, ServerRuns, TunIsRead, InSelect
  <2>6. Got(c) => <<Hears(c)>>_vars
    <3> SUFFICES ASSUME Got(c) PROVE <<Hears(c)>>_vars
      OBVIOUS
    <3>1. PICK d \in sdgram : ServerAccept(d) \/ ServerReject(d)
      BY <1>3, <2>2, <2>3 DEF Got, ServerTurns, ServerRuns
    <3>2. d.data.ver = Uid[c] /\ ServerAccept(d)
      BY <3>1 DEF Got, ServerReject
    <3>3. sdgram' # sdgram
      BY <2>1, <3>1
    <3>4. QED
      BY <3>2, <3>3 DEF Hears, vars, serverVars
  <2>7. QED
    BY <1>2, <2>4, <2>5, <2>6 DEF Got, InSelect
<1>4. CASE ~ServerTurns
  <2>1. sdgram' = sdgram /\ sread' = sread
    <3>1. CASE ServerActs
      <4>1. ~ServerRuns
        BY <1>4, <3>1 DEF ServerTurns, ServerActs
      <4>2. QED
        BY <3>1, <4>1 DEF ServerActs, ServerStep, ServerRuns, ServerTunFills,
             ServerSignal, ServerStart
    <3>2. CASE (\E x \in Clients : ClientActs(x)) \/ UNCHANGED vars
      BY <3>2 DEF ClientActs, vars, serverVars
    <3>3. QED
      BY <3>1, <3>2 DEF Next
  <2>2. QED
    BY <1>2, <1>4, <2>1 DEF TunIsRead, InSelect, Got
<1>5. QED
  BY <1>3, <1>4

(***************************************************************************)
(* A datagram on its way to the server stays on it until the server has    *)
(* it; and one of c's that passes the test names c's user.                 *)
(***************************************************************************)
LEMMA UnderWayStep ==
  ASSUME IInv, [Next]_vars, NEW c \in Clients, loc'[c] = loc[c]
  PROVE  /\ UnderWay(c, TRUE) # {} =>
              UnderWay(c, TRUE)' # {} \/ <<Hearing(c, TRUE)>>_vars
         /\ Hearing(c, TRUE) => Got(c)'
<1>1. ASSUME NEW d \in UnderWay(c, TRUE)
      PROVE  /\ d \in net /\ d.to = ServerAddr
             /\ d.data.ver = Uid[c] /\ Accepts(d.data)
  BY <1>1, UpSeparation DEF UnderWay, At
<1>2. Hearing(c, TRUE) => Got(c)'
  <2> SUFFICES ASSUME NEW d \in UnderWay(c, TRUE), ServerSelectSock(d)
               PROVE  Got(c)'
    BY DEF Hearing, ServerHears
  <2>1. sdgram' = {d}
    BY DEF ServerSelectSock
  <2>2. QED
    BY <1>1, <2>1 DEF Got
<1>3. ASSUME NEW d \in UnderWay(c, TRUE), d \in net'
      PROVE  UnderWay(c, TRUE)' # {}
  BY <1>3 DEF UnderWay, At
<1>4. ASSUME NEW d \in UnderWay(c, TRUE), d \notin net'
      PROVE  <<Hearing(c, TRUE)>>_vars
  <2>1. d \in net /\ net' # net
    BY <1>1, <1>4
  <2>2. ~(net \subseteq net')
    BY <1>4, <2>1
  <2>3. CASE ServerActs
    <3>1. \A p \in ServerPackets : ~ServerTun(p)
      BY <2>2, SendAdds DEF ServerTun
    <3>2. PICK e \in net : ServerSelectSock(e)
      BY <2>1, <2>3, <3>1 DEF ServerActs, ServerStep, ServerTunFills,
           ServerSelectTun, ServerAccept, ServerReject, ServerSignal, ServerStart
    <3>3. d = e
      BY <1>4, <2>1, <3>2 DEF ServerSelectSock, Arrive
    <3>4. QED
      BY <2>1, <2>3, <3>2, <3>3 DEF Hearing, ServerHears, ServerActs, vars
  <2>4. CASE \E x \in Clients : ClientActs(x)
    <3>1. PICK x \in Clients : ClientActs(x)
      BY <2>4
    <3>2. \A p \in ClientPackets[x] : ~ClientTun(x, p)
      BY <2>2, SendAdds DEF ClientTun
    <3>3. PICK e \in net : ClientSelectSock(x, e)
      BY <2>1, <3>1, <3>2 DEF ClientActs, ClientStep, ClientSelectTun,
           ClientSock, ClientSignal, ClientStart, Move
    <3>4. d = e
      BY <1>4, <2>1, <3>3 DEF ClientSelectSock, Arrive
    <3>5. d.to = loc[x] /\ loc[x] \in Addr
      BY <3>3, <3>4 DEF ClientSelectSock, At, IInv, TypeOK, ClientTypeOK
    <3>6. QED
      BY <1>1, <3>5, AddressAssumption
  <2>5. CASE UNCHANGED vars
    BY <2>1, <2>5 DEF vars
  <2>6. QED
    BY <2>3, <2>4, <2>5 DEF Next
<1>5. QED
  BY <1>2, <1>3, <1>4

LEMMA SelectsAgainAndAgain ==
  ASSUME NEW c \in Clients
  PROVE  FairSpec /\ []CanHear(c) => (<>[]up => []<>InSelect)
<1> DEFINE S == sdgram # {}
           T == TunIsRead
<1>1. ASSUME IInv, [Next]_vars, up, up'
      PROVE  /\ InSelect \/ S \/ T
             /\ S => (S' /\ ~ServerTurns) \/ T' \/ InSelect'
             /\ T => (T' /\ ~ServerTurns) \/ InSelect'
  BY <1>1, HearingStep
<1>2. CanHear(c) => (up /\ ~InSelect => ENABLED <<ServerTurns>>_vars)
  BY DEF CanHear
<1>3. S \/ T => ~InSelect
  BY DEF InSelect, TunIsRead
<1> HIDE DEF S, T
<1>4. QED
  BY <1>1, <1>2, <1>3, FairServer, Invariance, PTL DEF Spec

(***************************************************************************)
(* No two clients are at one address, so only c sends from where c is.     *)
(***************************************************************************)
Apart == \A c, other \in Clients : loc[c] = loc[other] => c = other

LEMMA AlwaysApart == Spec => []Apart
<1>1. Init => Apart
  BY DEF Init, ClientInit, Injection, IsInjective, Apart
<1>2. IInv /\ Apart /\ [Next]_vars => Apart'
  <2> SUFFICES ASSUME IInv, Apart, [Next]_vars
               PROVE  Apart'
    OBVIOUS
  <2>1. loc \in [Clients -> Addr]
    BY DEF IInv, TypeOK, ClientTypeOK
  <2>2. ASSUME NEW x \in Clients, NEW a \in Addr, Move(x, a)
        PROVE  Apart'
    BY <2>1, <2>2 DEF Move, Apart
  <2>3. loc' = loc \/ \E x \in Clients : \E a \in Addr : Move(x, a)
    <3>1. CASE ServerActs \/ UNCHANGED vars
      BY <3>1 DEF ServerActs, vars, clientVars
    <3>2. CASE \E x \in Clients : ClientActs(x)
      BY <3>2 DEF ClientActs, ClientStep, ClientSelectSock, ClientSelectTun,
           ClientTun, ClientSock, ClientSignal, ClientStart
    <3>3. QED
      BY <3>1, <3>2 DEF Next
  <2>4. QED
    BY <2>2, <2>3 DEF Apart
<1>3. QED
  BY <1>1, <1>2, Invariance, PTL DEF Spec

(***************************************************************************)
(* What is under way from an address to the server fits into the network,  *)
(* and only who is there adds to it.                                       *)
(***************************************************************************)
From(a) == { d \in At(ServerAddr) : d.from = a }

Fits == FiniteTraffic /\ \A a \in Addr : Cardinality(From(a)) <= MaxNet

LEMMA FromChanges ==
  ASSUME IInv, Next, NEW a \in Addr
  PROVE  \/ From(a)' \subseteq From(a)
         \/ /\ \E x \in Clients : cread[x] /\ loc[x] = a
            /\ Cardinality(From(a)') <= MaxNet
<1> DEFINE Sent(x, p) == [from |-> loc[x], to |-> ServerAddr,
                          data |-> Encrypt(CliTable[x], p)]
<1>1. CASE net' \subseteq net
  BY <1>1 DEF From, At
<1>2. ASSUME NEW p \in ServerPackets, p.dst \in Users, addr[p.dst] # NoAddr,
             net' = net \cup {[from |-> ServerAddr, to |-> addr[p.dst],
                               data |-> Encrypt(SrvTable[p.dst], p)]}
      PROVE  From(a)' \subseteq From(a)
  BY <1>2, AddressAssumption DEF From, At, IInv, TypeOK, ServerTypeOK
<1>3. ASSUME NEW x \in Clients, NEW p \in ClientPackets[x], ClientTun(x, p)
      PROVE  \/ From(a)' \subseteq From(a)
             \/ cread[x] /\ loc[x] = a /\ Cardinality(From(a)') <= MaxNet
  <2> DEFINE d == Sent(x, p)
  <2>1. /\ cread[x]
        /\ \/ net' = net
           \/ /\ Cardinality({ e \in At(ServerAddr) : e.from = loc[x] } \cup {d})
                   <= MaxNet
              /\ net' = net \cup {d}
    BY <1>3 DEF ClientTun, Send
  <2>2. d.from = loc[x] /\ d.to = ServerAddr
    OBVIOUS
  <2> HIDE DEF d
  <2>3. CASE net' = net
    BY <2>3 DEF From, At
  <2>4. CASE net' = net \cup {d} /\ loc[x] # a
    BY <2>2, <2>4 DEF From, At
  <2>5. CASE net' = net \cup {d} /\ loc[x] = a
    <3>1. From(a)' = { e \in At(ServerAddr) : e.from = loc[x] } \cup {d}
      BY <2>2, <2>5 DEF From, At
    <3>2. CASE net' = net
      BY <2>3, <3>2
    <3>3. CASE net' # net
      BY <2>1, <2>5, <3>1, <3>3
    <3>4. QED
      BY <3>2, <3>3
  <2>6. QED
    BY <2>1, <2>3, <2>4, <2>5
<1>4. CASE \E x \in Clients : \E p \in ClientPackets[x] : ClientTun(x, p)
  BY <1>3, <1>4
<1>5. CASE ~\E x \in Clients : \E p \in ClientPackets[x] : ClientTun(x, p)
  <2>1. CASE ServerActs
    <3>1. ASSUME NEW p \in ServerPackets, ServerTun(p)
          PROVE  \/ net' = net
                 \/ /\ p.dst \in Users /\ addr[p.dst] # NoAddr
                    /\ net' = net \cup {[from |-> ServerAddr, to |-> addr[p.dst],
                                         data |-> Encrypt(SrvTable[p.dst], p)]}
      BY <3>1, SendAdds DEF ServerTun
    <3>2. CASE \E p \in ServerPackets : ServerTun(p)
      BY <1>1, <1>2, <3>1, <3>2
    <3>3. CASE ~\E p \in ServerPackets : ServerTun(p)
      <4>1. net' \subseteq net
        BY <2>1, <3>3 DEF ServerActs, ServerStep, ServerTunFills,
             ServerSelectSock, Arrive, ServerSelectTun, ServerAccept,
             ServerReject, ServerSignal, ServerStart
      <4>2. QED
        BY <1>1, <4>1
    <3>4. QED
      BY <3>2, <3>3
  <2>2. CASE \E x \in Clients : ClientActs(x)
    <3>1. net' \subseteq net
      BY <1>5, <2>2 DEF ClientActs, ClientStep, ClientSelectSock, Arrive,
           ClientSelectTun, ClientSock, ClientSignal, ClientStart, Move
    <3>2. QED
      BY <1>1, <3>1
  <2>3. QED
    BY <2>1, <2>2 DEF Next
<1>6. QED
  BY <1>4, <1>5

LEMMA FromIsFinite ==
  ASSUME FiniteTraffic, NEW a
  PROVE  IsFiniteSet(From(a)) /\ Cardinality(From(a)) \in Nat
<1>1. From(a) \subseteq net
  BY DEF From, At
<1>2. QED
  BY <1>1, FS_Subset, FS_CardinalityType DEF FiniteTraffic

LEMMA AlwaysFits == Spec => []Fits
<1>1. Init => \A a \in Addr : Cardinality(From(a)) <= MaxNet
  <2> SUFFICES ASSUME Init, NEW a \in Addr PROVE Cardinality(From(a)) <= MaxNet
    OBVIOUS
  <2>1. From(a) = {}
    BY DEF Init, From, At
  <2>2. QED
    BY <2>1, FS_EmptySet, BoundAssumption
<1> DEFINE R == \A a \in Addr : Cardinality(From(a)) <= MaxNet
<1>2. IInv /\ FiniteTraffic /\ R /\ [Next]_vars => R'
  <2> SUFFICES ASSUME IInv, FiniteTraffic, R, [Next]_vars, NEW a \in Addr
               PROVE  Cardinality(From(a)') <= MaxNet
    BY DEF From, At
  <2>1. Cardinality(From(a)) \in Nat /\ Cardinality(From(a)) <= MaxNet
    BY FromIsFinite
  <2>2. CASE From(a)' \subseteq From(a)
    <3>1. /\ Cardinality(From(a)') \in Nat
          /\ Cardinality(From(a)') <= Cardinality(From(a))
      BY <2>2, FromIsFinite, FS_Subset, FS_CardinalityType
    <3>2. QED
      BY <2>1, <3>1, BoundAssumption
  <2>3. CASE UNCHANGED vars
    <3>1. From(a)' = From(a)
      BY <2>3 DEF vars, From, At
    <3>2. QED
      BY <2>1, <3>1
  <2>4. QED
    BY <2>2, <2>3, FromChanges
<1> HIDE DEF R
<1>3. Init => R
  BY <1>1 DEF R
<1>4. Spec => [](FiniteTraffic /\ R)
  BY <1>2, <1>3, Invariance, AlwaysFinite, PTL DEF Spec
<1>5. FiniteTraffic /\ R <=> Fits
  BY DEF R, Fits
<1>6. QED
  BY <1>4, <1>5, PTL

(***************************************************************************)
(* Where there is room for what c sends there is room until c looks at its *)
(* tunnel, and what arrives from c makes room.                             *)
(***************************************************************************)
LEMMA RoomStep ==
  ASSUME IInv, Apart, Fits, [Next]_vars, NEW c \in Clients, loc'[c] = loc[c]
  PROVE  /\ ~Full(c) /\ ~cread[c] => ~Full(c)'
         /\ Hearing(c, FALSE) /\ ~MayDuplicate => ~Full(c)'
<1> DEFINE a == loc[c]
<1>0. a \in Addr
  BY DEF IInv, TypeOK, ClientTypeOK
<1>1. /\ Full(c) <=> Cardinality(From(a)) >= MaxNet
      /\ Full(c)' <=> Cardinality(From(a)') >= MaxNet
  BY DEF Full, From, At
<1>2. Cardinality(From(a)) \in Nat /\ IsFiniteSet(From(a)) /\ MaxNet \in Nat
  BY FromIsFinite, BoundAssumption DEF Fits
<1>3. ASSUME ~Full(c), ~cread[c]
      PROVE  ~Full(c)'
  <2>1. From(a)' \subseteq From(a)
    <3>1. CASE Next
      BY <1>0, <1>3, <3>1, FromChanges DEF Apart
    <3>2. CASE UNCHANGED vars
      BY <3>2 DEF vars, From, At
    <3>3. QED
      BY <3>1, <3>2
  <2>2. /\ Cardinality(From(a)') \in Nat
        /\ Cardinality(From(a)') <= Cardinality(From(a))
    BY <1>2, <2>1, FS_Subset, FS_CardinalityType
  <2> HIDE DEF a
  <2>3. QED
    BY <1>1, <1>2, <1>3, <2>2
<1>4. ASSUME Hearing(c, FALSE), ~MayDuplicate
      PROVE  ~Full(c)'
  <2>1. PICK d \in UnderWay(c, FALSE) : ServerSelectSock(d)
    BY <1>4 DEF Hearing, ServerHears
  <2>2. d \in From(a) /\ From(a)' = From(a) \ {d}
    <3>1. d \in net /\ d.to = ServerAddr /\ d.from = a
      BY <2>1 DEF UnderWay, At
    <3>2. net' = net \ {d}
      BY <1>4, <2>1 DEF ServerSelectSock, Arrive
    <3>3. From(a)' = { e \in net' : e.to = ServerAddr /\ e.from = a }
      BY DEF From, At
    <3> HIDE DEF a
    <3>4. QED
      BY <3>1, <3>2, <3>3 DEF From, At
  <2>3. Cardinality(From(a)') = Cardinality(From(a)) - 1
    <3>1. Cardinality(From(a) \ {d}) = Cardinality(From(a)) - 1
      <4> HIDE DEF a
      <4>1. QED
        BY <1>2, <2>2, FS_RemoveElement
    <3>2. QED
      BY <2>2, <3>1
  <2>4. Cardinality(From(a)) <= MaxNet
    BY <1>0 DEF Fits
  <2> HIDE DEF a
  <2>5. QED
    BY <1>1, <1>2, <2>3, <2>4
<1>5. QED
  BY <1>3, <1>4

(***************************************************************************)
(* So a client that runs and stays somewhere has something under way again *)
(* and again that the server will take, although it also sends what the    *)
(* server rejects and the network holds only so much.                      *)
(***************************************************************************)
LEMMA SendsAgainAndAgain ==
  ASSUME ~MayDuplicate, NEW c \in Clients, Rightful(c), NEW a \in Addr
  PROVE  FairSpec /\ []CanTalk(c) /\ []CanHear(c) =>
           (Settled(c, a) => []<>(UnderWay(c, TRUE) # {}))
<1> DEFINE O == UnderWay(c, TRUE) # {}
           C == cread[c]
           F == Full(c)
           R == on[c]
           L == loc[c] = a
           I == IInv /\ Apart /\ Fits
<1>1. I /\ [Next]_vars /\ L /\ L' =>
        /\ ~F /\ ~C => ~F'
        /\ Hearing(c, FALSE) => ~F'
  BY RoomStep
<1>2. I /\ [Next]_vars /\ Sending(c) => O'
  BY ClientTurnStep
<1>3. CanTalk(c) /\ CanHear(c) =>
        /\ R /\ C => F \/ ENABLED <<Sending(c)>>_vars
        /\ up /\ InSelect /\ ~O /\ F => ENABLED <<Hearing(c, FALSE)>>_vars
  BY DEF CanTalk, CanHear
<1>4. Spec => []I
  BY Invariance, AlwaysApart, AlwaysFits, PTL
<1>5. Settled(c, a) => <>[]up /\ <>[]R /\ <>[]L
  BY PTL DEF Settled
<1>6. FairSpec /\ []CanTalk(c) /\ <>[]R => []<>C
  BY TurnsAgainAndAgain, PTL
<1>7. FairSpec /\ []CanHear(c) /\ <>[]up => []<>InSelect
  BY SelectsAgainAndAgain
<1> HIDE DEF O, C, F, R, L, I
<1>8. FairSpec /\ []CanTalk(c) /\ []CanHear(c) => (Settled(c, a) => []<>O)
  BY <1>1, <1>2, <1>3, <1>4, <1>5, <1>6, <1>7, FairClient, PTL DEF Spec
<1>9. QED
  BY <1>8 DEF O

(***************************************************************************)
(* The server hears a client that runs and stays somewhere again and       *)
(* again, whatever else comes: what it rejects ends the turn before the    *)
(* tunnel's branch, not before the next select (svpn_server.c:189-205).    *)
(***************************************************************************)
THEOREM HearsAgainAndAgain ==
  ASSUME ~MayDuplicate, NEW c \in Clients, Rightful(c), NEW a \in Addr
  PROVE  FairSpec /\ []CanTalk(c) /\ []CanHear(c) =>
           (Settled(c, a) => []<><<Hears(c)>>_vars)
<1> DEFINE O == UnderWay(c, TRUE) # {}
           S == sdgram # {}
           G == Got(c)
           L == loc[c] = a
<1>1. ASSUME IInv, [Next]_vars, up, up'
      PROVE  /\ InSelect \/ S \/ TunIsRead
             /\ S => (S' /\ ~ServerTurns) \/ TunIsRead' \/ InSelect'
             /\ TunIsRead => (TunIsRead' /\ ~ServerTurns) \/ InSelect'
             /\ G => ~InSelect
             /\ G => (G' /\ ~ServerTurns) \/ <<Hears(c)>>_vars
  BY <1>1, HearingStep
<1>2. IInv /\ [Next]_vars /\ L /\ L' =>
        /\ O => O' \/ <<Hearing(c, TRUE)>>_vars
        /\ Hearing(c, TRUE) => G'
  BY UnderWayStep
<1>3. CanHear(c) => /\ up /\ ~InSelect => ENABLED <<ServerTurns>>_vars
                    /\ up /\ InSelect /\ O => ENABLED <<Hearing(c, TRUE)>>_vars
  BY DEF CanHear
<1>4. FairSpec /\ []CanTalk(c) /\ []CanHear(c) => (Settled(c, a) => []<>O)
  BY SendsAgainAndAgain
<1>5. FairSpec /\ []CanHear(c) => (<>[]up => []<>InSelect)
  BY SelectsAgainAndAgain
<1>6. Settled(c, a) => <>[]up /\ <>[]L
  BY PTL DEF Settled
<1> HIDE DEF O, S, G, L
<1>7. FairSpec /\ []CanHear(c) /\ []<>O =>
        (<>[]up /\ <>[]L => []<><<Hears(c)>>_vars)
  BY <1>1, <1>2, <1>3, <1>5, FairServer, FairClient, Invariance, PTL DEF Spec
<1>8. QED
  BY <1>4, <1>6, <1>7, PTL

(***************************************************************************)
(* So the server comes to know where a device stays, and keeps it.  Its    *)
(* last step is an induction in the behaviour, which the provers cannot    *)
(* make: that Ahead(c), once it no longer grows, falls only so often.      *)
(* FallsFinitely says this and holds of every behaviour there is, whatever *)
(* the program does: it is true of any natural number that changes.        *)
(***************************************************************************)
FallsFinitely(c) ==
  [](Ahead(c) \in Nat) /\ <>[][Ahead(c)' <= Ahead(c)]_vars
    => <>[][Ahead(c)' = Ahead(c)]_vars

LEMMA StopsMishearing ==
  ASSUME ~MayDuplicate, NEW c \in Clients, Alone(c), NEW a \in Addr
  PROVE  Spec /\ FallsFinitely(c) =>
           (Settled(c, a) => <>[][~Mishears(c)]_vars)
<1> DEFINE L == loc[c] = a
           Less == Ahead(c)' <= Ahead(c)
           Same == Ahead(c)' = Ahead(c)
           Natural == Ahead(c) \in Nat
           I == IInv /\ FiniteTraffic
<1>1. I /\ [Next]_vars /\ L /\ L' => [Less]_vars
  BY AheadFalls
<1>2. I /\ [Next]_vars /\ L /\ L' /\ [Same]_vars => [~Mishears(c)]_vars
  BY AheadFalls
<1>3. Spec => []Natural
  <2>1. AheadIsNatural => Natural
    BY DEF AheadIsNatural
  <2> HIDE DEF Natural
  <2>2. QED
    BY <2>1, MishearsFinitely, PTL
<1>4. Spec => []I
  BY Invariance, AlwaysFinite, PTL
<1>5. Settled(c, a) => <>[]L
  BY PTL DEF Settled
<1>6. FallsFinitely(c) <=> ([]Natural /\ <>[][Less]_vars => <>[][Same]_vars)
  BY DEF FallsFinitely
<1> HIDE DEF L, Less, Same, Natural, I
<1>7. QED
  BY <1>1, <1>2, <1>3, <1>4, <1>5, <1>6, PTL DEF Spec

(***************************************************************************)
(* The server comes to know the address where a user's only device stays,  *)
(* and keeps it, with any numbers of users, clients and addresses, if      *)
(* nothing comes twice.                                                    *)
(***************************************************************************)
THEOREM AlwaysConverges ==
  ASSUME ~MayDuplicate
  PROVE  /\ FairSpec /\ []NeverStuck
         /\ \A c \in Clients : FallsFinitely(c)
         => Converges
<1>1. ASSUME NEW c \in Clients, NEW a \in Addr, Alone(c)
      PROVE  FairSpec /\ []NeverStuck /\ FallsFinitely(c) =>
               (Settled(c, a) => <>[](addr[Uid[c]] = a))
  <2> DEFINE known == addr[Uid[c]] = a
  <2>1. Rightful(c)
    BY <1>1 DEF Alone
  <2>2. NeverStuck => CanTalk(c) /\ CanHear(c)
    BY <2>1 DEF NeverStuck
  <2>3. FairSpec /\ []CanTalk(c) /\ []CanHear(c) =>
          (Settled(c, a) => []<><<Hears(c)>>_vars)
    BY <2>1, HearsAgainAndAgain
  <2>4. Spec => (/\ Settled(c, a)
                 /\ []<><<Hears(c)>>_vars
                 /\ <>[][~Mishears(c)]_vars
                 => <>[]known)
    BY <1>1, ConvergesIfHeard
  <2>5. FairSpec => Spec
    BY FairClients
  <2>6. Spec /\ FallsFinitely(c) =>
          (Settled(c, a) => <>[][~Mishears(c)]_vars)
    BY <1>1, StopsMishearing
  <2> HIDE DEF known
  <2>7. FairSpec /\ []NeverStuck /\ FallsFinitely(c) =>
          (Settled(c, a) => <>[]known)
    BY <2>2, <2>3, <2>4, <2>5, <2>6, PTL
  <2>8. QED
    BY <2>7 DEF known
<1>2. QED
  BY <1>1 DEF Converges

-----------------------------------------------------------------------------
(***************************************************************************)
(* And a server that has the address reaches the device: nobody else is    *)
(* there to take what is on its way to it.                                 *)
(***************************************************************************)

(***************************************************************************)
(* What is on its way to where c stays goes to c.                          *)
(***************************************************************************)
LEMMA ArrivalStep ==
  ASSUME IInv, Apart, [Next]_vars, NEW c \in Clients, loc'[c] = loc[c]
  PROVE  At(loc[c]) # {} => At(loc[c])' # {} \/ cdgram'[c] # {}
<1> SUFFICES ASSUME NEW d \in net, d.to = loc[c], d \notin net'
             PROVE  cdgram'[c] # {}
  BY DEF At
<1>0. /\ loc[c] \in Addr /\ net' # net /\ ~(net \subseteq net')
      /\ cdgram \in [Clients -> SUBSET Datagram]
  BY DEF IInv, TypeOK, ClientTypeOK
<1>1. CASE ServerActs
  <2>1. \A p \in ServerPackets : ~ServerTun(p)
    BY <1>0, SendAdds DEF ServerTun
  <2>2. PICK e \in net : ServerSelectSock(e)
    BY <1>0, <1>1, <2>1 DEF ServerActs, ServerStep, ServerTunFills,
         ServerSelectTun, ServerAccept, ServerReject, ServerSignal, ServerStart
  <2>3. d = e
    BY <1>0, <2>2 DEF ServerSelectSock, Arrive
  <2>4. d.to = ServerAddr
    BY <2>2, <2>3 DEF ServerSelectSock, At
  <2>5. QED
    BY <1>0, <2>4, AddressAssumption
<1>2. CASE \E x \in Clients : ClientActs(x)
  <2>1. PICK x \in Clients : ClientActs(x)
    BY <1>2
  <2>2. \A p \in ClientPackets[x] : ~ClientTun(x, p)
    BY <1>0, SendAdds DEF ClientTun
  <2>3. PICK e \in net : ClientSelectSock(x, e)
    BY <1>0, <2>1, <2>2 DEF ClientActs, ClientStep, ClientSelectTun,
         ClientSock, ClientSignal, ClientStart, Move
  <2>4. d = e
    BY <1>0, <2>3 DEF ClientSelectSock, Arrive
  <2>5. loc[x] = loc[c]
    BY <2>3, <2>4 DEF ClientSelectSock, At
  <2>6. x = c
    BY <2>5 DEF Apart
  <2>7. QED
    BY <1>0, <2>3, <2>6 DEF ClientSelectSock
<1>3. CASE UNCHANGED vars
  BY <1>0, <1>3 DEF vars
<1>4. QED
  BY <1>1, <1>2, <1>3 DEF Next

TellingIsFair(u) == SF_vars(Telling(u))

LEMMA FairTelling == FairSpec => Spec /\ \A u \in Users : TellingIsFair(u)
BY PTL DEF FairSpec, ServerFairness, TellingIsFair

(***************************************************************************)
(* A device whose address the server has hears from it again and again.    *)
(***************************************************************************)
LEMMA ReachesWhatItKnows ==
  ASSUME NEW c \in Clients, NEW a \in Addr, Alone(c)
  PROVE  FairSpec /\ []NeverStuck =>
           (/\ Settled(c, a)
            /\ Undisturbed
            /\ <>[](addr[Uid[c]] = a)
            => []<>(cdgram[c] # {}))
<1> DEFINE known == addr[Uid[c]] = a
           K == addr[Uid[c]] = loc[c]
           L == loc[c] = a
           M == At(loc[c]) # {}
           X == cdgram[c] # {}
           W == Waits(c)
           R == on[c]
           J == IInv /\ Apart
<1>1. Rightful(c) /\ Uid[c] \in Users
  BY DEF Alone, Rightful
<1>2. FairSpec => /\ Spec
                  /\ SF_vars(Telling(Uid[c]))
                  /\ SF_vars(Receiving(c))
  <2>1. FairSpec => Spec /\ TellingIsFair(Uid[c])
    BY <1>1, FairTelling
  <2>2. TellingIsFair(Uid[c]) => SF_vars(Telling(Uid[c]))
    BY PTL DEF TellingIsFair
  <2>3. QED
    BY <1>1, <2>1, <2>2, FairClient, PTL
<1>3. NeverStuck =>
        /\ CanServe /\ CanTalk(c)
        /\ up /\ TunIsRead /\ K => M \/ ENABLED <<Telling(Uid[c])>>_vars
        /\ R /\ W /\ M => ENABLED <<Receiving(c)>>_vars
  BY <1>1 DEF NeverStuck, CanReach
<1>4. J /\ [Next]_vars /\ L /\ L' => (M => M' \/ X')
  BY ArrivalStep
<1>5. J /\ [Next]_vars /\ L /\ L' /\ K /\ Telling(Uid[c]) => M'
  BY DEF Telling, ServerSends, At
<1>6. J /\ [Next]_vars /\ Receiving(c) => X'
  BY ClientTurnStep
<1>7. L /\ known => K
  OBVIOUS
<1>8. FairSpec /\ []CanServe => (<>[]up /\ Undisturbed => []<>TunIsRead)
  BY TunAgainAndAgain
<1>9. FairSpec /\ []CanTalk(c) /\ <>[]R => []<>W
  BY <1>1, TurnsAgainAndAgain, PTL
<1>10. Settled(c, a) => <>[]up /\ <>[]R /\ <>[]L
  BY PTL DEF Settled
<1>11. Spec => []J
  BY Invariance, AlwaysApart, PTL
<1> HIDE DEF known, K, L, M, X, W, R, J
<1>12. FairSpec /\ []NeverStuck =>
         (Settled(c, a) /\ Undisturbed /\ <>[]known => []<>X)
  BY <1>2, <1>3, <1>4, <1>5, <1>6, <1>7, <1>8, <1>9, <1>10, <1>11, PTL DEF Spec
<1>13. QED
  BY <1>12 DEF known, X

(***************************************************************************)
(* A user's only device that stays somewhere hears from the server again   *)
(* and again, with any numbers of users, clients and addresses: the server *)
(* comes to know where it is, and what it sends there goes to it.          *)
(***************************************************************************)
THEOREM AlwaysReaches ==
  ASSUME ~MayDuplicate
  PROVE  /\ FairSpec /\ []NeverStuck
         /\ \A c \in Clients : FallsFinitely(c)
         => Reaches
<1>1. ASSUME NEW c \in Clients, NEW a \in Addr, Alone(c)
      PROVE  FairSpec /\ []NeverStuck /\ Converges =>
               (Settled(c, a) /\ Undisturbed => []<>(cdgram[c] # {}))
  <2>1. Converges => (Settled(c, a) => <>[](addr[Uid[c]] = a))
    BY <1>1 DEF Converges
  <2>2. QED
    BY <1>1, <2>1, ReachesWhatItKnows
<1>2. QED
  BY <1>1, AlwaysConverges DEF Reaches
=============================================================================
