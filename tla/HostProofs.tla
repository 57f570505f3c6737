----------------------------- MODULE HostProofs -----------------------------
(***************************************************************************)
(* What the programs of one host set up stays set up, for any number of    *)
(* servers, clients, other programs and devices, and whatever addresses    *)
(* and ports they have.                                                    *)
(***************************************************************************)
EXTENDS Host, WellFoundedInduction, TLAPS

HasPort == {"tun", "up", "mtu", "addr", "users", "loop"}
HasTun == HasPort \ {"tun"}

(***************************************************************************)
(* Who has come past bind holds its port.                                  *)
(***************************************************************************)
Bound == \A p \in Servers \cup Clients : pc[p] \in HasPort => bound[Port[p]] = p

(***************************************************************************)
(* A server that has come past TUNSETIFF holds a device.                   *)
(***************************************************************************)
Holds == \A p \in Servers : pc[p] \in HasTun => Held(p) # {}

(***************************************************************************)
(* What the commands of a server that have worked have set on its device;  *)
(* if it is tun0 a client may have changed the address.                    *)
(***************************************************************************)
ServerSet ==
  \A p \in Servers, d \in Device : owner[d] = p =>
    LET done == pc[p] \in {"users", "loop"} /\ tunfd[p] = "device"
    IN  /\ pc[p] \in {"mtu", "addr"} \/ done => conf[d].up
        /\ pc[p] = "addr" \/ done => conf[d].mtu
        /\ done => \/ conf[d].addr = Own[p]
                   \/ d = 0 /\ \E c \in Clients : conf[d].addr = Own[c]

(***************************************************************************)
(* What those of a client that has tun0 have set on it.                    *)
(***************************************************************************)
ClientSet ==
  \A p \in Clients \ failed : owner[0] = p =>
    /\ pc[p] \in {"addr", "mtu", "loop"} => conf[0].up
    /\ pc[p] \in {"mtu", "loop"} => conf[0].addr = Own[p]
    /\ pc[p] = "loop" => conf[0].mtu

IInv == TypeOK /\ Bound /\ Holds /\ ServerSet /\ ClientSet
-----------------------------------------------------------------------------
(***************************************************************************)
(* A set of naturals that is not empty contains its minimum.               *)
(***************************************************************************)
LEMMA MinIsIn ==
  ASSUME NEW S \in SUBSET Nat, S # {}
  PROVE  Min(S) \in S /\ \A n \in S : Min(S) <= n
<1>1. PICK m \in S : \A n \in S : <<n, m>> \notin OpToRel(<, Nat)
  BY WFMin, NatLessThanWellFounded, Zenon
<1>2. \A n \in S : ~(n < m)
  BY <1>1 DEF OpToRel
<1>3. \A n \in S : m <= n
  BY <1>2
<1>4. QED
  BY <1>3 DEF Min

Conf == [up : BOOLEAN, mtu : BOOLEAN, addr : Addresses \cup {Nobody}]

(***************************************************************************)
(* The commands in the order in which a server gives them, and a client.   *)
(***************************************************************************)
LEMMA Orders ==
  /\ DOMAIN ServerAfter = {"up", "mtu", "addr"}
  /\ ServerAfter["up"] = "mtu" /\ ServerAfter["mtu"] = "addr"
  /\ ServerAfter["addr"] = "users"
  /\ DOMAIN ClientAfter = {"up", "addr", "mtu"}
  /\ ClientAfter["up"] = "addr" /\ ClientAfter["addr"] = "mtu"
  /\ ClientAfter["mtu"] = "loop"
BY DEF ServerAfter, ClientAfter

(***************************************************************************)
(* What a command does: it never takes a device down, and the address is   *)
(* that of who gives it or stays what it was.                              *)
(***************************************************************************)
LEMMA SetConf ==
  ASSUME NEW c \in Conf, NEW p \in Procs, NEW command \in {"up", "mtu", "addr"}
  PROVE  /\ Set(c, command, p) \in Conf
         /\ Set(c, command, p).up <=> (c.up \/ command \in {"up", "addr"})
         /\ Set(c, command, p).mtu <=> (c.mtu \/ command = "mtu")
         /\ Set(c, command, p).addr =
              IF command = "addr" THEN Own[p] ELSE c.addr
<1>1. CASE command = "up"
  BY <1>1 DEF Set, Conf
<1>2. CASE command = "mtu"
  BY <1>2 DEF Set, Conf
<1>3. CASE command = "addr"
  BY <1>3 DEF Set, Conf, Addresses
<1>4. QED
  BY <1>1, <1>2, <1>3

(***************************************************************************)
(* The first free device is one that nobody has.                           *)
(***************************************************************************)
LEMMA FirstFree ==
  ASSUME Held(Nobody) # {}
  PROVE  /\ Min(Held(Nobody)) \in Device
         /\ owner[Min(Held(Nobody))] = Nobody
<1>1. Held(Nobody) \in SUBSET Nat
  BY DevicesAssumption DEF Held, Device
<1>2. QED
  BY <1>1, MinIsIn DEF Held

LEMMA InitEstablishes == Init => IInv
<1> SUFFICES ASSUME Init
             PROVE  IInv
  OBVIOUS
<1>1. TypeOK
  BY DEF Init, TypeOK, Fresh
<1>2. Bound /\ Holds
  <2>1. \A p \in Procs : pc[p] = "exited"
    BY DEF Init
  <2>2. QED
    BY <2>1 DEF Bound, Holds, HasPort, HasTun, Procs
<1>3. ServerSet /\ ClientSet
  <2>1. \A p \in Procs, d \in Device : owner[d] # p
    BY NobodyAssumption DEF Init
  <2>2. 0 \in Device
    BY DevicesAssumption DEF Device
  <2>3. QED
    BY <2>1, <2>2 DEF ServerSet, ClientSet, Procs
<1>4. QED
  BY <1>1, <1>2, <1>3 DEF IInv

-----------------------------------------------------------------------------
(***************************************************************************)
(* A step to a place where no property says anything of the process more   *)
(* than before.                                                            *)
(***************************************************************************)
LEMMA StartKeeps ==
  ASSUME IInv, NEW p \in Servers \cup Clients, Start(p)
  PROVE  IInv'
<1>1. TypeOK /\ Bound /\ Holds /\ ServerSet /\ ClientSet
  BY DEF IInv
<1>2. \A q \in Procs : pc'[q] = IF q = p THEN "socket" ELSE pc[q]
  BY <1>1 DEF Start, Goes, TypeOK
<1>3. TypeOK'
  BY <1>1 DEF Start, Goes, TypeOK
<1>4. Bound'
  BY <1>1, <1>2 DEF Start, Bound, HasPort, Procs
<1>5. Holds'
  BY <1>1, <1>2 DEF Start, Holds, Held, HasTun, HasPort, Procs
<1>6. ServerSet'
  BY <1>1, <1>2 DEF Start, ServerSet, Procs
<1>7. ClientSet'
  BY <1>1, <1>2 DEF Start, ClientSet, Procs
<1>8. QED
  BY <1>3, <1>4, <1>5, <1>6, <1>7 DEF IInv

LEMMA BindKeeps ==
  ASSUME IInv, NEW p \in Servers \cup Clients, BindPort(p)
  PROVE  IInv'
<1>1. TypeOK /\ Bound /\ Holds /\ ServerSet /\ ClientSet
  BY DEF IInv
<1>2. \A q \in Procs : pc'[q] = IF q = p THEN "tun" ELSE pc[q]
  BY <1>1 DEF BindPort, Goes, TypeOK
<1>3. \A n \in Ports : bound'[n] = IF n = Port[p] THEN p ELSE bound[n]
  BY <1>1 DEF BindPort, TypeOK
<1>4. TypeOK'
  BY <1>1 DEF BindPort, Goes, TypeOK, Procs
<1>5. Bound'
  <2> SUFFICES ASSUME NEW q \in Servers \cup Clients, pc'[q] \in HasPort
               PROVE  bound'[Port[q]] = q
    BY DEF Bound
  <2>1. Port[q] \in Ports /\ q \in Procs
    BY DEF Ports, Procs
  <2>2. CASE q = p
    BY <1>3, <2>1, <2>2
  <2>3. CASE q # p
    <3>1. bound[Port[q]] = q
      BY <1>1, <1>2, <2>1, <2>3 DEF Bound
    <3>2. Port[q] # Port[p]
      BY <2>1, <3>1, NobodyAssumption DEF BindPort
    <3>3. QED
      BY <1>3, <2>1, <3>1, <3>2
  <2>4. QED
    BY <2>2, <2>3
<1>6. Holds'
  BY <1>1, <1>2 DEF BindPort, Holds, Held, HasTun, HasPort, Procs
<1>7. ServerSet'
  BY <1>1, <1>2 DEF BindPort, ServerSet, Procs
<1>8. ClientSet'
  BY <1>1, <1>2 DEF BindPort, ClientSet, Procs
<1>9. QED
  BY <1>4, <1>5, <1>6, <1>7, <1>8 DEF IInv

LEMMA OpenKeeps ==
  ASSUME IInv, NEW p \in Servers \cup Clients, GetsDevice(p),
         tunfd' \in [Procs -> {"none", "device", "status"}],
         \A q \in Procs \ {p} : tunfd'[q] = tunfd[q]
  PROVE  IInv'
<1> DEFINE free == Min(Held(Nobody))
<1>1. TypeOK /\ Bound /\ Holds /\ ServerSet /\ ClientSet /\ p \in Procs
  BY DEF IInv, Procs
<1>2. free \in Device /\ owner[free] = Nobody
  BY FirstFree DEF GetsDevice
<1> HIDE DEF free
<1>3. \A q \in Procs : pc'[q] = IF q = p THEN "up" ELSE pc[q]
  BY <1>1 DEF GetsDevice, Goes, TypeOK
<1>4. \A d \in Device : owner'[d] = IF d = free THEN p ELSE owner[d]
  BY <1>1 DEF GetsDevice, TypeOK, free
<1>5. TypeOK'
  <2>1. owner' \in [Device -> Procs \cup {Nobody}]
    BY <1>1 DEF GetsDevice, TypeOK
  <2>2. pc' \in [Procs -> {"exited", "socket", "tun", "up", "mtu", "addr",
                           "users", "loop"}]
    BY <1>1 DEF GetsDevice, Goes, TypeOK
  <2>3. \A d \in Device : owner'[d] = Nobody => conf[d] = Fresh
    BY <1>1, <1>4, NobodyAssumption DEF TypeOK
  <2>4. QED
    BY <1>1, <2>1, <2>2, <2>3 DEF GetsDevice, TypeOK
<1>6. Bound'
  <2>1. pc[p] = "tun"
    BY DEF GetsDevice
  <2>2. QED
    BY <1>1, <1>3, <2>1 DEF GetsDevice, Bound, HasPort, Procs
<1>7. Holds'
  <2> SUFFICES ASSUME NEW q \in Servers, pc'[q] \in HasTun
               PROVE  \E d \in Device : owner'[d] = q
    BY DEF Holds, Held
  <2>1. CASE q = p
    BY <1>2, <1>4, <2>1
  <2>2. CASE q # p
    <3>1. PICK d \in Device : owner[d] = q
      BY <1>1, <1>3, <2>2 DEF Holds, Held, Procs
    <3>2. d # free
      BY <1>1, <1>2, <3>1, NobodyAssumption DEF Procs
    <3>3. QED
      BY <1>4, <3>1, <3>2
  <2>3. QED
    BY <2>1, <2>2
<1>8. ServerSet'
  <2>1. \A q \in Servers, d \in Device :
          owner'[d] = q => q = p \/ owner[d] = q
    BY <1>4
  <2>2. QED
    BY <1>1, <1>3, <2>1 DEF GetsDevice, ServerSet, Procs
<1>9. ClientSet'
  <2>1. 0 \in Device
    BY DevicesAssumption DEF Device
  <2>2. QED
    BY <1>1, <1>3, <1>4, <2>1 DEF GetsDevice, ClientSet, Procs
<1>10. QED
  BY <1>5, <1>6, <1>7, <1>8, <1>9 DEF IInv

LEMMA ServerCommandKeeps ==
  ASSUME IInv, NEW p \in Servers, ServerCommand(p)
  PROVE  IInv'
<1>1. /\ TypeOK /\ Bound /\ Holds /\ ServerSet /\ ClientSet
      /\ p \in Procs /\ p # Nobody
      /\ pc[p] \in {"up", "mtu", "addr"}
  BY Orders, NobodyAssumption DEF IInv, Procs, ServerCommand
<1>2. \A q \in Procs : pc'[q] = IF q = p THEN ServerAfter[pc[p]] ELSE pc[q]
  BY <1>1 DEF ServerCommand, Goes, TypeOK
<1>3. ServerAfter[pc[p]] =
        IF pc[p] = "up" THEN "mtu" ELSE IF pc[p] = "mtu" THEN "addr" ELSE "users"
  BY <1>1, Orders
<1>4. \A q \in Procs :
        tunfd'[q] = IF q = p /\ pc[p] = "addr" THEN "device" ELSE tunfd[q]
  BY <1>1 DEF ServerCommand, TypeOK
<1>5. ASSUME NEW d \in Device
      PROVE  /\ conf'[d] \in Conf
             /\ owner[d] # p => conf'[d] = conf[d]
             /\ owner[d] = p =>
                  /\ conf'[d].up
                       <=> (conf[d].up \/ pc[p] \in {"up", "addr"})
                  /\ conf'[d].mtu <=> (conf[d].mtu \/ pc[p] = "mtu")
                  /\ conf'[d].addr =
                       IF pc[p] = "addr" THEN Own[p] ELSE conf[d].addr
  <2>1. conf[d] \in Conf
    BY <1>1 DEF TypeOK, Conf
  <2>2. conf'[d] = IF owner[d] = p THEN Set(conf[d], pc[p], p) ELSE conf[d]
    BY DEF ServerCommand, Held
  <2>3. CASE owner[d] = p
    <3>1. conf'[d] = Set(conf[d], pc[p], p)
      BY <2>2, <2>3
    <3>2. QED
      <4> DEFINE c == conf[d]
                 command == pc[p]
      <4>1. c \in Conf /\ p \in Procs /\ command \in {"up", "mtu", "addr"}
        BY <1>1, <2>1, Orders DEF ServerCommand, Procs
      <4>2. conf'[d] = Set(c, command, p)
        BY <3>1
      <4> HIDE DEF c, command
      <4>3. /\ conf'[d] \in Conf
            /\ conf'[d].up <=> (c.up \/ command \in {"up", "addr"})
            /\ conf'[d].mtu <=> (c.mtu \/ command = "mtu")
            /\ conf'[d].addr = IF command = "addr" THEN Own[p] ELSE c.addr
        BY <4>1, <4>2, SetConf
      <4>4. QED
        BY <2>3, <4>3 DEF c, command
  <2>4. CASE owner[d] # p
    BY <2>1, <2>2, <2>4
  <2>5. QED
    BY <2>3, <2>4
<1>6. TypeOK'
  <2>1. pc' \in [Procs -> {"exited", "socket", "tun", "up", "mtu", "addr",
                           "users", "loop"}]
    BY <1>1, <1>3 DEF ServerCommand, Goes, TypeOK
  <2>2. conf' \in [Device -> Conf]
    BY <1>5 DEF ServerCommand
  <2>3. \A d \in Device : owner[d] = Nobody => conf'[d] = Fresh
    BY <1>1, <1>5 DEF TypeOK
  <2>4. tunfd' \in [Procs -> {"none", "device", "status"}]
    BY <1>1 DEF ServerCommand, TypeOK
  <2>5. QED
    BY <1>1, <2>1, <2>2, <2>3, <2>4 DEF ServerCommand, TypeOK, Conf
<1>7. Bound'
  BY <1>1, <1>2 DEF ServerCommand, Bound, HasPort, Procs
<1>8. Holds'
  BY <1>1, <1>2 DEF ServerCommand, Holds, Held, HasTun, HasPort, Procs
<1>9. ServerSet'
  <2> SUFFICES ASSUME NEW q \in Servers, NEW d \in Device, owner[d] = q
               PROVE  LET done == pc'[q] \in {"users", "loop"}
                                    /\ tunfd'[q] = "device"
                      IN  /\ pc'[q] \in {"mtu", "addr"} \/ done => conf'[d].up
                          /\ pc'[q] = "addr" \/ done => conf'[d].mtu
                          /\ done => \/ conf'[d].addr = Own[q]
                                     \/ /\ d = 0
                                        /\ \E c \in Clients :
                                             conf'[d].addr = Own[c]
    BY DEF ServerSet, ServerCommand
  <2>1. q \in Procs
    BY DEF Procs
  <2>2. CASE q = p
    BY <1>1, <1>2, <1>3, <1>4, <1>5, <2>1, <2>2 DEF ServerSet
  <2>3. CASE q # p
    BY <1>1, <1>2, <1>4, <1>5, <2>1, <2>3 DEF ServerSet
  <2>4. QED
    BY <2>2, <2>3
<1>10. ClientSet'
  <2> SUFFICES ASSUME NEW q \in Clients \ failed, owner[0] = q
               PROVE  /\ pc'[q] \in {"addr", "mtu", "loop"} => conf'[0].up
                      /\ pc'[q] \in {"mtu", "loop"} => conf'[0].addr = Own[q]
                      /\ pc'[q] = "loop" => conf'[0].mtu
    BY DEF ClientSet, ServerCommand
  <2>1. 0 \in Device
    BY DevicesAssumption DEF Device
  <2>2. q # p /\ q \in Procs
    BY KindAssumption DEF Procs
  <2>3. conf'[0] = conf[0] /\ pc'[q] = pc[q]
    BY <1>2, <1>5, <2>1, <2>2
  <2>4. QED
    BY <1>1, <2>3 DEF ClientSet
<1>11. QED
  BY <1>6, <1>7, <1>8, <1>9, <1>10 DEF IInv

(***************************************************************************)
(* A server whose command has failed claims nothing of its device.         *)
(***************************************************************************)
LEMMA ServerGoesOnKeeps ==
  ASSUME IInv, NEW p \in Servers, ServerCommandFails(p) \/ ReadUsers(p)
  PROVE  IInv'
<1>1. /\ TypeOK /\ Bound /\ Holds /\ ServerSet /\ ClientSet
      /\ p \in Procs /\ p \notin Clients
      /\ pc[p] \in {"up", "mtu", "addr", "users"}
  BY Orders, KindAssumption
     DEF IInv, Procs, ServerCommandFails, ReadUsers
<1>2. /\ \E step \in {"users", "loop"} : pc' = [pc EXCEPT ![p] = step]
      /\ \/ tunfd' = [tunfd EXCEPT ![p] = "status"]
         \/ pc[p] = "users" /\ tunfd' = tunfd
      /\ UNCHANGED <<bound, owner, conf, failed>>
  BY DEF ServerCommandFails, ReadUsers, Goes
<1>3. /\ \A q \in Procs \ {p} : pc'[q] = pc[q] /\ tunfd'[q] = tunfd[q]
      /\ pc'[p] \in {"users", "loop"}
      /\ tunfd'[p] = "device" => pc[p] = "users" /\ tunfd[p] = "device"
  BY <1>1, <1>2 DEF TypeOK
<1>4. TypeOK'
  BY <1>1, <1>2 DEF TypeOK
<1>5. Bound'
  BY <1>1, <1>2, <1>3 DEF Bound, HasPort, Procs
<1>6. Holds'
  BY <1>1, <1>2, <1>3 DEF Holds, Held, HasTun, HasPort, Procs
<1>7. ServerSet'
  BY <1>1, <1>2, <1>3 DEF ServerSet, Procs
<1>8. ClientSet'
  BY <1>1, <1>2, <1>3 DEF ClientSet, Procs
<1>9. QED
  BY <1>4, <1>5, <1>6, <1>7, <1>8 DEF IInv

(***************************************************************************)
(* The client that gives a command is the only one that far, so what it    *)
(* sets on tun0 is its own or a server's.                                  *)
(***************************************************************************)
LEMMA ClientCommandKeeps ==
  ASSUME IInv, NEW p \in Clients, ClientCommand(p)
  PROVE  IInv'
<1>1. /\ TypeOK /\ Bound /\ Holds /\ ServerSet /\ ClientSet
      /\ p \in Procs /\ p \notin Servers
      /\ pc[p] \in {"up", "mtu", "addr"}
      /\ 0 \in Device
  BY Orders, KindAssumption, DevicesAssumption
     DEF IInv, Procs, ClientCommand, Device
<1>2. \A q \in Procs : pc'[q] = IF q = p THEN ClientAfter[pc[p]] ELSE pc[q]
  BY <1>1 DEF ClientCommand, Goes, TypeOK
<1>3. ClientAfter[pc[p]] =
        IF pc[p] = "up" THEN "addr" ELSE IF pc[p] = "addr" THEN "mtu" ELSE "loop"
  BY <1>1, Orders
<1>4. ASSUME NEW q \in Clients, pc[q] \in HasPort
      PROVE  q = p
  <2>1. pc[p] \in HasPort
    BY <1>1 DEF HasPort
  <2>2. bound[Port[p]] = p /\ bound[Port[q]] = q
    BY <1>1, <1>4, <2>1 DEF Bound
  <2>3. QED
    BY <2>2, ClientPortAssumption
<1>5. conf[0] \in Conf /\ conf \in [Device -> Conf]
  BY <1>1 DEF TypeOK, Conf
<1>6. \/ /\ owner[0] # Nobody
         /\ conf' = [conf EXCEPT ![0] = Set(conf[0], pc[p], p)]
         /\ failed' = failed
      \/ conf' = conf /\ failed' = failed \cup {p}
  BY DEF ClientCommand
<1>7. /\ conf' \in [Device -> Conf]
      /\ \A d \in Device : d # 0 => conf'[d] = conf[d]
      /\ conf[0].up => conf'[0].up
      /\ conf[0].mtu => conf'[0].mtu
      /\ conf'[0].addr \in {conf[0].addr, Own[p]}
      /\ conf' # conf => owner[0] # Nobody
      /\ p \notin failed' =>
           /\ conf'[0].up <=> (conf[0].up \/ pc[p] \in {"up", "addr"})
           /\ conf'[0].mtu <=> (conf[0].mtu \/ pc[p] = "mtu")
           /\ conf'[0].addr = IF pc[p] = "addr" THEN Own[p] ELSE conf[0].addr
  <2>1. CASE owner[0] # Nobody /\ failed' = failed
             /\ conf' = [conf EXCEPT ![0] = Set(conf[0], pc[p], p)]
    <3>1. /\ conf'[0] = Set(conf[0], pc[p], p)
          /\ \A d \in Device : d # 0 => conf'[d] = conf[d]
      BY <1>1, <1>5, <2>1
    <3>2. conf'[0] \in Conf
      BY <1>1, <1>5, <3>1, SetConf
    <3>3. conf' \in [Device -> Conf]
      BY <1>1, <1>5, <2>1, <3>1, <3>2
    <3>4. /\ conf'[0].up <=> (conf[0].up \/ pc[p] \in {"up", "addr"})
          /\ conf'[0].mtu <=> (conf[0].mtu \/ pc[p] = "mtu")
          /\ conf'[0].addr = IF pc[p] = "addr" THEN Own[p] ELSE conf[0].addr
      BY <1>1, <1>5, <3>1, SetConf
    <3>5. QED
      BY <2>1, <3>1, <3>3, <3>4
  <2>2. CASE conf' = conf /\ failed' = failed \cup {p}
    BY <1>5, <2>2
  <2>3. QED
    BY <1>6, <2>1, <2>2
<1>8. TypeOK'
  <2>1. pc' \in [Procs -> {"exited", "socket", "tun", "up", "mtu", "addr",
                           "users", "loop"}]
    BY <1>1, <1>3 DEF ClientCommand, Goes, TypeOK
  <2>2. \A d \in Device : owner[d] = Nobody => conf'[d] = Fresh
    BY <1>1, <1>7 DEF TypeOK
  <2>3. failed' \subseteq Clients
    BY <1>1, <1>6 DEF TypeOK
  <2>4. QED
    BY <1>1, <1>7, <2>1, <2>2, <2>3 DEF ClientCommand, TypeOK, Conf
<1>9. Bound'
  BY <1>1, <1>2 DEF ClientCommand, Bound, HasPort, Procs
<1>10. Holds'
  BY <1>1, <1>2 DEF ClientCommand, Holds, Held, HasTun, HasPort, Procs
<1>11. ServerSet'
  <2> SUFFICES ASSUME NEW q \in Servers, NEW d \in Device, owner[d] = q
               PROVE  LET done == pc[q] \in {"users", "loop"}
                                    /\ tunfd[q] = "device"
                      IN  /\ pc[q] \in {"mtu", "addr"} \/ done => conf'[d].up
                          /\ pc[q] = "addr" \/ done => conf'[d].mtu
                          /\ done => \/ conf'[d].addr = Own[q]
                                     \/ /\ d = 0
                                        /\ \E c \in Clients :
                                             conf'[d].addr = Own[c]
    BY <1>1, <1>2 DEF ServerSet, ClientCommand, Procs
  <2>1. CASE d = 0
    BY <1>1, <1>7, <2>1 DEF ServerSet
  <2>2. CASE d # 0
    BY <1>1, <1>7, <2>2 DEF ServerSet
  <2>3. QED
    BY <2>1, <2>2
<1>12. ClientSet'
  <2> SUFFICES ASSUME NEW q \in Clients \ failed', owner[0] = q
               PROVE  /\ pc'[q] \in {"addr", "mtu", "loop"} => conf'[0].up
                      /\ pc'[q] \in {"mtu", "loop"} => conf'[0].addr = Own[q]
                      /\ pc'[q] = "loop" => conf'[0].mtu
    BY DEF ClientSet, ClientCommand
  <2>1. CASE q = p
    <3>1. p \notin failed /\ p \notin failed'
      BY <1>6, <2>1
    <3>2. QED
      BY <1>1, <1>2, <1>3, <1>7, <2>1, <3>1 DEF ClientSet
  <2>2. CASE q # p
    <3>1. pc'[q] = pc[q] /\ pc[q] \notin HasPort
      BY <1>2, <1>4, <2>2 DEF Procs
    <3>2. QED
      BY <3>1 DEF HasPort
  <2>3. QED
    BY <2>1, <2>2
<1>13. QED
  BY <1>8, <1>9, <1>10, <1>11, <1>12 DEF IInv

LEMMA OtherKeeps ==
  ASSUME IInv, NEW p \in Others, OtherTun(p)
  PROVE  IInv'
<1> DEFINE free == Min(Held(Nobody))
<1>1. /\ TypeOK /\ Bound /\ Holds /\ ServerSet /\ ClientSet
      /\ p \in Procs /\ p \notin Servers /\ p \notin Clients
      /\ p # Nobody
  BY KindAssumption, NobodyAssumption DEF IInv, Procs
<1>2. free \in Device /\ owner[free] = Nobody
  BY FirstFree DEF OtherTun
<1> HIDE DEF free
<1>3. /\ owner' = [owner EXCEPT ![free] = p]
      /\ conf' = [conf EXCEPT ![free] =
                    [up |-> TRUE, mtu |-> TRUE, addr |-> Own[p]]]
      /\ pc' = [pc EXCEPT ![p] = "loop"]
      /\ UNCHANGED <<bound, tunfd, failed>>
  BY DEF OtherTun, Goes, free
<1>4. \A q \in Procs : q # p => pc'[q] = pc[q]
  BY <1>3
<1>5. \A d \in Device : /\ owner'[d] = IF d = free THEN p ELSE owner[d]
                        /\ d # free => conf'[d] = conf[d]
  BY <1>1, <1>3 DEF TypeOK
<1>6. \A q \in Procs, d \in Device : q # p /\ owner'[d] = q =>
        owner[d] = q /\ conf'[d] = conf[d]
  BY <1>5
<1>7. TypeOK'
  <2>1. pc' \in [Procs -> {"exited", "socket", "tun", "up", "mtu", "addr",
                           "users", "loop"}]
    BY <1>1, <1>3 DEF TypeOK
  <2>2. owner' \in [Device -> Procs \cup {Nobody}]
    BY <1>1, <1>3 DEF TypeOK
  <2>3. conf' \in [Device -> Conf]
    BY <1>1, <1>3 DEF TypeOK, Conf, Addresses
  <2>4. \A d \in Device : owner'[d] = Nobody => conf'[d] = Fresh
    BY <1>1, <1>5 DEF TypeOK
  <2>5. QED
    BY <1>1, <1>3, <2>1, <2>2, <2>3, <2>4 DEF TypeOK, Conf
<1>8. Bound'
  BY <1>1, <1>3, <1>4 DEF Bound, Procs
<1>9. Holds'
  <2> SUFFICES ASSUME NEW q \in Servers, pc[q] \in HasTun
               PROVE  \E d \in Device : owner'[d] = q
    BY <1>1, <1>4 DEF Holds, Held, Procs
  <2>1. PICK d \in Device : owner[d] = q
    BY <1>1 DEF Holds, Held
  <2>2. d # free
    BY <1>2, <2>1, NobodyAssumption DEF Procs
  <2>3. QED
    BY <1>5, <2>1, <2>2
<1>10. ServerSet'
  <2>1. \A q \in Servers, d \in Device : owner'[d] = q =>
          /\ pc'[q] = pc[q] /\ tunfd'[q] = tunfd[q]
          /\ owner[d] = q /\ conf'[d] = conf[d]
    BY <1>1, <1>3, <1>4, <1>6 DEF Procs
  <2>2. QED
    BY <1>1, <2>1 DEF ServerSet
<1>11. ClientSet'
  <2>1. 0 \in Device
    BY DevicesAssumption DEF Device
  <2>2. \A q \in Clients : owner'[0] = q =>
          pc'[q] = pc[q] /\ owner[0] = q /\ conf'[0] = conf[0]
    BY <1>1, <1>4, <1>6, <2>1 DEF Procs
  <2>3. QED
    BY <1>1, <1>3, <2>2 DEF ClientSet
<1>12. QED
  BY <1>7, <1>8, <1>9, <1>10, <1>11 DEF IInv

LEMMA ExitKeeps ==
  ASSUME IInv, NEW p \in Procs, Exit(p)
  PROVE  IInv'
<1>1. TypeOK /\ Bound /\ Holds /\ ServerSet /\ ClientSet /\ p # Nobody
  BY NobodyAssumption DEF IInv
<1>2. \A q \in Procs : /\ pc'[q] = IF q = p THEN "exited" ELSE pc[q]
                       /\ q # p => tunfd'[q] = tunfd[q]
  BY <1>1 DEF Exit, Goes, TypeOK
<1>3. \A d \in Device :
        /\ owner'[d] = IF owner[d] = p THEN Nobody ELSE owner[d]
        /\ conf'[d] = IF owner[d] = p THEN Fresh ELSE conf[d]
  BY DEF Exit
<1>4. \A q \in Procs \ {p}, d \in Device :
        /\ owner'[d] = q <=> owner[d] = q
        /\ owner[d] = q => conf'[d] = conf[d]
  BY <1>1, <1>3, NobodyAssumption
<1>5. TypeOK'
  <2>1. pc' \in [Procs -> {"exited", "socket", "tun", "up", "mtu", "addr",
                           "users", "loop"}]
    BY <1>1 DEF Exit, Goes, TypeOK
  <2>2. bound' \in [Ports -> Procs \cup {Nobody}]
    BY <1>1 DEF Exit, TypeOK
  <2>3. owner' \in [Device -> Procs \cup {Nobody}]
    BY <1>1 DEF Exit, TypeOK
  <2>4. Fresh \in Conf /\ conf \in [Device -> Conf]
    BY <1>1 DEF Fresh, Conf, TypeOK
  <2>5. conf' \in [Device -> Conf]
    BY <2>4 DEF Exit
  <2>6. \A d \in Device : owner'[d] = Nobody => conf'[d] = Fresh
    BY <1>1, <1>3 DEF TypeOK
  <2>7. tunfd' \in [Procs -> {"none", "device", "status"}]
    BY <1>1 DEF Exit, TypeOK
  <2>8. failed' \subseteq Clients
    BY <1>1 DEF Exit, TypeOK
  <2>9. QED
    BY <2>1, <2>2, <2>3, <2>5, <2>6, <2>7, <2>8 DEF TypeOK, Conf
<1>6. Bound'
  <2> SUFFICES ASSUME NEW q \in Servers \cup Clients, pc'[q] \in HasPort
               PROVE  bound'[Port[q]] = q
    BY DEF Bound
  <2>1. q # p /\ pc[q] \in HasPort
    BY <1>2 DEF HasPort, Procs
  <2>2. bound[Port[q]] = q /\ Port[q] \in Ports
    BY <1>1, <2>1 DEF Bound, Ports
  <2>3. QED
    BY <2>1, <2>2 DEF Exit
<1>7. Holds'
  <2> SUFFICES ASSUME NEW q \in Servers, pc'[q] \in HasTun
               PROVE  \E d \in Device : owner'[d] = q
    BY DEF Holds, Held
  <2>1. q # p /\ pc[q] \in HasTun /\ q \in Procs
    BY <1>2 DEF HasTun, HasPort, Procs
  <2>2. PICK d \in Device : owner[d] = q
    BY <1>1, <2>1 DEF Holds, Held
  <2>3. QED
    BY <1>4, <2>1, <2>2
<1>8. ServerSet'
  <2>1. \A q \in Servers, d \in Device : owner'[d] = q =>
          /\ q # p /\ pc'[q] = pc[q] /\ tunfd'[q] = tunfd[q]
          /\ owner[d] = q /\ conf'[d] = conf[d]
    BY <1>1, <1>2, <1>3, <1>4, NobodyAssumption DEF Procs
  <2>2. QED
    BY <1>1, <2>1 DEF ServerSet
<1>9. ClientSet'
  <2>1. 0 \in Device
    BY DevicesAssumption DEF Device
  <2>2. \A q \in Clients : owner'[0] = q =>
          /\ q # p /\ pc'[q] = pc[q] /\ owner[0] = q /\ conf'[0] = conf[0]
    BY <1>1, <1>2, <1>3, <1>4, <2>1, NobodyAssumption DEF Procs
  <2>3. \A q \in Clients \ failed' : q # p => q \notin failed
    BY DEF Exit
  <2>4. QED
    BY <1>1, <2>2, <2>3 DEF ClientSet
<1>10. QED
  BY <1>5, <1>6, <1>7, <1>8, <1>9 DEF IInv

LEMMA NextKeeps == IInv /\ [Next]_vars => IInv'
<1> SUFFICES ASSUME IInv, [Next]_vars
             PROVE  IInv'
  OBVIOUS
<1>1. CASE \E p \in Servers \cup Clients : Start(p)
  BY <1>1, StartKeeps
<1>2. CASE \E p \in Servers :
             \/ ServerBind(p) \/ ServerOpenTun(p)
             \/ ServerCommand(p) \/ ServerCommandFails(p) \/ ReadUsers(p)
  <2> PICK p \in Servers :
             \/ ServerBind(p) \/ ServerOpenTun(p)
             \/ ServerCommand(p) \/ ServerCommandFails(p) \/ ReadUsers(p)
    BY <1>2
  <2>1. CASE ServerBind(p)
    BY <2>1, BindKeeps DEF ServerBind
  <2>2. CASE ServerOpenTun(p)
    <3>1. tunfd \in [Procs -> {"none", "device", "status"}]
      BY DEF IInv, TypeOK
    <3>2. QED
      BY <2>2, <3>1, OpenKeeps DEF ServerOpenTun
  <2>3. CASE ServerCommand(p)
    BY <2>3, ServerCommandKeeps
  <2>4. CASE ServerCommandFails(p) \/ ReadUsers(p)
    BY <2>4, ServerGoesOnKeeps
  <2>5. QED
    BY <2>1, <2>2, <2>3, <2>4
<1>3. CASE \E p \in Clients :
             ClientBind(p) \/ ClientOpenTun(p) \/ ClientCommand(p)
  <2> PICK p \in Clients : ClientBind(p) \/ ClientOpenTun(p) \/ ClientCommand(p)
    BY <1>3
  <2>1. CASE ClientBind(p)
    BY <2>1, BindKeeps DEF ClientBind
  <2>2. CASE ClientOpenTun(p)
    <3>1. /\ tunfd \in [Procs -> {"none", "device", "status"}]
          /\ tunfd' = [tunfd EXCEPT ![p] = "device"]
      BY <2>2 DEF IInv, TypeOK, ClientOpenTun
    <3>2. /\ tunfd' \in [Procs -> {"none", "device", "status"}]
          /\ \A q \in Procs \ {p} : tunfd'[q] = tunfd[q]
      BY <3>1
    <3>3. QED
      BY <2>2, <3>2, OpenKeeps DEF ClientOpenTun
  <2>3. CASE ClientCommand(p)
    BY <2>3, ClientCommandKeeps
  <2>4. QED
    BY <2>1, <2>2, <2>3
<1>4. CASE \E p \in Others : OtherTun(p)
  BY <1>4, OtherKeeps
<1>5. CASE \E p \in Procs : Exit(p)
  BY <1>5, ExitKeeps
<1>6. CASE UNCHANGED vars
  BY <1>6 DEF vars, IInv, TypeOK, Bound, Holds, Held, ServerSet, ClientSet
<1>7. QED
  BY <1>1, <1>2, <1>3, <1>4, <1>5, <1>6 DEF Next

LEMMA Invariance == Spec => []IInv
BY InitEstablishes, NextKeeps, PTL DEF Spec

-----------------------------------------------------------------------------
(***************************************************************************)
(* A device that nobody holds has no configuration (Exit): what a program  *)
(* finds on a device it gets was never set by one that has ended.          *)
(***************************************************************************)
THEOREM TypeCorrect == Spec => []TypeOK
<1>1. IInv => TypeOK
  BY DEF IInv
<1>2. QED
  BY <1>1, Invariance, PTL

(***************************************************************************)
(* Whatever starts and ends on its host, a server in its loop whose tun_fd *)
(* is its device has it as svpn_fd.c:62-77 has set it, up to the address   *)
(* of tun0, which a client (main_client.c:35-40) may have replaced.        *)
(***************************************************************************)
THEOREM ServersKeepDevices == Spec => []ServerKeepsDevice
<1>1. IInv => ServerKeepsDevice
  <2> SUFFICES ASSUME IInv, NEW p \in Servers, InLoop(p), tunfd[p] = "device"
               PROVE  \/ IsSetUp(p)
                      \/ /\ owner[0] = p
                         /\ conf[0].up /\ conf[0].mtu
                         /\ \E c \in Clients : conf[0].addr = Own[c]
    BY DEF ServerKeepsDevice
  <2>1. PICK d \in Device : owner[d] = p
    BY DEF IInv, Holds, Held, InLoop, HasTun, HasPort
  <2>2. /\ conf[d].up /\ conf[d].mtu
        /\ \/ conf[d].addr = Own[p]
           \/ d = 0 /\ \E c \in Clients : conf[d].addr = Own[c]
    BY <2>1 DEF IInv, ServerSet, InLoop
  <2>3. conf[d] \in Conf
    BY DEF IInv, TypeOK, Conf
  <2>4. CASE conf[d].addr = Own[p]
    <3>1. conf[d] = [up |-> TRUE, mtu |-> TRUE, addr |-> Own[p]]
      BY <2>2, <2>3, <2>4 DEF Conf
    <3>2. QED
      BY <2>1, <3>1 DEF IsSetUp, Held
  <2>5. QED
    BY <2>1, <2>2, <2>4
<1>2. QED
  BY <1>1, Invariance, PTL

(***************************************************************************)
(* A client in its loop that has tun0, and none of whose commands has      *)
(* failed, has it set up for itself: since all clients bind port 123       *)
(* (svpn_fd.c:53), no other has come to the commands of main_client.c.     *)
(***************************************************************************)
THEOREM ClientsKeepTun0 == Spec => []ClientKeepsTun0
<1>1. IInv => ClientKeepsTun0
  <2> SUFFICES ASSUME IInv, NEW p \in Clients \ failed, InLoop(p), owner[0] = p
               PROVE  IsSetUp(p)
    BY DEF ClientKeepsTun0
  <2>1. conf[0].up /\ conf[0].mtu /\ conf[0].addr = Own[p]
    BY DEF IInv, ClientSet, InLoop
  <2>2. 0 \in Device
    BY DevicesAssumption DEF Device
  <2>3. conf[0] \in Conf
    BY <2>2 DEF IInv, TypeOK, Conf
  <2>4. conf[0] = [up |-> TRUE, mtu |-> TRUE, addr |-> Own[p]]
    BY <2>1, <2>3 DEF Conf
  <2>5. QED
    BY <2>2, <2>4 DEF IsSetUp, Held
<1>2. QED
  BY <1>1, Invariance, PTL

-----------------------------------------------------------------------------
(***************************************************************************)
(* A server past its commands has its device.                              *)
(***************************************************************************)
PastCommands ==
  \A p \in Servers : pc[p] \in {"users", "loop"} => tunfd[p] = "device"

LEMMA PastCommandsKept ==
  ASSUME ~CommandsFail, IInv, PastCommands, [Next]_vars
  PROVE  PastCommands'
<1>1. TypeOK
  BY DEF IInv
<1> SUFFICES ASSUME NEW s \in Servers, pc'[s] \in {"users", "loop"}
             PROVE  tunfd'[s] = "device"
  BY DEF PastCommands
<1>2. s \in Procs /\ s \notin Clients /\ s \notin Others
  BY KindAssumption DEF Procs
<1>3. ASSUME NEW q \in Procs, NEW step, Goes(q, step)
      PROVE  pc'[s] = IF q = s THEN step ELSE pc[s]
  BY <1>1, <1>2, <1>3 DEF Goes, TypeOK
<1>4. ASSUME NEW q \in Procs, NEW step, Goes(q, step),
             step \notin {"users", "loop"} \/ q # s, tunfd'[s] = tunfd[s]
      PROVE  tunfd'[s] = "device"
  BY <1>3, <1>4 DEF PastCommands
<1>5. CASE \E p \in Servers \cup Clients : Start(p)
  <2>1. PICK p \in Servers \cup Clients : Start(p)
    BY <1>5
  <2>2. p \in Procs /\ Goes(p, "socket") /\ tunfd' = tunfd
    BY <2>1 DEF Start, Procs
  <2>3. QED
    BY <1>4, <2>2
<1>6. CASE \E p \in Servers : ServerBind(p) \/ ServerOpenTun(p)
  <2>1. PICK p \in Servers : ServerBind(p) \/ ServerOpenTun(p)
    BY <1>6
  <2>2. p \in Procs /\ tunfd' = tunfd /\ (Goes(p, "tun") \/ Goes(p, "up"))
    BY <2>1 DEF ServerBind, ServerOpenTun, BindPort, GetsDevice, Procs
  <2>3. QED
    BY <1>4, <2>2
<1>7. CASE \E p \in Servers : ServerCommand(p)
  <2>1. PICK p \in Servers : ServerCommand(p)
    BY <1>7
  <2>2. /\ p \in Procs /\ pc[p] \in {"up", "mtu", "addr"}
        /\ Goes(p, ServerAfter[pc[p]])
        /\ tunfd' = [tunfd EXCEPT ![p] = IF pc[p] = "addr" THEN "device" ELSE @]
    BY <2>1, Orders DEF ServerCommand, Procs
  <2>3. tunfd'[s] = IF s = p /\ pc[p] = "addr" THEN "device" ELSE tunfd[s]
    BY <1>1, <1>2, <2>2 DEF TypeOK
  <2>4. CASE s = p /\ pc[p] = "addr"
    BY <2>3, <2>4
  <2>5. CASE ~(s = p /\ pc[p] = "addr")
    <3>1. ServerAfter[pc[p]] \notin {"users", "loop"} \/ p # s
      BY <2>2, <2>5, Orders
    <3>2. QED
      BY <1>4, <2>2, <2>3, <2>5, <3>1
  <2>6. QED
    BY <2>4, <2>5
<1>8. CASE \E p \in Servers : ServerCommandFails(p)
  BY <1>8 DEF ServerCommandFails
<1>9. CASE \E p \in Servers : ReadUsers(p)
  <2>1. PICK p \in Servers : ReadUsers(p)
    BY <1>9
  <2>2. p \in Procs /\ pc[p] = "users" /\ Goes(p, "loop") /\ tunfd' = tunfd
    BY <2>1 DEF ReadUsers, Procs
  <2>3. pc[s] \in {"users", "loop"}
    BY <1>3, <2>2
  <2>4. QED
    BY <2>2, <2>3 DEF PastCommands
<1>10. CASE \E p \in Clients :
              ClientBind(p) \/ ClientOpenTun(p) \/ ClientCommand(p)
  <2>1. PICK p \in Clients :
               ClientBind(p) \/ ClientOpenTun(p) \/ ClientCommand(p)
    BY <1>10
  <2>2. p \in Procs /\ p # s
    BY <1>2, <2>1 DEF Procs
  <2>3. \E step : Goes(p, step)
    BY <2>1 DEF ClientBind, BindPort, ClientOpenTun, GetsDevice, ClientCommand
  <2>4. tunfd'[s] = tunfd[s]
    <3>1. tunfd' = tunfd \/ tunfd' = [tunfd EXCEPT ![p] = "device"]
      BY <2>1 DEF ClientBind, BindPort, ClientOpenTun, ClientCommand
    <3>2. QED
      BY <1>1, <1>2, <2>2, <3>1 DEF TypeOK
  <2>5. QED
    BY <1>4, <2>2, <2>3, <2>4
<1>11. CASE \E p \in Others : OtherTun(p)
  <2>1. PICK p \in Others : OtherTun(p)
    BY <1>11
  <2>2. p \in Procs /\ p # s /\ Goes(p, "loop") /\ tunfd' = tunfd
    BY <1>2, <2>1 DEF OtherTun, Procs
  <2>3. QED
    BY <1>4, <2>2
<1>12. CASE \E p \in Procs : Exit(p)
  <2>1. PICK p \in Procs : Exit(p)
    BY <1>12
  <2>2. Goes(p, "exited") /\ tunfd' = [tunfd EXCEPT ![p] = "none"]
    BY <2>1 DEF Exit
  <2>3. p # s
    BY <1>3, <2>2
  <2>4. tunfd'[s] = tunfd[s]
    BY <1>1, <1>2, <2>2, <2>3 DEF TypeOK
  <2>5. QED
    BY <1>4, <2>2, <2>3, <2>4
<1>13. CASE UNCHANGED vars
  BY <1>13 DEF vars, PastCommands
<1>14. QED
  BY <1>5, <1>6, <1>7, <1>8, <1>9, <1>10, <1>11, <1>12, <1>13 DEF Next

(***************************************************************************)
(* README.md:64, `here a tunnel named tunX will be set up', is only wrong  *)
(* of a server when a command exits with an error (svpn_fd.c:63): where    *)
(* none can, a server in its loop reads from its device, whatever clients  *)
(* and other programs do.                                                  *)
(***************************************************************************)
THEOREM ServersHaveTunnels ==
  ASSUME ~CommandsFail
  PROVE  Spec => []ServerHasTunnel
<1>1. Init => PastCommands
  <2>1. Init => \A p \in Procs : pc[p] = "exited"
    BY DEF Init
  <2>2. QED
    BY <2>1 DEF PastCommands, Procs
<1>2. IInv /\ PastCommands /\ [Next]_vars => PastCommands'
  BY PastCommandsKept
<1>3. PastCommands => ServerHasTunnel
  BY DEF PastCommands, ServerHasTunnel, InLoop
<1>4. QED
  BY <1>1, <1>2, <1>3, Invariance, PTL DEF Spec

(***************************************************************************)
(* Where only clients run, the one that has port 123 has tun0, and nobody  *)
(* has another device.                                                     *)
(***************************************************************************)
OnlyTun0 ==
  /\ \A p \in Clients : pc[p] \in HasTun => owner[0] = p
  /\ \A d \in Device : owner[d] # Nobody =>
       owner[d] \in Clients /\ pc[owner[d]] \in HasTun
  /\ failed = {}

LEMMA OnlyTun0Kept ==
  ASSUME ~CommandsFail, Servers = {}, Others = {},
         IInv, OnlyTun0, [Next]_vars
  PROVE  OnlyTun0'
<1>1. TypeOK /\ Bound
  BY DEF IInv
<1>2. 0 \in Device /\ Procs = Clients /\ Nobody \notin Clients
  BY NobodyAssumption, DevicesAssumption DEF Device, Procs
<1>3. ASSUME NEW q \in Procs, NEW step, Goes(q, step)
      PROVE  \A p \in Procs : pc'[p] = IF p = q THEN step ELSE pc[p]
  BY <1>1, <1>3 DEF Goes, TypeOK
(* A step between two places that both have a device, or none. *)
<1>4. ASSUME NEW q \in Clients, NEW step, Goes(q, step),
             step \in HasTun <=> pc[q] \in HasTun,
             owner' = owner, failed' = {}
      PROVE  OnlyTun0'
  <2>1. \A p \in Clients : pc'[p] \in HasTun <=> pc[p] \in HasTun
    BY <1>2, <1>3, <1>4
  <2>2. QED
    BY <1>4, <2>1 DEF OnlyTun0
<1>5. CASE \E p \in Clients : Start(p) \/ ClientBind(p)
  <2>1. PICK p \in Clients : Start(p) \/ ClientBind(p)
    BY <1>5
  <2>2. /\ pc[p] \notin HasTun /\ owner' = owner /\ failed' = failed
        /\ \E step \in {"socket", "tun"} : Goes(p, step)
    BY <2>1 DEF Start, ClientBind, BindPort, HasTun, HasPort
  <2>3. QED
    BY <1>4, <2>2 DEF OnlyTun0, HasTun, HasPort
<1>6. CASE \E p \in Clients : ClientOpenTun(p)
  <2>1. PICK p \in Clients : ClientOpenTun(p)
    BY <1>6
  <2>2. /\ pc[p] = "tun" /\ Held(Nobody) # {} /\ Goes(p, "up")
        /\ owner' = [owner EXCEPT ![Min(Held(Nobody))] = p]
        /\ failed' = failed
    BY <2>1 DEF ClientOpenTun, GetsDevice
  <2>3. \A q \in Clients : pc[q] \notin HasTun
    <3>1. bound[Port[p]] = p
      BY <1>1, <2>2 DEF Bound, HasPort
    <3>2. \A q \in Clients : pc[q] \in HasTun => bound[Port[q]] = q
      BY <1>1 DEF Bound, HasTun
    <3>3. QED
      BY <2>2, <3>1, <3>2, ClientPortAssumption DEF HasTun
  <2>4. \A d \in Device : owner[d] = Nobody
    BY <2>3 DEF OnlyTun0
  <2>5. Min(Held(Nobody)) = 0
    <3>1. Held(Nobody) \in SUBSET Nat /\ 0 \in Held(Nobody)
      BY <1>2, <2>4, DevicesAssumption DEF Held, Device
    <3>2. Min(Held(Nobody)) \in Nat /\ Min(Held(Nobody)) <= 0
      BY <3>1, MinIsIn
    <3>3. QED
      BY <3>2
  <2>6. \A d \in Device : owner'[d] = IF d = 0 THEN p ELSE Nobody
    BY <1>1, <2>2, <2>4, <2>5 DEF TypeOK
  <2>7. \A q \in Clients : pc'[q] \in HasTun <=> q = p
    BY <1>2, <1>3, <2>2, <2>3 DEF HasTun, HasPort
  <2>8. QED
    BY <1>2, <2>2, <2>6, <2>7 DEF OnlyTun0
<1>7. CASE \E p \in Clients : ClientCommand(p)
  <2>1. PICK p \in Clients : ClientCommand(p)
    BY <1>7
  <2>2. /\ pc[p] \in {"up", "addr", "mtu"} /\ Goes(p, ClientAfter[pc[p]])
        /\ owner' = owner
        /\ failed' = failed \/ owner[0] = Nobody \/ CommandsFail
    BY <2>1, Orders DEF ClientCommand
  <2>3. pc[p] \in HasTun /\ ClientAfter[pc[p]] \in HasTun
    BY <2>2, Orders DEF HasTun, HasPort
  <2>4. owner[0] # Nobody
    BY <1>2, <2>3 DEF OnlyTun0
  <2>5. QED
    BY <1>4, <2>2, <2>3, <2>4 DEF OnlyTun0
<1>8. CASE \E p \in Clients : Exit(p)
  <2>1. PICK p \in Clients : Exit(p)
    BY <1>8
  <2>2. /\ Goes(p, "exited") /\ failed' = failed \ {p}
        /\ owner' = [d \in Device |-> IF owner[d] = p THEN Nobody
                                      ELSE owner[d]]
    BY <2>1 DEF Exit
  <2>3. \A q \in Clients : pc'[q] = IF q = p THEN "exited" ELSE pc[q]
    BY <1>2, <1>3, <2>2
  <2>4. \A q \in Clients : pc'[q] \in HasTun => q # p /\ pc[q] \in HasTun
    BY <2>3 DEF HasTun, HasPort
  <2>5. \A q \in Clients : pc'[q] \in HasTun => owner'[0] = q
    BY <1>2, <2>2, <2>4 DEF OnlyTun0
  <2>6. ASSUME NEW d \in Device, owner'[d] # Nobody
        PROVE  owner'[d] \in Clients /\ pc'[owner'[d]] \in HasTun
    <3>1. owner'[d] = owner[d] /\ owner[d] # p
      BY <2>2, <2>6
    <3>2. owner[d] \in Clients /\ pc[owner[d]] \in HasTun
      BY <2>6, <3>1 DEF OnlyTun0
    <3>3. QED
      BY <2>3, <3>1, <3>2
  <2>7. QED
    BY <2>2, <2>5, <2>6 DEF OnlyTun0
<1>9. CASE UNCHANGED vars
  BY <1>9 DEF vars, OnlyTun0
<1>10. QED
  BY <1>2, <1>5, <1>6, <1>7, <1>8, <1>9 DEF Next

(***************************************************************************)
(* README.md:34, `There will be a tunnel named tunX being set up', is only *)
(* wrong of a client when a command fails or where something else than     *)
(* clients runs on its host: clients among themselves, which all bind port *)
(* 123 before they open a device, get tun0, the one they set up by name    *)
(* (main_client.c:35-40).                                                  *)
(***************************************************************************)
THEOREM ClientsAloneHaveTunnels ==
  ASSUME ~CommandsFail, Servers = {}, Others = {}
  PROVE  Spec => []ClientHasTunnel
<1>1. Init => OnlyTun0
  <2>1. Init => (\A p \in Procs : pc[p] = "exited") /\ failed = {}
                 /\ \A d \in Device : owner[d] = Nobody
    BY DEF Init
  <2>2. QED
    BY <2>1 DEF OnlyTun0, Procs, HasTun, HasPort
<1>2. IInv /\ OnlyTun0 /\ [Next]_vars => OnlyTun0'
  BY OnlyTun0Kept
<1>3. OnlyTun0 /\ ClientKeepsTun0 => ClientHasTunnel
  BY DEF OnlyTun0, ClientKeepsTun0, ClientHasTunnel, InLoop, HasTun, HasPort
<1>4. QED
  BY <1>1, <1>2, <1>3, Invariance, ClientsKeepTun0, PTL DEF Spec
=============================================================================
