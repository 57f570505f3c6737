-------------------------------- MODULE Host --------------------------------
(***************************************************************************)
(* How the programs start on one host: the server (main_server.c, then     *)
(* svpn_server_init of svpn_server.c and the functions of svpn_fd.c), the  *)
(* client (main_client.c, svpn_init of svpn_client.c and its svpn_fd.c),   *)
(* and other programs that use tunnel devices.  They share the ports and   *)
(* the devices of the host.                                                *)
(*                                                                         *)
(* A process binds its port, gets the first tunnel device that is free,    *)
(* has ifconfig set it up in three commands and enters its loop.  The      *)
(* server names its own device in these commands and looks at their exit   *)
(* status; the client always names tun0 and does not look.                 *)
(*                                                                         *)
(* Whatever ends a process, a step that fails or a signal, gives back its  *)
(* port and removes its device.  It can be started again.                  *)
(***************************************************************************)
EXTENDS Integers, FiniteSetsExt

CONSTANTS
  Servers, Clients, Others,   \* the processes, of three kinds
  Port,          \* the port each server and client binds
  Own,           \* the address each process has for its device
  Devices,       \* how many tunnel devices there can be
  Nobody,        \* the owner of what is free, the address of no address
  CommandsFail   \* whether ifconfig can fail on a device that exists

Procs == Servers \cup Clients \cup Others
Device == 0 .. Devices - 1
Ports == { Port[p] : p \in Servers \cup Clients }
Addresses == { Own[p] : p \in Procs }

ASSUME KindAssumption ==
  /\ Servers \cap Clients = {} /\ Servers \cap Others = {}
  /\ Clients \cap Others = {}
ASSUME NobodyAssumption == Nobody \notin Procs /\ Nobody \notin Addresses
ASSUME DevicesAssumption == Devices \in Nat \ {0}
(* The client's port is a constant of svpn_fd.c *)
ASSUME ClientPortAssumption == \A c, d \in Clients : Port[c] = Port[d]

VARIABLES
  pc,      \* the step that is due in each process
  bound,   \* the process that holds each port
  owner,   \* the process that holds each device; Nobody: it does not exist
  conf,    \* what ifconfig has set on each device
  tunfd,   \* what psc->tun_fd holds: "none", "device" or "status"
  failed   \* history: the clients one of whose commands has failed

vars == <<pc, bound, owner, conf, tunfd, failed>>

Fresh == [up |-> FALSE, mtu |-> FALSE, addr |-> Nobody]

Init ==
  /\ pc = [p \in Procs |-> "exited"]
  /\ bound = [n \in Ports |-> Nobody]
  /\ owner = [d \in Device |-> Nobody]
  /\ conf = [d \in Device |-> Fresh]
  /\ tunfd = [p \in Procs |-> "none"]
  /\ failed = {}

Held(p) == { d \in Device : owner[d] = p }

Goes(p, step) == pc' = [pc EXCEPT ![p] = step]

(***************************************************************************)
(* What ifconfig does to a device: an address also brings it up.           *)
(***************************************************************************)
Set(c, command, p) ==
  CASE command = "up"   -> [c EXCEPT !.up = TRUE]
    [] command = "mtu"  -> [c EXCEPT !.mtu = TRUE]
    [] command = "addr" -> [c EXCEPT !.up = TRUE, !.addr = Own[p]]

ServerAfter == [up |-> "mtu", mtu |-> "addr", addr |-> "users"]
ClientAfter == [up |-> "addr", addr |-> "mtu", mtu |-> "loop"]

-----------------------------------------------------------------------------
(***************************************************************************)
(* The configuration of a server, or the arguments of a client, are fine.  *)
(***************************************************************************)
Start(p) ==
  /\ pc[p] = "exited"
  /\ Goes(p, "socket")
  /\ UNCHANGED <<bound, owner, conf, tunfd, failed>>

(***************************************************************************)
(* socket and bind, if nobody has the port.                                *)
(***************************************************************************)
BindPort(p) ==
  /\ pc[p] = "socket"
  /\ bound[Port[p]] = Nobody
  /\ bound' = [bound EXCEPT ![Port[p]] = p]
  /\ Goes(p, "tun")
  /\ UNCHANGED <<owner, conf, tunfd, failed>>

\* mutant of ClientBind: its result is not looked at
BindUnchecked(p) ==
  /\ pc[p] = "socket"
  /\ bound' = IF bound[Port[p]] = Nobody THEN [bound EXCEPT ![Port[p]] = p]
              ELSE bound
  /\ Goes(p, "tun")
  /\ UNCHANGED <<owner, conf, tunfd, failed>>

(***************************************************************************)
(* svpn_sock_create of the client, which always binds port 123.            *)
(***************************************************************************)
ClientBind(p) == BindPort(p)

(***************************************************************************)
(* svpn_sock_create of the server, which binds the port it has read.       *)
(***************************************************************************)
ServerBind(p) == BindPort(p)

(***************************************************************************)
(* TUNSETIFF names the first device that is free.                          *)
(***************************************************************************)
GetsDevice(p) ==
  /\ pc[p] = "tun"
  /\ Held(Nobody) # {}
  /\ owner' = [owner EXCEPT ![Min(Held(Nobody))] = p]
  /\ Goes(p, "up")
  /\ UNCHANGED <<bound, conf, failed>>

(***************************************************************************)
(* The server's svpn_tun_create up to TUNSETIFF: tun_fd is set when the    *)
(* commands have run.                                                      *)
(***************************************************************************)
ServerOpenTun(p) == GetsDevice(p) /\ UNCHANGED tunfd

(***************************************************************************)
(* The client's, which runs no commands.                                   *)
(***************************************************************************)
ClientOpenTun(p) == GetsDevice(p) /\ tunfd' = [tunfd EXCEPT ![p] = "device"]

(***************************************************************************)
(* A command of the server (src/server/svpn_fd.c:62-77) that works; after  *)
(* the last one svpn_tun_create returns the descriptor.                    *)
(***************************************************************************)
ServerCommand(p) ==
  /\ pc[p] \in DOMAIN ServerAfter
  /\ conf' = [d \in Device |-> IF d \in Held(p) THEN Set(conf[d], pc[p], p)
                               ELSE conf[d]]
  /\ Goes(p, ServerAfter[pc[p]])
  /\ tunfd' = [tunfd EXCEPT ![p] = IF pc[p] = "addr" THEN "device" ELSE @]
  /\ UNCHANGED <<bound, owner, failed>>

\* mutant of ServerCommandFails: the status is not returned
ServerIgnoresStatus(p) ==
  /\ CommandsFail
  /\ pc[p] \in DOMAIN ServerAfter
  /\ Goes(p, ServerAfter[pc[p]])
  /\ tunfd' = [tunfd EXCEPT ![p] = IF pc[p] = "addr" THEN "device" ELSE @]
  /\ UNCHANGED <<bound, owner, conf, failed>>

(***************************************************************************)
(* A command of the server that exits with an error, or cannot be found:   *)
(* svpn_tun_create returns its status, which is positive, and              *)
(* svpn_server_init, which tests for a negative one, takes it for a        *)
(* descriptor.                                                             *)
(***************************************************************************)
ServerCommandFails(p) ==
  /\ CommandsFail
  /\ pc[p] \in DOMAIN ServerAfter
  /\ Goes(p, "users")
  /\ tunfd' = [tunfd EXCEPT ![p] = "status"]
  /\ UNCHANGED <<bound, owner, conf, failed>>

(***************************************************************************)
(* svpn_server_init_client could open the file again.                      *)
(***************************************************************************)
ReadUsers(p) ==
  /\ pc[p] = "users"
  /\ Goes(p, "loop")
  /\ UNCHANGED <<bound, owner, conf, tunfd, failed>>

(***************************************************************************)
(* A command of the client (main_client.c:35-40): it sets tun0, whoever    *)
(* has it, or fails, which the client does not notice.                     *)
(***************************************************************************)
ClientCommand(p) ==
  /\ pc[p] \in DOMAIN ClientAfter
  /\ \/ /\ owner[0] # Nobody
        /\ conf' = [conf EXCEPT ![0] = Set(@, pc[p], p)]
        /\ failed' = failed
     \/ /\ owner[0] = Nobody \/ CommandsFail
        /\ conf' = conf
        /\ failed' = failed \cup {p}
  /\ Goes(p, ClientAfter[pc[p]])
  /\ UNCHANGED <<bound, owner, tunfd>>

(***************************************************************************)
(* Another program makes a tunnel device and sets it up.                   *)
(***************************************************************************)
OtherTun(p) ==
  /\ pc[p] = "exited"
  /\ Held(Nobody) # {}
  /\ LET d == Min(Held(Nobody))
     IN  /\ owner' = [owner EXCEPT ![d] = p]
         /\ conf' = [conf EXCEPT ![d] =
                       [up |-> TRUE, mtu |-> TRUE, addr |-> Own[p]]]
  /\ Goes(p, "loop")
  /\ UNCHANGED <<bound, tunfd, failed>>

\* mutant of Exit: what ifconfig has set on the device is still there
ExitKeepsConf(p) ==
  /\ pc[p] # "exited"
  /\ Goes(p, "exited")
  /\ bound' = [n \in Ports |-> IF bound[n] = p THEN Nobody ELSE bound[n]]
  /\ owner' = [d \in Device |-> IF owner[d] = p THEN Nobody ELSE owner[d]]
  /\ conf' = conf
  /\ tunfd' = [tunfd EXCEPT ![p] = "none"]
  /\ failed' = failed \ {p}

(***************************************************************************)
(* A process ends: a step fails (no file or a bad one, no socket, port     *)
(* taken, no device, system gives -1), or a signal ends it.                *)
(***************************************************************************)
Exit(p) ==
  /\ pc[p] # "exited"
  /\ Goes(p, "exited")
  /\ bound' = [n \in Ports |-> IF bound[n] = p THEN Nobody ELSE bound[n]]
  /\ owner' = [d \in Device |-> IF owner[d] = p THEN Nobody ELSE owner[d]]
  /\ conf' = [d \in Device |-> IF owner[d] = p THEN Fresh ELSE conf[d]]
  /\ tunfd' = [tunfd EXCEPT ![p] = "none"]
  /\ failed' = failed \ {p}

Next ==
  \/ \E p \in Servers \cup Clients : Start(p)
  \/ \E p \in Servers :
       \/ ServerBind(p) \/ ServerOpenTun(p)
       \/ ServerCommand(p) \/ ServerCommandFails(p) \/ ReadUsers(p)
  \/ \E p \in Clients : ClientBind(p) \/ ClientOpenTun(p) \/ ClientCommand(p)
  \/ \E p \in Others : OtherTun(p)
  \/ \E p \in Procs : Exit(p)

Spec == Init /\ [][Next]_vars

-----------------------------------------------------------------------------
TypeOK ==
  /\ pc \in [Procs -> {"exited", "socket", "tun", "up", "mtu", "addr",
                       "users", "loop"}]
  /\ bound \in [Ports -> Procs \cup {Nobody}]
  /\ owner \in [Device -> Procs \cup {Nobody}]
  /\ conf \in [Device -> [up : BOOLEAN, mtu : BOOLEAN,
                          addr : Addresses \cup {Nobody}]]
  /\ tunfd \in [Procs -> {"none", "device", "status"}]
  /\ failed \subseteq Clients
  /\ \A d \in Device : owner[d] = Nobody => conf[d] = Fresh

InLoop(p) == pc[p] = "loop"

IsSetUp(p) ==
  \E d \in Held(p) : conf[d] = [up |-> TRUE, mtu |-> TRUE, addr |-> Own[p]]

(***************************************************************************)
(* A server in its loop whose tun_fd is its device has lost at most the    *)
(* address of this device, which a client of the same host has then        *)
(* replaced by its own: whatever else starts and ends meanwhile, nothing   *)
(* else touches what svpn_fd.c has set.                                    *)
(***************************************************************************)
ServerKeepsDevice ==
  \A p \in Servers : InLoop(p) /\ tunfd[p] = "device" =>
    \/ IsSetUp(p)
    \/ /\ owner[0] = p
       /\ conf[0].up /\ conf[0].mtu
       /\ \E c \in Clients : conf[0].addr = Own[c]

(***************************************************************************)
(* A client in its loop whose device is tun0 has it set up for itself, if  *)
(* its commands have worked, although every client configures tun0: the    *)
(* one that holds port 123 (src/client/svpn_fd.c:53) is the only one that  *)
(* far.                                                                    *)
(***************************************************************************)
ClientKeepsTun0 ==
  \A p \in Clients \ failed : InLoop(p) /\ owner[0] = p => IsSetUp(p)

(***************************************************************************)
(* README.md:64, `here a tunnel named tunX will be set up': a server in    *)
(* its loop reads from its device.                                         *)
(***************************************************************************)
ServerHasTunnel == \A p \in Servers : InLoop(p) => tunfd[p] = "device"

(***************************************************************************)
(* README.md:34, `There will be a tunnel named tunX being set up': that of *)
(* a client in its loop is.                                                *)
(***************************************************************************)
ClientHasTunnel == \A p \in Clients : InLoop(p) => IsSetUp(p)
=============================================================================
