----------------------------- MODULE Win32Client -----------------------------
(***************************************************************************)
(* The thread of the legacy Windows client (Client::SendCycle of           *)
(* old-code/old/win32/Wtaet/Client.cpp) and its two overlapped reads, one  *)
(* on the socket (comm.cpp) and one on the tunnel device (tun.cpp).        *)
(*                                                                         *)
(* A read is begun, completes or fails while the thread does something     *)
(* else, and is ended after WaitForMultipleObjects has returned its event. *)
(* The socket's event is the first of the two and is manual-reset: only    *)
(* the next read clears it.  The event of the device is auto-reset.  The   *)
(* thread handles what it has read and begins the next read.  It ignores   *)
(* every result.                                                           *)
(*                                                                         *)
(* Datagrams and packets have numbers, in the order they come in, which    *)
(* start again after Count.  The driver takes a packet before WriteFile    *)
(* returns.                                                                *)
(***************************************************************************)
EXTENDS Integers, Sequences

CONSTANTS
  Count,    \* how many numbers there are
  Room,     \* bound: what waits in the socket, and in the device
  Sender,   \* the addresses datagrams come from
  Server,   \* the one in the configuration
  Junk      \* what a buffer holds that was never filled

Side == {"sock", "tun"}
Number == 0 .. Count - 1

(***************************************************************************)
(* Datagrams have a sender; packets are IPv4 or not, which nobody asks of  *)
(* a datagram.                                                             *)
(***************************************************************************)
Sort(s) == IF s = "sock" THEN [from : Sender, ver4 : {TRUE}]
           ELSE [from : {Server}, ver4 : BOOLEAN]

Content == [n : Number, ver4 : BOOLEAN]

Unfilled == [n |-> Count - 1, ver4 |-> Junk]

ASSUME RoomAssumption == Room \in Nat \ {0}
(* What waits and what a read has filled in have numbers that differ from  *)
(* that of what is handled next                                            *)
ASSUME CountAssumption == Count \in Nat /\ Count >= Room + 2
ASSUME SenderAssumption == Server \in Sender
ASSUME JunkAssumption == Junk \notin BOOLEAN

VARIABLES
  pc,         \* where the program is, and then its thread
  bound,      \* whether the socket has its port
  queue,      \* what waits in the socket and in the device
  came,       \* the number of what came last
  req,        \* the read of each side, "none" between its end and the next
  signalled,  \* the events that are set
  readState,  \* readState == 1 of comm and of tun
  inner,      \* innerBuf of comm and of tun
  held,       \* buf and tunbuf of SendCycle
  plain,      \* whether buf holds what was decrypted
  peer,       \* ServerAddr: where a read of the socket puts the sender, and
              \* where datagrams are sent
  again,      \* history: whether the last read of a side to end had failed
  out         \* history: the number of what each side handled last

osVars == <<bound, queue, came, req, signalled, inner, peer>>
loopVars == <<readState, held, plain, again, out>>
vars == <<pc, osVars, loopVars>>

Succ(n) == (n + 1) % Count

Init ==
  /\ pc = "connect"
  /\ bound = FALSE
  /\ queue = [s \in Side |-> <<>>]
  /\ came = [s \in Side |-> Count - 1]
  /\ req = [s \in Side |-> "none"]
  /\ signalled = {}
  /\ readState = [s \in Side |-> FALSE]
  /\ inner = [s \in Side |-> Unfilled]
  /\ held = [s \in Side |-> Unfilled]
  /\ plain = TRUE
  /\ peer = Server
  /\ again = [s \in Side |-> FALSE]
  /\ out = [s \in Side |-> Count - 1]

-----------------------------------------------------------------------------
(***************************************************************************)
(* The system.  Something comes in; a read gets what has come in first,    *)
(* that of the socket with its sender; or it fails, for instance because   *)
(* a datagram that was sent has come back as unreachable.                  *)
(***************************************************************************)
ComesIn(s, sort) ==
  /\ IF s = "sock" THEN bound ELSE pc \notin {"connect", "open"}
  /\ Len(queue[s]) < Room
  /\ came' = [came EXCEPT ![s] = Succ(@)]
  /\ queue' = [queue EXCEPT ![s] =
                 Append(@, [n |-> Succ(came[s]), sort |-> sort])]
  /\ UNCHANGED <<pc, bound, req, signalled, inner, peer, loopVars>>

Data(x) == [n |-> x.n, ver4 |-> x.sort.ver4]

Fills(s) ==
  /\ queue[s] # <<>>
  /\ inner' = [inner EXCEPT ![s] = Data(Head(queue[s]))]
  /\ queue' = [queue EXCEPT ![s] = Tail(@)]
  /\ peer' = IF s = "sock" THEN Head(queue[s]).sort.from ELSE peer
  /\ req' = [req EXCEPT ![s] = "done"]
  /\ signalled' = signalled \cup {s}
  /\ UNCHANGED <<bound, came>>

Completes(s) ==
  /\ req[s] = "pending"
  /\ Fills(s)
  /\ UNCHANGED <<pc, loopVars>>

Fails(s) ==
  /\ req[s] = "pending"
  /\ req' = [req EXCEPT ![s] = "failed"]
  /\ signalled' = signalled \cup {s}
  /\ UNCHANGED <<pc, bound, queue, came, inner, peer, loopVars>>

(***************************************************************************)
(* A read that cannot be done at once is pending, or it is refused.        *)
(* Either way its event is cleared.                                        *)
(***************************************************************************)
Unready(s, result) ==
  /\ req' = [req EXCEPT ![s] = result]
  /\ signalled' = signalled \ {s}
  /\ UNCHANGED <<bound, queue, came, inner, peer>>

Pends(s) ==
  /\ queue[s] = <<>> /\ (s = "sock" => bound)
  /\ Unready(s, "pending")

Refused(s) == Unready(s, "refused")

-----------------------------------------------------------------------------
(***************************************************************************)
(* The client starts.  When it does not find its server or its device, the *)
(* thread is created all the same, with a connection that was deleted or a *)
(* pointer that was never set.  Whether bind has worked nobody asks: a     *)
(* socket without a port refuses to receive, and gets one when it sends,   *)
(* which is too late.                                                      *)
(***************************************************************************)
Connect ==
  /\ pc = "connect"
  /\ \/ pc' = "open" /\ bound' \in BOOLEAN
     \/ pc' = "undefined" /\ bound' = bound
  /\ UNCHANGED <<queue, came, req, signalled, inner, peer, loopVars>>

OpenDriver ==
  /\ pc = "open"
  /\ pc' \in {"first read", "undefined"}
  /\ UNCHANGED <<osVars, loopVars>>

\* mutant of AtOnce: zero, which is what WSARecvFrom returns then, is tested
AtOnceFixed(ret) == ret = 0

(***************************************************************************)
(* The test for a read of the socket that was done at once.                *)
(***************************************************************************)
AtOnce(ret) == ret > 0

Finished(s) == out' = [out EXCEPT ![s] = held[s].n]

(***************************************************************************)
(* BeginRead of the device, before the loop and at the end of its turns.   *)
(***************************************************************************)
PostRead ==
  \/ Fills("tun") /\ readState' = [readState EXCEPT !["tun"] = TRUE]
  \/ Pends("tun") /\ readState' = [readState EXCEPT !["tun"] = FALSE]
  \/ Refused("tun") /\ readState' = readState

\* mutant of BeginRead: the event is set whether there is something or not
BeginReadSets ==
  /\ pc \in {"first read", "next read"}
  /\ \/ /\ Fills("tun")
        /\ readState' = [readState EXCEPT !["tun"] = TRUE]
     \/ /\ queue["tun"] = <<>>
        /\ req' = [req EXCEPT !["tun"] = "pending"]
        /\ signalled' = signalled \cup {"tun"}
        /\ readState' = [readState EXCEPT !["tun"] = FALSE]
        /\ UNCHANGED <<bound, queue, came, inner, peer>>
  /\ IF pc = "first read"
       THEN pc' = "first receive" /\ out' = out
       ELSE pc' = "wait" /\ Finished("tun")
  /\ UNCHANGED <<held, plain, again>>

BeginRead ==
  /\ pc \in {"first read", "next read"}
  /\ PostRead
  /\ IF pc = "first read"
       THEN pc' = "first receive" /\ out' = out
       ELSE pc' = "wait" /\ Finished("tun")
  /\ UNCHANGED <<held, plain, again>>

(***************************************************************************)
(* BeginRecvDecrypt.  WSARecvFrom returns 0 if there is a datagram, and    *)
(* what WSAGetLastError says then is left from an earlier call.            *)
(***************************************************************************)
PostReceive ==
  \/ /\ Fills("sock")
     /\ IF AtOnce(0) THEN readState' = [readState EXCEPT !["sock"] = TRUE]
        ELSE \/ readState' = [readState EXCEPT !["sock"] = FALSE]
             \/ readState' = readState
  \/ Pends("sock") /\ readState' = [readState EXCEPT !["sock"] = FALSE]
  \/ Refused("sock") /\ readState' = readState

BeginRecvDecrypt ==
  /\ pc \in {"first receive", "next receive"}
  /\ PostReceive
  /\ pc' = "wait"
  /\ IF pc = "first receive" THEN out' = out ELSE Finished("sock")
  /\ UNCHANGED <<held, plain, again>>

(***************************************************************************)
(* WaitForMultipleObjects returns the first event that is set.             *)
(***************************************************************************)
Wait ==
  /\ pc = "wait"
  /\ \/ /\ "sock" \in signalled
        /\ pc' = "end receive"
        /\ signalled' = signalled
     \/ /\ "sock" \notin signalled /\ "tun" \in signalled
        /\ pc' = "end read"
        /\ signalled' = signalled \ {"tun"}
  /\ UNCHANGED <<bound, queue, came, req, inner, peer, loopVars>>

(***************************************************************************)
(* The read of side s ends and has brought something.                      *)
(***************************************************************************)
Ends(s) ==
  /\ req' = [req EXCEPT ![s] = IF @ = "pending" THEN @ ELSE "none"]
  /\ UNCHANGED <<bound, queue, came, signalled, inner, peer, out>>

Gets(s) ==
  /\ Ends(s)
  /\ held' = [held EXCEPT ![s] = inner[s]]
  /\ readState' = [readState EXCEPT ![s] = FALSE]
  /\ again' = [again EXCEPT ![s] = FALSE]

(***************************************************************************)
(* It has failed, or is still pending: the buffer is as it was.            *)
(***************************************************************************)
GetsNothing(s) ==
  /\ ~readState[s] /\ req[s] # "done"
  /\ Ends(s)
  /\ again' = [again EXCEPT ![s] = TRUE]
  /\ UNCHANGED <<held, plain, readState>>

\* mutant of EndRecvDecrypt: the next read is begun before the bytes are used
EndRecvEarly ==
  /\ pc = "end receive"
  /\ req["sock"] = "done"
  /\ Fills("sock") \/ Pends("sock")
  /\ held' = [held EXCEPT !["sock"] = inner'["sock"]]
  /\ again' = [again EXCEPT !["sock"] = FALSE]
  /\ pc' = "write"
  /\ UNCHANGED <<readState, plain, out>>

\* mutant of EndRecvDecrypt: a read that has failed ends the turn
EndRecvGivesUp ==
  /\ pc = "end receive"
  /\ \/ /\ readState["sock"] \/ req["sock"] = "done"
        /\ Gets("sock")
        /\ plain' = ~readState["sock"]
        /\ pc' = "write"
     \/ GetsNothing("sock") /\ pc' = "wait"

(***************************************************************************)
(* EndRecvDecrypt.  Where the state is 1 what was received is copied over  *)
(* what was decrypted.  A buffer and a length that were never written are  *)
(* compressed all the same.                                                *)
(***************************************************************************)
EndRecvDecrypt ==
  /\ pc = "end receive"
  /\ \/ /\ readState["sock"] \/ req["sock"] = "done"
        /\ Gets("sock")
        /\ plain' = ~readState["sock"]
        /\ pc' = "write"
     \/ /\ GetsNothing("sock")
        /\ pc' \in IF held["sock"] = Unfilled THEN {"write", "undefined"}
                   ELSE {"write"}

(***************************************************************************)
(* Write: what the socket's branch holds goes to the device.               *)
(***************************************************************************)
Write ==
  /\ pc = "write"
  /\ pc' = "next receive"
  /\ UNCHANGED <<osVars, loopVars>>

\* mutant of EndRead: a packet that is not IPv4 ends the turn
EndReadContinues ==
  /\ pc = "end read"
  /\ \/ /\ readState["tun"] \/ req["tun"] = "done"
        /\ Gets("tun")
        /\ plain' = plain
     \/ GetsNothing("tun")
  /\ pc' = IF held'["tun"].ver4 = FALSE THEN "wait" ELSE "send"

(***************************************************************************)
(* EndRead and the test of the version, which may be made on a buffer that *)
(* was never written.                                                      *)
(***************************************************************************)
EndRead ==
  /\ pc = "end read"
  /\ \/ /\ readState["tun"] \/ req["tun"] = "done"
        /\ Gets("tun")
        /\ plain' = plain
     \/ GetsNothing("tun")
  /\ IF held'["tun"] = Unfilled
       THEN pc' \in {"send", "next read", "undefined"}
       ELSE pc' = IF held'["tun"].ver4 THEN "send" ELSE "next read"

(***************************************************************************)
(* SendEncrypt: the packet goes to ServerAddr.                             *)
(***************************************************************************)
SendEncrypt ==
  /\ pc = "send"
  /\ pc' = "next read"
  /\ UNCHANGED <<osVars, loopVars>>

Loop ==
  \/ BeginRead \/ BeginRecvDecrypt \/ Wait
  \/ EndRecvDecrypt \/ Write \/ EndRead \/ SendEncrypt

Next ==
  \/ Connect \/ OpenDriver \/ Loop
  \/ \E s \in Side : \/ \E sort \in Sort(s) : ComesIn(s, sort)
                     \/ Completes(s) \/ Fails(s)

Spec == Init /\ [][Next]_vars

(***************************************************************************)
(* The thread goes on, and the system completes reads: they do not fail    *)
(* for ever while there is something to read.                              *)
(***************************************************************************)
FairSpec ==
  /\ Spec
  /\ WF_vars(Connect \/ OpenDriver \/ Loop)
  /\ \A s \in Side : SF_vars(Completes(s))

-----------------------------------------------------------------------------
Waiting == [n : Number, sort : [from : Sender, ver4 : BOOLEAN]]

TypeOK ==
  /\ pc \in {"connect", "open", "first read", "first receive", "wait",
             "end receive", "write", "next receive",
             "end read", "send", "next read", "undefined"}
  /\ bound \in BOOLEAN
  /\ queue \in [Side -> Seq(Waiting)]
  /\ \A s \in Side : Len(queue[s]) <= Room
  /\ inner \in [Side -> Content \cup {Unfilled}]
  /\ held \in [Side -> Content \cup {Unfilled}]
  /\ came \in [Side -> Number] /\ out \in [Side -> Number]
  /\ req \in [Side -> {"none", "pending", "done", "failed", "refused"}]
  /\ signalled \subseteq Side
  /\ readState \in [Side -> BOOLEAN] /\ again \in [Side -> BOOLEAN]
  /\ \A s \in Side : readState[s] => req[s] = "done"
  /\ plain \in BOOLEAN
  /\ peer \in Sender

Handling(s) ==
  IF s = "sock" THEN {"write", "next receive"} ELSE {"send", "next read"}

Ending(s) == IF s = "sock" THEN "end receive" ELSE "end read"

(***************************************************************************)
(* Each side hands on what comes in one after the other, with nothing left *)
(* out and nothing twice, except that after a read that has failed it      *)
(* handles what it handled before once more (Client.cpp ignores the result *)
(* of EndRecvDecrypt): a begun read has never overwritten what was not     *)
(* handled.                                                                *)
(***************************************************************************)
HandsOnNext ==
  \A s \in Side : pc \in Handling(s) =>
    held[s].n = IF again[s] THEN out[s] ELSE Succ(out[s])

(***************************************************************************)
(* A read is only ended when it is over: nothing fills innerBuf while it   *)
(* is decrypted or copied, though the program sets the events too and one  *)
(* of them is not reset by the wait (comm.cpp:114, tun.cpp:286).           *)
(***************************************************************************)
EndsWhatIsOver ==
  \A s \in Side : pc = Ending(s) => req[s] \in {"done", "failed"}

(***************************************************************************)
(* What is written to the device has been decrypted: comm.cpp:226, which   *)
(* copies what was received over it, is never reached.                     *)
(***************************************************************************)
WritesPlain == pc = "write" => plain

(***************************************************************************)
(* When the thread waits, each side has a read under way, unless beginning *)
(* it was refused, after which nothing will read that side again.          *)
(***************************************************************************)
Listens == pc = "wait" => \A s \in Side : req[s] # "none"

(***************************************************************************)
(* What comes in is handled, unless a read of its side is refused; but the *)
(* device waits for as long as there are datagrams, since the event of the *)
(* socket is the first one (Client.cpp:50-54).                             *)
(***************************************************************************)
WaitsFor(s, n) ==
  \/ \E k \in 1 .. Len(queue[s]) : queue[s][k].n = n
  \/ req[s] = "done" /\ inner[s].n = n

Deaf(s) == req[s] = "refused" \/ pc = "undefined"

Served(s) ==
  \A n \in Number :
    WaitsFor(s, n) ~> (pc \in Handling(s) /\ held[s].n = n) \/ Deaf(s)

BothServed ==
  /\ Served("sock")
  /\ <>[]("sock" \notin signalled) => Served("tun")

(***************************************************************************)
(* The client finds back to its server.  Whoever sends a datagram gets     *)
(* what the client sends after it (comm.cpp:201), but only for as long as  *)
(* the server is not heard: once a datagram of the server is the next in   *)
(* the socket, the client sends there again in the end, although reads     *)
(* fail and other senders go on, unless a read is refused; and when only   *)
(* the server is left, for good.                                           *)
(***************************************************************************)
NextFromServer ==
  queue["sock"] # <<>> /\ queue["sock"][1].sort.from = Server

OnlyFromServer ==
  /\ \A k \in 1 .. Len(queue["sock"]) : queue["sock"][k].sort.from = Server
  /\ ~Deaf("sock")

Follows ==
  /\ NextFromServer ~> peer = Server \/ Deaf("sock")
  /\ <>[]OnlyFromServer /\ []<>(queue["sock"] # <<>>) => <>[](peer = Server)
=============================================================================
