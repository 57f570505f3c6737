---------------------------- MODULE LegacyThreads ----------------------------
(***************************************************************************)
(* The two threads of the legacy client (old-code/old/linux/               *)
(* svpn_client.c) and the calls that start, stop, wait for and release     *)
(* them.  The receiving thread takes packets from the socket to the        *)
(* tunnel, the sending thread from the tunnel to the socket; each looks at *)
(* its flag, blocks for a packet and handles it.  Stopping a thread clears *)
(* its flag and sends it SIGUSR1, whose handler only prints, to make the   *)
(* call it blocks in fail with EINTR.                                      *)
(*                                                                         *)
(* A signal is pending until the thread takes it, and one that is taken    *)
(* before the thread blocks has no effect.  One thread of the program      *)
(* makes the calls.                                                        *)
(***************************************************************************)
EXTENDS Integers

CONSTANTS
  Thread,      \* the threads there can be, in the order they are created
  NoThread     \* what recv_tid and send_tid hold at first

Dir == {"recv", "send"}

ASSUME ThreadAssumption == Thread \subseteq Nat
ASSUME NoThreadAssumption == NoThread \notin Thread

VARIABLES
  waits,     \* whether the caller waits for a thread it has stopped, and only
             \* then starts another one or releases the client: its habit
  on,        \* recv_thread_on and send_thread_on
  tid,       \* recv_tid and send_tid
  pc,        \* where each thread is
  joined,    \* the threads that have been waited for
  dir,       \* which of the two it is
  pending,   \* the threads SIGUSR1 is pending for
  caller,    \* the call that is made, and for which direction
  released,  \* "no", or what of psc is gone: "files", "handler", "memory"
  program,   \* "runs", or how it ended: "killed", "undefined"
  late       \* history: how many packets each thread has handled since it was
             \* stopped, as long as psc is there

vars ==
  <<waits, on, tid, pc, joined, dir, pending, caller, released, program, late>>

threadVars == <<pc, pending, late>>
callVars == <<waits, on, tid, joined, dir, caller, released>>

Live == {"test", "enter", "blocked", "packet"}

IsLive(t) == pc[t] \in Live

LiveThreads == { t \in Thread : IsLive(t) }

Idle == [call |-> "none", of |-> "recv"]

Init ==
  /\ waits \in BOOLEAN
  /\ on = [d \in Dir |-> FALSE]
  /\ tid = [d \in Dir |-> NoThread]
  /\ pc = [t \in Thread |-> "unborn"]
  /\ dir = [t \in Thread |-> "recv"]
  /\ joined = {}
  /\ pending = {}
  /\ caller = Idle
  /\ released = "no"
  /\ program = "runs"
  /\ late = [t \in Thread |-> 0]

(***************************************************************************)
(* recv_tid or send_tid names a thread that can be joined.                 *)
(***************************************************************************)
Joinable(d) == tid[d] # NoThread /\ tid[d] \notin joined

Call(c, d) == caller' = [call |-> c, of |-> d]

Late(t) == IF on[dir[t]] \/ released = "memory" THEN 0 ELSE 1

Goes(t, step) == pc' = [pc EXCEPT ![t] = step]

-----------------------------------------------------------------------------
(***************************************************************************)
(* The loops of the threads.  The flag is in memory that may be freed, and *)
(* can then be anything.  A signal that is pending for a thread that ends  *)
(* is gone.                                                                *)
(***************************************************************************)
Test(t) ==
  /\ pc[t] = "test"
  /\ \/ /\ released = "memory" \/ on[dir[t]]
        /\ Goes(t, "enter")
        /\ pending' = pending
     \/ /\ released = "memory" \/ ~on[dir[t]]
        /\ Goes(t, "ended")
        /\ pending' = pending \ {t}
  /\ UNCHANGED <<callVars, program, late>>

(***************************************************************************)
(* The call of recvfrom or read: it blocks, or fails with EBADF.  The      *)
(* number of the descriptor is in memory that may be freed, too.           *)
(***************************************************************************)
Enter(t) ==
  /\ pc[t] = "enter"
  /\ \/ released \in {"no", "memory"} /\ Goes(t, "blocked")
     \/ released # "no" /\ Goes(t, "test")
  /\ UNCHANGED <<callVars, pending, program, late>>

(***************************************************************************)
(* A packet comes.                                                         *)
(***************************************************************************)
Packet(t) ==
  /\ pc[t] = "blocked"
  /\ Goes(t, "packet")
  /\ UNCHANGED <<callVars, pending, program, late>>

\* mutant of Handle: the loop does not look at the flag again
HandleLoops(t) ==
  /\ pc[t] = "packet"
  /\ late' = [late EXCEPT ![t] = IF @ = 2 THEN 2 ELSE @ + Late(t)]
  /\ Goes(t, "enter")
  /\ UNCHANGED <<callVars, pending, program>>

(***************************************************************************)
(* It is decrypted or encrypted and written.                               *)
(***************************************************************************)
Handle(t) ==
  /\ pc[t] = "packet"
  /\ late' = [late EXCEPT ![t] = @ + Late(t)]
  /\ Goes(t, "test")
  /\ UNCHANGED <<callVars, pending, program>>

(***************************************************************************)
(* A thread takes its signal.  Where it blocks the thread ends; once the   *)
(* old action of the signal is back, the program does.                     *)
(***************************************************************************)
TakeSignal(t) ==
  /\ t \in pending
  /\ pending' = pending \ {t}
  /\ IF released \in {"handler", "memory"}
       THEN program' = "killed" /\ pc' = pc
       ELSE /\ program' = program
            /\ Goes(t, IF pc[t] = "blocked" THEN "ended" ELSE pc[t])
  /\ UNCHANGED <<callVars, late>>

(***************************************************************************)
(* Somebody else signals the program, and the kernel chooses this thread.  *)
(***************************************************************************)
Disturb(t) ==
  /\ IsLive(t)
  /\ released \in {"no", "files"}
  /\ pending' = pending \cup {t}
  /\ UNCHANGED <<callVars, pc, program, late>>

-----------------------------------------------------------------------------
(***************************************************************************)
(* svpn_start_recv_thread and svpn_start_send_thread.  Only a caller that  *)
(* does not wait starts a direction whose thread it has not waited for:    *)
(* the functions do not look.  pthread_create is taken to succeed; nothing *)
(* looks at its result.                                                    *)
(***************************************************************************)
Start(d, t) ==
  /\ caller.call = "none" /\ released = "no"
  /\ waits => ~Joinable(d)
  /\ pc[t] = "unborn"
  /\ \A s \in Thread : pc[s] = "unborn" => t <= s
  /\ on' = [on EXCEPT ![d] = TRUE]
  /\ tid' = [tid EXCEPT ![d] = t]
  /\ dir' = [dir EXCEPT ![t] = d]
  /\ Goes(t, "test")
  /\ late' = [s \in Thread |-> IF dir[s] = d THEN 0 ELSE late[s]]
  /\ UNCHANGED <<waits, joined, pending, caller, released, program>>

(***************************************************************************)
(* svpn_stop_recv_thread and svpn_stop_send_thread: the flag, then the     *)
(* signal.                                                                 *)
(***************************************************************************)
Stop(d) ==
  /\ caller.call = "none" /\ released = "no"
  /\ Joinable(d)
  /\ on' = [on EXCEPT ![d] = FALSE]
  /\ Call("kill", d)
  /\ UNCHANGED <<waits, threadVars, tid, joined, dir, released, program>>

(***************************************************************************)
(* pthread_kill: nothing for a thread that has ended; for one that has     *)
(* been joined its behaviour is undefined.                                 *)
(***************************************************************************)
Kill(d) ==
  /\ caller.call \in {"kill", "release-kill"} /\ caller.of = d
  /\ IF Joinable(d)
       THEN /\ pending' = pending \cup ({tid[d]} \cap LiveThreads)
            /\ program' = program
       ELSE pending' = pending /\ program' = "undefined"
  /\ Call(IF caller.call = "kill" THEN "none" ELSE "release", "recv")
  /\ UNCHANGED <<waits, on, tid, joined, dir, pc, released, late>>

(***************************************************************************)
(* svpn_wait_recv_thread and svpn_wait_send_thread.                        *)
(***************************************************************************)
Wait(d) ==
  /\ caller.call = "none" /\ released = "no"
  /\ Joinable(d)
  /\ waits => ~on[d]
  /\ Call("wait", d)
  /\ UNCHANGED <<waits, threadVars, on, tid, joined, dir, released, program>>

\* mutant of Joined: pthread_join is not called
JoinedAtOnce(d) ==
  /\ caller = [call |-> "wait", of |-> d]
  /\ joined' = joined \cup {tid[d]}
  /\ caller' = Idle
  /\ UNCHANGED <<waits, threadVars, on, tid, dir, released, program>>

Joined(d) ==
  /\ caller = [call |-> "wait", of |-> d]
  /\ pc[tid[d]] = "ended"
  /\ joined' = joined \cup {tid[d]}
  /\ caller' = Idle
  /\ UNCHANGED <<waits, threadVars, on, tid, dir, released, program>>

(***************************************************************************)
(* svpn_release: it stops, but does not wait for, the threads whose flag   *)
(* is set, the receiving one first; closes the descriptors; puts the old   *)
(* action of the signal back; and frees psc.                               *)
(***************************************************************************)
Release ==
  /\ caller.call = "none" /\ released = "no"
  /\ waits => \A d \in Dir : ~Joinable(d)
  /\ Call("release", "recv")
  /\ UNCHANGED <<waits, threadVars, on, tid, joined, dir, released, program>>

ReleaseStops(d) ==
  /\ caller.call = "release" /\ released = "no"
  /\ on[d] /\ (d = "send" => ~on["recv"])
  /\ on' = [on EXCEPT ![d] = FALSE]
  /\ Call("release-kill", d)
  /\ UNCHANGED <<waits, threadVars, tid, joined, dir, released, program>>

ReleaseFrees ==
  /\ caller.call = "release"
  /\ \A d \in Dir : ~on[d]
  /\ \/ released = "no" /\ released' = "files"
     \/ released = "files" /\ released' = "handler"
     \/ released = "handler" /\ released' = "memory"
  /\ UNCHANGED <<waits, threadVars, on, tid, joined, dir, caller, program>>

LoopStep(t) == Test(t) \/ Enter(t) \/ Packet(t) \/ Handle(t)

SignalStep(t) == TakeSignal(t) \/ Disturb(t)

CallStep ==
  \/ \E d \in Dir : \/ \E t \in Thread : Start(d, t)
                    \/ Stop(d) \/ Kill(d) \/ Wait(d) \/ Joined(d)
                    \/ ReleaseStops(d)
  \/ Release \/ ReleaseFrees

Next ==
  /\ program = "runs"
  /\ CallStep \/ \E t \in Thread : LoopStep(t) \/ SignalStep(t)

Spec == Init /\ [][Next]_vars

(***************************************************************************)
(* Threads go on, and a packet comes in the end for a thread that blocks;  *)
(* calls that have begun go on.  Nothing makes the caller call.            *)
(***************************************************************************)
Fairness ==
  /\ \A t \in Thread : WF_vars(program = "runs" /\ LoopStep(t))
  /\ WF_vars(program = "runs" /\ \E d \in Dir : Kill(d) \/ Joined(d))

FairSpec == Spec /\ Fairness

-----------------------------------------------------------------------------
TypeOK ==
  /\ waits \in BOOLEAN
  /\ on \in [Dir -> BOOLEAN]
  /\ tid \in [Dir -> Thread \cup {NoThread}]
  /\ pc \in [Thread -> Live \cup {"unborn", "ended"}]
  /\ joined \subseteq Thread
  /\ dir \in [Thread -> Dir]
  /\ pending \subseteq LiveThreads
  /\ caller \in [call : {"none", "kill", "wait", "release", "release-kill"},
                 of : Dir]
  /\ released \in {"no", "files", "handler", "memory"}
  /\ program \in {"runs", "killed", "undefined"}
  /\ late \in [Thread -> Nat]

(***************************************************************************)
(* A caller that waits is safe: no thread uses psc or its descriptors any  *)
(* more when svpn_release gives them back (svpn_client.c:202-207).         *)
(***************************************************************************)
QuietRelease == waits /\ released # "no" => \A t \in Thread : ~IsLive(t)

(***************************************************************************)
(* Its program is never ended by its own signal, which could come after    *)
(* svpn_release has put the old action back, nor does it signal a thread   *)
(* that is joined.                                                         *)
(***************************************************************************)
Survives == waits => program = "runs"

(***************************************************************************)
(* Whatever the caller does: though the signal of a stop can be lost, a    *)
(* stopped thread handles one packet more at most, unless its direction is *)
(* started again or its memory is gone.                                    *)
(***************************************************************************)
OneMore == \A t \in Thread : late[t] <= 1

(***************************************************************************)
(* Whatever the caller does, if packets keep coming: a thread whose        *)
(* direction is stopped ends and whoever waits for it goes on, unless its  *)
(* direction is started again, its memory is gone or the program is.  That *)
(* holds also of a thread whose place in recv_tid or send_tid another one  *)
(* has taken (svpn_client.c:226, 237), which no stop can signal.           *)
(***************************************************************************)
IsStopping(t) == IsLive(t) /\ ~on[dir[t]]

IsAwaited(t) ==
  caller.call = "wait" /\ tid[caller.of] = t /\ ~on[caller.of]

StopStops ==
  \A t \in Thread :
    IsStopping(t) \/ IsAwaited(t)
      ~> \/ ~IsStopping(t) /\ ~IsAwaited(t)
         \/ released = "memory" \/ program # "runs"
=============================================================================
