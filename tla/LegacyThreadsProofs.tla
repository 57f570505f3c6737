------------------------- MODULE LegacyThreadsProofs -------------------------
(***************************************************************************)
(* The threads of the legacy client are safe, for any number of threads:   *)
(* with a caller that waits nothing runs when the client is released, and  *)
(* with any caller a stopped thread handles one packet more at most.       *)
(***************************************************************************)
EXTENDS LegacyThreads, TLAPS

(***************************************************************************)
(* A thread that has handled a packet since it was stopped comes to the    *)
(* test of its flag next, and the flag is off.                             *)
(***************************************************************************)
Stopped ==
  \A t \in Thread :
    /\ late[t] \in {0, 1}
    /\ late[t] = 1 /\ released # "memory" =>
         ~on[dir[t]] /\ pc[t] \in {"test", "ended"}

(***************************************************************************)
(* The two directions know different threads, which have been started;     *)
(* who waits does so for a thread, and nothing has happened to psc or the  *)
(* program by then.                                                        *)
(***************************************************************************)
Named ==
  /\ \A d \in Dir :
       tid[d] # NoThread => dir[tid[d]] = d /\ pc[tid[d]] # "unborn"
  /\ caller.call = "wait" => tid[caller.of] # NoThread /\ program = "runs"
  /\ released # "no" => caller.call = "release"

(***************************************************************************)
(* With a caller that waits, a thread that lives is the one its direction  *)
(* knows, and no call is under way that it should not be in.               *)
(***************************************************************************)
Known == \A t \in Thread : IsLive(t) => tid[dir[t]] = t /\ t \notin joined

Waited ==
  /\ \A t \in joined : pc[t] = "ended"
  /\ \A d \in Dir : on[d] => Joinable(d)
  /\ caller.call \in {"kill", "wait"} => Joinable(caller.of)
  /\ caller.call = "wait" => ~on[caller.of]

Released ==
  /\ caller.call = "release" => \A d \in Dir : ~Joinable(d)
  /\ caller.call # "release-kill"

IInv ==
  /\ TypeOK
  /\ Stopped
  /\ Named
  /\ waits => Known /\ Waited /\ Released /\ program = "runs"

-----------------------------------------------------------------------------
LEMMA InitEstablishes == Init => IInv
<1> SUFFICES ASSUME Init
             PROVE  IInv
  OBVIOUS
<1>1. TypeOK
  BY DEF Init, TypeOK, Idle, Dir
<1>2. Stopped
  <2>1. \A t \in Thread : late[t] = 0
    BY DEF Init
  <2>2. ASSUME NEW t \in Thread
        PROVE  late[t] \in {0, 1} /\ late[t] # 1
    <3>1. late[t] = 0
      BY <2>1
    <3>2. QED
      BY <3>1
  <2>3. QED
    BY <2>2 DEF Stopped
<1>3. Named /\ Known /\ Waited /\ Released
  BY DEF Init, Named, Known, Waited, Released, IsLive, Live, Idle
<1>4. QED
  BY <1>1, <1>2, <1>3 DEF Init, IInv

(***************************************************************************)
(* A thread takes a step of its loop or its signal and lives on or ends.   *)
(***************************************************************************)
LEMMA ThreadStep ==
  ASSUME IInv, NEW t \in Thread, IsLive(t),
         NEW step \in Live \cup {"ended"},
         pc' = [pc EXCEPT ![t] = step],
         pending' \subseteq LiveThreads \ (IF step = "ended" THEN {t} ELSE {}),
         late' = late, UNCHANGED callVars, program' = program,
         step \in {"test", "ended", pc[t]}
           \/ on[dir[t]] \/ late[t] = 0 \/ released = "memory"
  PROVE  IInv'
<1>1. TypeOK /\ Stopped /\ Named /\ pc[t] \in Live
  BY DEF IInv, IsLive
<1>2. \A s \in Thread : pc'[s] = IF s = t THEN step ELSE pc[s]
  BY <1>1 DEF TypeOK
<1>3. \A s \in Thread : s # t => (IsLive(s)' <=> IsLive(s))
  BY <1>2 DEF IsLive
<1>4. step # "ended" => IsLive(t)'
  BY <1>2 DEF IsLive
<1>5. TypeOK'
  <2>1. pc' \in [Thread -> Live \cup {"unborn", "ended"}]
    BY <1>1, <1>2 DEF TypeOK
  <2>2. pending' \subseteq LiveThreads'
    BY <1>3, <1>4 DEF LiveThreads
  <2>3. QED
    BY <1>1, <2>1, <2>2 DEF TypeOK, callVars
<1>6. Stopped'
  BY <1>1, <1>2 DEF Stopped, callVars
<1>7. Named'
  <2>1. \A d \in Dir : tid[d] # NoThread => tid[d] \in Thread
    BY <1>1 DEF TypeOK
  <2>2. step # "unborn"
    BY DEF Live
  <2>3. QED
    BY <1>1, <1>2, <2>1, <2>2 DEF Named, callVars
<1>8. ASSUME waits'
      PROVE  Known' /\ Waited' /\ Released' /\ program' = "runs"
  <2>1. waits /\ Known /\ Waited /\ Released /\ program = "runs"
    BY <1>8 DEF IInv, callVars
  <2>2. Known'
    BY <1>2, <1>3, <2>1 DEF Known, callVars
  <2>3. Waited'
    <3>1. \A s \in joined' : pc'[s] = "ended"
      BY <1>1, <1>2, <2>1 DEF Waited, TypeOK, callVars, Live
    <3>2. QED
      BY <2>1, <3>1 DEF Waited, Joinable, callVars
  <2>4. Released'
    BY <2>1 DEF Released, Joinable, callVars
  <2>5. QED
    BY <2>1, <2>2, <2>3, <2>4
<1>9. QED
  BY <1>5, <1>6, <1>7, <1>8 DEF IInv

LEMMA LoopKeeps ==
  ASSUME IInv, NEW t \in Thread, LoopStep(t)
  PROVE  IInv'
<1>1. TypeOK /\ Stopped /\ Named /\ pending \subseteq LiveThreads
  BY DEF IInv, TypeOK
<1>2. CASE Test(t)
  <2>1. IsLive(t)
    BY <1>2 DEF Test, IsLive, Live
  <2>2. CASE /\ released = "memory" \/ on[dir[t]]
             /\ Goes(t, "enter")
             /\ pending' = pending
    BY <1>1, <1>2, <2>1, <2>2, ThreadStep DEF Test, Goes, Live, Stopped
  <2>3. CASE Goes(t, "ended") /\ pending' = pending \ {t}
    BY <1>1, <1>2, <2>1, <2>3, ThreadStep DEF Test, Goes
  <2>4. QED
    BY <1>2, <2>2, <2>3 DEF Test
<1>3. CASE Enter(t)
  <2>1. IsLive(t) /\ pc[t] = "enter"
    BY <1>3 DEF Enter, IsLive, Live
  <2>2. late[t] = 0 \/ on[dir[t]] \/ released = "memory"
    BY <1>1, <2>1 DEF Stopped
  <2>3. PICK step \in {"blocked", "test"} : Goes(t, step)
    BY <1>3 DEF Enter
  <2>4. QED
    BY <1>1, <1>3, <2>1, <2>2, <2>3, ThreadStep DEF Enter, Goes, Live
<1>4. CASE Packet(t)
  <2>1. IsLive(t) /\ pc[t] = "blocked"
    BY <1>4 DEF Packet, IsLive, Live
  <2>2. late[t] = 0 \/ on[dir[t]] \/ released = "memory"
    BY <1>1, <2>1 DEF Stopped
  <2>3. QED
    BY <1>1, <1>4, <2>1, <2>2, ThreadStep DEF Packet, Goes, Live
<1>5. CASE Handle(t)
  <2>1. /\ pc[t] = "packet" /\ pc' = [pc EXCEPT ![t] = "test"]
        /\ late' = [late EXCEPT ![t] = late[t] + Late(t)]
        /\ UNCHANGED <<callVars, pending, program>>
    BY <1>5 DEF Handle, Goes
  <2>2. \A s \in Thread : /\ pc'[s] = IF s = t THEN "test" ELSE pc[s]
                          /\ IsLive(s)' <=> IsLive(s)
    BY <1>1, <2>1 DEF TypeOK, IsLive, Live
  <2>3. late[t] = 0 \/ on[dir[t]] \/ released = "memory"
    BY <1>1, <2>1 DEF Stopped
  <2>4. \A s \in Thread :
          late'[s] = IF s = t THEN late[t] + Late(t) ELSE late[s]
    BY <1>1, <2>1 DEF TypeOK
  <2>5. /\ late[t] \in {0, 1} /\ Late(t) \in {0, 1}
        /\ late[t] = 1 => Late(t) = 0
    BY <1>1, <2>3 DEF Stopped, Late
  <2>6. late[t] + Late(t) \in {0, 1}
    BY <2>5
  <2>7. TypeOK'
    <3>1. pc' \in [Thread -> Live \cup {"unborn", "ended"}]
      BY <1>1, <2>1 DEF TypeOK, Live
    <3>2. late' \in [Thread -> Nat]
      BY <1>1, <2>1, <2>6 DEF TypeOK
    <3>3. pending' \subseteq LiveThreads'
      BY <1>1, <2>1, <2>2 DEF LiveThreads
    <3>4. QED
      BY <1>1, <2>1, <3>1, <3>2, <3>3 DEF TypeOK, callVars
  <2>8. Stopped'
    <3>1. late'[t] = 1 /\ released # "memory" => ~on[dir[t]]
      BY <1>1, <2>1, <2>4, <2>5 DEF Stopped, Late
    <3>2. QED
      BY <1>1, <2>1, <2>2, <2>4, <2>6, <3>1 DEF Stopped, callVars
  <2>9. ASSUME waits'
        PROVE  Known' /\ Waited' /\ Released' /\ program' = "runs"
    BY <2>1, <2>2, <2>9, <1>1
       DEF IInv, Known, Waited, Released, Joinable, callVars, TypeOK
  <2>10. Named'
    <3>1. \A d \in Dir : tid[d] # NoThread => tid[d] \in Thread
      BY <1>1 DEF TypeOK
    <3>2. QED
      BY <1>1, <2>1, <2>2, <3>1 DEF Named, callVars
  <2>11. QED
    BY <2>7, <2>8, <2>9, <2>10 DEF IInv
<1>6. QED
  BY <1>2, <1>3, <1>4, <1>5 DEF LoopStep

(***************************************************************************)
(* Signals.  Once the old action is back no thread lives that one could be *)
(* pending for, if the caller waits.                                       *)
(***************************************************************************)
LEMMA SignalKeeps ==
  ASSUME IInv, NEW t \in Thread, SignalStep(t)
  PROVE  IInv'
<1>1. TypeOK /\ Stopped /\ Named /\ pending \subseteq LiveThreads
  BY DEF IInv, TypeOK
<1>2. CASE TakeSignal(t)
  <2>1. IsLive(t) /\ t \in pending /\ pending' = pending \ {t}
    BY <1>1, <1>2 DEF TakeSignal, LiveThreads
  <2>2. CASE released \in {"handler", "memory"}
    <3>1. /\ program' = "killed"
          /\ UNCHANGED <<pc, callVars, late>>
      BY <1>2, <2>2 DEF TakeSignal
    <3>2. ~waits
      <4>1. dir[t] \in Dir /\ t # NoThread
        BY <1>1, NoThreadAssumption DEF TypeOK
      <4>2. QED
        BY <2>1, <2>2, <4>1 DEF IInv, Named, Known, Released, Joinable
    <3>3. TypeOK'
      BY <1>1, <2>1, <3>1 DEF TypeOK, callVars, LiveThreads, IsLive
    <3>4. Stopped'
      BY <1>1, <3>1 DEF Stopped, callVars
    <3>5. Named'
      BY <1>1, <2>2, <3>1 DEF Named, callVars
    <3>6. QED
      BY <3>1, <3>2, <3>3, <3>4, <3>5 DEF IInv, callVars
  <2>3. CASE released \notin {"handler", "memory"}
    <3>1. PICK step \in {"ended", pc[t]} :
            /\ Goes(t, step)
            /\ UNCHANGED <<callVars, late, program>>
      BY <1>2, <2>3 DEF TakeSignal
    <3>2. step \in Live \cup {"ended"}
      BY <2>1, <3>1 DEF IsLive
    <3>3. QED
      BY <1>1, <2>1, <3>1, <3>2, ThreadStep DEF Goes
  <2>4. QED
    BY <2>2, <2>3
<1>3. CASE Disturb(t)
  <2>1. IsLive(t) /\ pending' = pending \cup {t}
        /\ UNCHANGED <<callVars, pc, program, late>>
    BY <1>3 DEF Disturb
  <2>2. TypeOK'
    BY <1>1, <2>1 DEF TypeOK, callVars, LiveThreads, IsLive
  <2>3. Stopped'
    BY <1>1, <2>1 DEF Stopped, callVars
  <2>4. ASSUME waits'
        PROVE  Known' /\ Waited' /\ Released' /\ program' = "runs"
    BY <2>1, <2>4
       DEF IInv, Known, Waited, Released, Joinable, callVars, IsLive
  <2>5. Named'
    BY <1>1, <2>1 DEF Named, callVars
  <2>6. QED
    BY <2>2, <2>3, <2>4, <2>5 DEF IInv
<1>4. QED
  BY <1>2, <1>3 DEF SignalStep

(***************************************************************************)
(* Starting a thread.  A caller that waits has no other of its direction.  *)
(***************************************************************************)
LEMMA StartKeeps ==
  ASSUME IInv, NEW d \in Dir, NEW t \in Thread, Start(d, t)
  PROVE  IInv'
<1>1. /\ TypeOK /\ Stopped /\ Named /\ pc[t] = "unborn" /\ t # NoThread
      /\ caller.call = "none" /\ released = "no"
      /\ on' = [on EXCEPT ![d] = TRUE]
      /\ tid' = [tid EXCEPT ![d] = t]
      /\ dir' = [dir EXCEPT ![t] = d]
      /\ pc' = [pc EXCEPT ![t] = "test"]
      /\ late' = [s \in Thread |-> IF dir[s] = d THEN 0 ELSE late[s]]
      /\ UNCHANGED <<waits, joined, pending, caller, released, program>>
  BY NoThreadAssumption DEF IInv, Start, Goes
<1>2. \A s \in Thread : /\ pc'[s] = IF s = t THEN "test" ELSE pc[s]
                        /\ dir'[s] = IF s = t THEN d ELSE dir[s]
                        /\ s # t => (IsLive(s)' <=> IsLive(s))
  BY <1>1 DEF TypeOK, IsLive
<1>3. \A e \in Dir : /\ on'[e] = IF e = d THEN TRUE ELSE on[e]
                     /\ tid'[e] = IF e = d THEN t ELSE tid[e]
  BY <1>1 DEF TypeOK
<1>4. TypeOK'
  <2>1. pc' \in [Thread -> Live \cup {"unborn", "ended"}]
    BY <1>1 DEF TypeOK, Live
  <2>2. late' \in [Thread -> Nat]
    BY <1>1 DEF TypeOK
  <2>3. pending' \subseteq LiveThreads'
    BY <1>1, <1>2 DEF TypeOK, LiveThreads, IsLive, Live
  <2>4. QED
    BY <1>1, <2>1, <2>2, <2>3 DEF TypeOK
<1>5. Stopped'
  <2>1. late[t] = 0
    BY <1>1 DEF Stopped
  <2>2. \A s \in Thread : late'[s] = IF dir[s] = d THEN 0 ELSE late[s]
    BY <1>1
  <2>3. \A s \in Thread : dir[s] \in Dir
    BY <1>1 DEF TypeOK
  <2>4. QED
    BY <1>1, <1>2, <1>3, <2>1, <2>2, <2>3 DEF Stopped
<1>6. ASSUME waits'
      PROVE  Known' /\ Waited' /\ Released' /\ program' = "runs"
  <2>1. /\ Known /\ Waited /\ Released /\ program = "runs"
        /\ ~Joinable(d)
    BY <1>1, <1>6 DEF IInv, Start
  <2>2. t \notin joined
    BY <1>1, <2>1 DEF Waited
  <2>3. Known'
    <3>1. ASSUME NEW s \in Thread, s # t, IsLive(s)
          PROVE  dir[s] \in Dir /\ dir[s] # d
      BY <1>1, <2>1, <3>1, NoThreadAssumption DEF Known, Joinable, TypeOK
    <3>2. ASSUME NEW s \in Thread, IsLive(s)'
          PROVE  tid'[dir'[s]] = s /\ s \notin joined'
      <4>1. CASE s = t
        BY <1>1, <1>2, <1>3, <2>2, <4>1
      <4>2. CASE s # t
        BY <1>1, <1>2, <1>3, <2>1, <3>1, <3>2, <4>2 DEF Known
      <4>3. QED
        BY <4>1, <4>2
    <3>3. QED
      BY <3>2 DEF Known
  <2>4. Waited'
    BY <1>1, <1>2, <1>3, <2>1, <2>2 DEF Waited, Joinable, TypeOK
  <2>5. Released'
    BY <1>1, <2>1 DEF Released
  <2>6. QED
    BY <1>1, <2>1, <2>3, <2>4, <2>5
<1>7. Named'
  <2>1. \A e \in Dir : tid[e] # NoThread => tid[e] \in Thread
    BY <1>1 DEF TypeOK
  <2>2. ASSUME NEW e \in Dir, tid'[e] # NoThread
        PROVE  dir'[tid'[e]] = e /\ pc'[tid'[e]] # "unborn"
    <3>1. CASE e = d
      BY <1>2, <1>3, <3>1
    <3>2. CASE e # d
      BY <1>1, <1>2, <1>3, <2>1, <2>2, <3>2 DEF Named
    <3>3. QED
      BY <3>1, <3>2
  <2>3. QED
    BY <1>1, <2>2 DEF Named
<1>8. QED
  BY <1>4, <1>5, <1>6, <1>7 DEF IInv

(***************************************************************************)
(* The other calls: no thread moves.                                       *)
(***************************************************************************)
LEMMA StopKeeps ==
  ASSUME IInv, NEW d \in Dir, Stop(d) \/ ReleaseStops(d)
  PROVE  IInv'
<1>1. /\ TypeOK /\ Stopped /\ Named /\ released = "no"
      /\ on' = [on EXCEPT ![d] = FALSE]
      /\ UNCHANGED <<waits, threadVars, tid, joined, dir, released, program>>
      /\ \/ Joinable(d) /\ caller' = [call |-> "kill", of |-> d]
         \/ /\ caller.call = "release" /\ on[d]
            /\ caller' = [call |-> "release-kill", of |-> d]
  BY DEF IInv, Stop, ReleaseStops, Call
<1>2. \A e \in Dir : on'[e] = IF e = d THEN FALSE ELSE on[e]
  BY <1>1 DEF TypeOK
<1>3. TypeOK'
  BY <1>1 DEF TypeOK, threadVars, LiveThreads, IsLive
<1>4. Stopped'
  BY <1>1, <1>2 DEF Stopped, TypeOK, threadVars
<1>5. ASSUME waits'
      PROVE  Known' /\ Waited' /\ Released' /\ program' = "runs"
  <2>1. Known /\ Waited /\ Released /\ program = "runs"
    BY <1>1, <1>5 DEF IInv
  <2>2. Joinable(d) /\ caller' = [call |-> "kill", of |-> d]
    BY <1>1, <2>1 DEF Waited, Released
  <2>3. Known'
    BY <1>1, <2>1 DEF Known, IsLive, threadVars
  <2>4. Waited'
    BY <1>1, <1>2, <2>1, <2>2 DEF Waited, Joinable, threadVars
  <2>5. Released'
    BY <1>1, <2>1, <2>2 DEF Released
  <2>6. QED
    BY <1>1, <2>1, <2>3, <2>4, <2>5
<1>6. Named'
  BY <1>1 DEF Named, threadVars
<1>7. QED
  BY <1>3, <1>4, <1>5, <1>6 DEF IInv

LEMMA KillKeeps ==
  ASSUME IInv, NEW d \in Dir, Kill(d)
  PROVE  IInv'
<1>1. /\ TypeOK /\ Stopped /\ Named /\ caller.of = d
      /\ caller.call \in {"kill", "release-kill"}
      /\ \/ Joinable(d) /\ program' = program
            /\ pending' = pending \cup ({tid[d]} \cap LiveThreads)
         \/ ~Joinable(d) /\ pending' = pending /\ program' = "undefined"
      /\ caller' = [call |-> IF caller.call = "kill" THEN "none"
                             ELSE "release",
                    of |-> "recv"]
      /\ UNCHANGED <<waits, on, tid, joined, dir, pc, released, late>>
  BY DEF IInv, Kill, Call
<1>2. TypeOK'
  BY <1>1 DEF TypeOK, LiveThreads, IsLive, Dir
<1>3. Stopped'
  BY <1>1 DEF Stopped
<1>4. ASSUME waits'
      PROVE  Known' /\ Waited' /\ Released' /\ program' = "runs"
  <2>1. Known /\ Waited /\ Released /\ program = "runs"
    BY <1>1, <1>4 DEF IInv
  <2>2. caller.call = "kill" /\ Joinable(d)
    BY <1>1, <2>1 DEF Waited, Released
  <2>3. Known'
    BY <1>1, <2>1 DEF Known, IsLive
  <2>4. Waited'
    BY <1>1, <2>1, <2>2 DEF Waited, Joinable
  <2>5. Released'
    BY <1>1, <2>1, <2>2 DEF Released
  <2>6. QED
    BY <1>1, <2>1, <2>2, <2>3, <2>4, <2>5
<1>5. Named'
  BY <1>1 DEF Named
<1>6. QED
  BY <1>2, <1>3, <1>4, <1>5 DEF IInv

LEMMA WaitKeeps ==
  ASSUME IInv, program = "runs", NEW d \in Dir, Wait(d) \/ Joined(d)
  PROVE  IInv'
<1>1. /\ TypeOK /\ Stopped /\ Named
      /\ UNCHANGED <<waits, threadVars, on, tid, dir, released, program>>
  BY DEF IInv, Wait, Joined
<1>2. Stopped'
  BY <1>1 DEF Stopped, threadVars
<1>3. CASE Wait(d)
  <2>1. /\ caller.call = "none" /\ Joinable(d) /\ joined' = joined
        /\ waits => ~on[d]
        /\ caller' = [call |-> "wait", of |-> d]
        /\ released = "no"
    BY <1>3 DEF Wait, Call
  <2>2. TypeOK'
    BY <1>1, <2>1 DEF TypeOK, threadVars, LiveThreads, IsLive
  <2>3. Named'
    BY <1>1, <2>1 DEF Named, Joinable, threadVars
  <2>4. ASSUME waits'
        PROVE  Known' /\ Waited' /\ Released' /\ program' = "runs"
    BY <1>1, <2>1, <2>4
       DEF IInv, Known, Waited, Released, Joinable, IsLive, threadVars
  <2>5. QED
    BY <1>2, <2>2, <2>3, <2>4 DEF IInv
<1>4. CASE Joined(d)
  <2>1. /\ caller = [call |-> "wait", of |-> d]
        /\ pc[tid[d]] = "ended"
        /\ joined' = joined \cup {tid[d]}
        /\ caller' = [call |-> "none", of |-> "recv"]
    BY <1>4 DEF Joined, Idle
  <2>2. tid[d] \in Thread
    BY <1>1, <2>1 DEF Named, TypeOK
  <2>3. TypeOK'
    BY <1>1, <2>1, <2>2 DEF TypeOK, threadVars, LiveThreads, IsLive, Dir
  <2>4. Named'
    BY <1>1, <2>1 DEF Named, threadVars
  <2>5. ASSUME waits'
        PROVE  Known' /\ Waited' /\ Released' /\ program' = "runs"
    <3>1. Known /\ Waited /\ Released /\ program = "runs"
      BY <1>1, <2>5 DEF IInv
    <3>2. Known'
      BY <1>1, <2>1, <3>1 DEF Known, IsLive, Live, threadVars
    <3>3. ASSUME NEW e \in Dir, on[e]
          PROVE  Joinable(e)'
      <4>1. Joinable(e) /\ e # d
        BY <2>1, <3>1, <3>3 DEF Waited
      <4>2. tid[e] # tid[d]
        BY <1>1, <2>2, <4>1, NoThreadAssumption DEF Named, Joinable
      <4>3. QED
        BY <1>1, <2>1, <4>1, <4>2 DEF Joinable
    <3>4. Waited'
      BY <1>1, <2>1, <3>1, <3>3 DEF Waited, threadVars
    <3>5. Released'
      BY <1>1, <2>1, <3>1 DEF Released
    <3>6. QED
      BY <1>1, <3>1, <3>2, <3>4, <3>5
  <2>6. QED
    BY <1>2, <2>3, <2>4, <2>5 DEF IInv
<1>5. QED
  BY <1>3, <1>4

LEMMA ReleaseKeeps ==
  ASSUME IInv, Release \/ ReleaseFrees
  PROVE  IInv'
<1>1. /\ TypeOK /\ Stopped /\ Named
      /\ UNCHANGED <<waits, threadVars, on, tid, joined, dir, program>>
      /\ caller' \in {caller, [call |-> "release", of |-> "recv"]}
      /\ caller'.call = "release"
      /\ released' \in {"no", "files", "handler", "memory"}
      /\ caller.call = "release"
           \/ (waits => \A d \in Dir : ~Joinable(d))
      /\ released = "memory" => released' = "memory"
  BY DEF IInv, Release, ReleaseFrees, Call
<1>2. TypeOK'
  BY <1>1 DEF TypeOK, threadVars, LiveThreads, IsLive, Dir
<1>3. Stopped'
  BY <1>1 DEF Stopped, threadVars
<1>4. ASSUME waits'
      PROVE  Known' /\ Waited' /\ Released' /\ program' = "runs"
  <2>1. Known /\ Waited /\ Released /\ program = "runs"
    BY <1>1, <1>4 DEF IInv
  <2>2. Known'
    BY <1>1, <2>1 DEF Known, IsLive, threadVars
  <2>3. Waited'
    BY <1>1, <2>1 DEF Waited, Joinable, threadVars
  <2>4. Released'
    BY <1>1, <1>4, <2>1 DEF Released, Joinable
  <2>5. QED
    BY <1>1, <2>1, <2>2, <2>3, <2>4
<1>5. Named'
  BY <1>1 DEF Named, threadVars
<1>6. QED
  BY <1>2, <1>3, <1>4, <1>5 DEF IInv

-----------------------------------------------------------------------------
LEMMA NextKeeps == IInv /\ [Next]_vars => IInv'
<1> SUFFICES ASSUME IInv, [Next]_vars
             PROVE  IInv'
  OBVIOUS
<1>1. ASSUME NEW t \in Thread, LoopStep(t) \/ SignalStep(t)
      PROVE  IInv'
  BY <1>1, LoopKeeps, SignalKeeps
<1>2. ASSUME NEW d \in Dir, NEW t \in Thread, Start(d, t)
      PROVE  IInv'
  BY <1>2, StartKeeps
<1>3. ASSUME NEW d \in Dir, Stop(d) \/ ReleaseStops(d)
      PROVE  IInv'
  BY <1>3, StopKeeps
<1>4. ASSUME NEW d \in Dir, Kill(d)
      PROVE  IInv'
  BY <1>4, KillKeeps
<1>5. ASSUME program = "runs", NEW d \in Dir, Wait(d) \/ Joined(d)
      PROVE  IInv'
  BY <1>5, WaitKeeps
<1>6. CASE Release \/ ReleaseFrees
  BY <1>6, ReleaseKeeps
<1>7. CASE UNCHANGED vars
  BY <1>7 DEF IInv, TypeOK, Stopped, Named, Known, Waited, Released,
              Joinable, IsLive, LiveThreads, vars
<1>8. QED
  BY <1>1, <1>2, <1>3, <1>4, <1>5, <1>6, <1>7 DEF Next, CallStep

(***************************************************************************)
(* The inductive invariant holds of every behaviour.                       *)
(***************************************************************************)
THEOREM Invariance == Spec => []IInv
BY InitEstablishes, NextKeeps, PTL DEF Spec

(***************************************************************************)
(* The state of threads and calls keeps its type.                          *)
(***************************************************************************)
THEOREM TypeCorrect == Spec => []TypeOK
<1>1. IInv => TypeOK
  BY DEF IInv
<1>2. QED
  BY <1>1, Invariance, PTL

(***************************************************************************)
(* With a caller that waits no thread lives when svpn_release gives the    *)
(* descriptors and psc back (svpn_client.c:202-207).                       *)
(***************************************************************************)
THEOREM AlwaysQuietRelease == Spec => []QuietRelease
<1>1. IInv => QuietRelease
  <2> SUFFICES ASSUME IInv, waits, released # "no", NEW t \in Thread,
                      IsLive(t)
               PROVE  FALSE
    BY DEF QuietRelease
  <2>1. dir[t] \in Dir /\ t # NoThread
    BY NoThreadAssumption DEF IInv, TypeOK
  <2>2. tid[dir[t]] = t /\ t \notin joined
    BY DEF IInv, Known
  <2>3. ~Joinable(dir[t])
    BY <2>1 DEF IInv, Named, Released
  <2>4. QED
    BY <2>1, <2>2, <2>3 DEF Joinable
<1>2. QED
  BY <1>1, Invariance, PTL

(***************************************************************************)
(* The program of a caller that waits is not ended by its own signal.      *)
(***************************************************************************)
THEOREM AlwaysSurvives == Spec => []Survives
<1>1. IInv => Survives
  BY DEF IInv, Survives
<1>2. QED
  BY <1>1, Invariance, PTL

(***************************************************************************)
(* With any caller a stopped thread handles at most one packet more.       *)
(***************************************************************************)
THEOREM AlwaysOneMore == Spec => []OneMore
<1>1. IInv => OneMore
  <2> SUFFICES ASSUME IInv, NEW t \in Thread
               PROVE  late[t] <= 1
    BY DEF OneMore
  <2>1. late[t] = 0 \/ late[t] = 1
    BY DEF IInv, Stopped
  <2>2. QED
    BY <2>1
<1>2. QED
  BY <1>1, Invariance, PTL

-----------------------------------------------------------------------------
(***************************************************************************)
(* Liveness.  Fairness speaks of steps that can be taken, which the        *)
(* provers cannot see into; that they can is CanGoOn, a hypothesis.  What  *)
(* is proved is all the rest: a stopped thread comes closer to its end     *)
(* with each step of its loop, and nothing takes it further away.          *)
(***************************************************************************)
Loops(t) == program = "runs" /\ LoopStep(t)
Returns == program = "runs" /\ \E d \in Dir : Kill(d) \/ Joined(d)

IsWaitedFor(t) == caller.call = "wait" /\ tid[caller.of] = t

CanGoOn ==
  \A t \in Thread :
    /\ IsLive(t) /\ program = "runs" => ENABLED <<Loops(t)>>_vars
    /\ IsWaitedFor(t) /\ ~IsLive(t) => ENABLED <<Returns>>_vars

IsFair(t) == WF_vars(Loops(t))
CallsAreFair == WF_vars(Returns)

LEMMA FairThreads ==
  FairSpec => Spec /\ CallsAreFair /\ \A t \in Thread : IsFair(t)
BY PTL DEF FairSpec, Fairness, Returns, IsFair, CallsAreFair, Loops

(***************************************************************************)
(* A thread that is stopping, with its memory in place, and is at a step   *)
(* of its loop; and a call that waits for a thread that has ended.         *)
(***************************************************************************)
Over(t) == ~IsStopping(t) \/ released = "memory" \/ program # "runs"

StopsAt(t, step) == ~Over(t) /\ pc[t] = step

Returning(t) == IsWaitedFor(t) /\ pc[t] = "ended"

(***************************************************************************)
(* While a call waits nothing is over but the thread.                      *)
(***************************************************************************)
LEMMA AwaitingThread ==
  ASSUME IInv, NEW t \in Thread, IsAwaited(t), Over(t)
  PROVE  Returning(t)
<1>1. /\ TypeOK /\ Named /\ caller.call = "wait" /\ tid[caller.of] = t
      /\ caller.of \in Dir /\ ~on[caller.of]
  BY DEF IInv, TypeOK, IsAwaited
<1>2. /\ tid[caller.of] # NoThread /\ released = "no" /\ program = "runs"
      /\ dir[t] = caller.of /\ pc[t] # "unborn"
  BY <1>1 DEF Named
<1>3. pc[t] \in Live \/ pc[t] = "ended"
  BY <1>1, <1>2 DEF TypeOK
<1>4. QED
  BY <1>1, <1>2, <1>3 DEF Over, Returning, IsWaitedFor, IsStopping, IsLive

(***************************************************************************)
(* A step of the program leaves a thread stopping, and where it is or      *)
(* closer to its end, unless its direction is started again.               *)
(***************************************************************************)
LEMMA StoppingStep ==
  ASSUME IInv, [Next]_vars, NEW t \in Thread, IsStopping(t),
         released # "memory"
  PROVE  \/ on'[dir'[t]]
         \/ pc'[t] = pc[t] /\ ~Loops(t)
         \/ pc[t] = "enter" /\ pc'[t] \in {"blocked", "test"}
         \/ pc[t] = "blocked" /\ pc'[t] \in {"packet", "ended"}
         \/ pc[t] = "packet" /\ pc'[t] = "test"
         \/ pc[t] = "test" /\ pc'[t] = "ended"
<1>1. /\ TypeOK /\ pc[t] \in Live /\ ~on[dir[t]] /\ dir[t] \in Dir
      /\ released # "memory"
  BY DEF IInv, TypeOK, IsStopping, IsLive
<1>2. ASSUME NEW s \in Thread, NEW step, Goes(s, step)
      PROVE  \A r \in Thread : pc'[r] = IF r = s THEN step ELSE pc[r]
  BY <1>1, <1>2 DEF Goes, TypeOK
<1>3. CASE \E s \in Thread : LoopStep(s)
  <2>1. PICK s \in Thread : LoopStep(s)
    BY <1>3
  <2>2. on' = on /\ dir' = dir
    BY <2>1 DEF LoopStep, Test, Enter, Packet, Handle, callVars
  <2>3. CASE Test(s)
    <3>1. PICK step \in {"enter", "ended"} :
            /\ Goes(s, step) /\ pc[s] = "test"
            /\ step = "enter" => released = "memory" \/ on[dir[s]]
      BY <2>3 DEF Test
    <3>2. QED
      BY <1>1, <1>2, <2>2, <3>1 DEF Loops, LoopStep, Test, Enter, Packet, Handle
  <2>4. QED
    BY <1>1, <1>2, <2>1, <2>2, <2>3 DEF Loops, LoopStep, Test, Enter, Packet, Handle
<1>4. ASSUME pc'[t] = pc[t]
      PROVE  ~Loops(t)
  <2> SUFFICES ASSUME LoopStep(t)
               PROVE  FALSE
    BY DEF Loops
  <2>1. PICK step \in Live \cup {"ended"} : Goes(t, step) /\ step # pc[t]
    BY DEF LoopStep, Test, Enter, Packet, Handle, Live
  <2>2. QED
    BY <1>2, <1>4, <2>1
<1>5. CASE \E s \in Thread : SignalStep(s)
  <2>1. PICK s \in Thread : SignalStep(s)
    BY <1>5
  <2>2. on' = on /\ dir' = dir
    BY <2>1 DEF SignalStep, TakeSignal, Disturb, callVars
  <2>3. pc' = pc \/ \E step : /\ Goes(s, step)
                              /\ step = IF pc[s] = "blocked" THEN "ended" ELSE pc[s]
    BY <2>1 DEF SignalStep, TakeSignal, Disturb
  <2>4. \/ pc'[t] = pc[t]
        \/ pc[t] = "blocked" /\ pc'[t] = "ended"
    BY <1>2, <2>3
  <2>5. QED
    BY <1>1, <1>4, <2>2, <2>4
<1>6. CASE \E d \in Dir, s \in Thread : Start(d, s)
  <2>1. PICK d \in Dir, s \in Thread : Start(d, s)
    BY <1>6
  <2>2. pc[s] = "unborn" /\ Goes(s, "test")
    BY <2>1 DEF Start
  <2>3. s # t
    BY <1>1, <2>2 DEF Live
  <2>4. pc'[t] = pc[t]
    BY <1>2, <2>2, <2>3
  <2>5. QED
    BY <1>4, <2>4
<1>7. CASE \/ \E d \in Dir : Stop(d) \/ Kill(d) \/ Wait(d) \/ Joined(d)
                               \/ ReleaseStops(d)
           \/ Release \/ ReleaseFrees \/ UNCHANGED vars
  <2>1. pc' = pc
    BY <1>7 DEF Stop, Kill, Wait, Joined, ReleaseStops, Release, ReleaseFrees,
                vars, threadVars
  <2>2. QED
    BY <1>4, <2>1
<1>8. QED
  BY <1>3, <1>5, <1>6, <1>7 DEF Next, CallStep

(***************************************************************************)
(* A thread that has ended does not come back, and who waits for it waits  *)
(* until the call returns.                                                 *)
(***************************************************************************)
LEMMA ReturningStep ==
  ASSUME IInv, [Next]_vars, NEW t \in Thread, Returning(t)
  PROVE  /\ pc'[t] = "ended"
         /\ Returns => ~IsWaitedFor(t)'
<1>1. /\ TypeOK /\ pc[t] = "ended" /\ caller.call = "wait"
  BY DEF IInv, Returning, IsWaitedFor
<1>2. Returns => ~IsWaitedFor(t)'
  <2> SUFFICES ASSUME NEW d \in Dir, Kill(d) \/ Joined(d)
               PROVE  ~IsWaitedFor(t)'
    BY DEF Returns
  <2>1. caller' = Idle
    BY <1>1 DEF Kill, Joined
  <2>2. QED
    BY <2>1 DEF Idle, IsWaitedFor
<1>3. pc' = pc \/ \E s \in Thread : \E step :
                     Goes(s, step) /\ (s = t => step = "ended")
  <2>1. CASE \E s \in Thread : LoopStep(s)
    <3>1. PICK s \in Thread : LoopStep(s)
      BY <2>1
    <3>2. pc[s] # "ended" /\ \E step : Goes(s, step)
      BY <3>1 DEF LoopStep, Test, Enter, Packet, Handle
    <3>3. QED
      BY <1>1, <3>2
  <2>2. CASE \E s \in Thread : SignalStep(s)
    <3>1. PICK s \in Thread : SignalStep(s)
      BY <2>2
    <3>2. pc' = pc \/ \E step : /\ Goes(s, step)
                                /\ (pc[s] = "ended" => step = "ended")
      BY <3>1 DEF SignalStep, TakeSignal, Disturb
    <3>3. QED
      BY <1>1, <3>2
  <2>3. CASE \E d \in Dir, s \in Thread : Start(d, s)
    <3>1. PICK d \in Dir, s \in Thread : Start(d, s)
      BY <2>3
    <3>2. Goes(s, "test") /\ s # t
      BY <1>1, <3>1 DEF Start
    <3>3. QED
      BY <3>2
  <2>4. CASE \/ \E d \in Dir : Stop(d) \/ Kill(d) \/ Wait(d) \/ Joined(d)
                               \/ ReleaseStops(d)
             \/ Release \/ ReleaseFrees \/ UNCHANGED vars
    BY <2>4 DEF Stop, Kill, Wait, Joined, ReleaseStops, Release, ReleaseFrees,
                vars, threadVars
  <2>5. QED
    BY <2>1, <2>2, <2>3, <2>4 DEF Next, CallStep
<1>4. pc'[t] = "ended"
  BY <1>1, <1>3 DEF Goes, TypeOK
<1>5. QED
  BY <1>2, <1>4

(***************************************************************************)
(* Stopped threads end and calls that wait return, for any caller and any  *)
(* number of threads: with the flag off svpn_client.c:99 lets a thread     *)
(* make what is left of one turn, whether it takes the signal of the stop, *)
(* if there is one, or a packet.                                           *)
(***************************************************************************)
THEOREM AlwaysStopStops == FairSpec /\ []CanGoOn => StopStops
<1>1. ASSUME NEW t \in Thread
      PROVE  FairSpec /\ []CanGoOn =>
               (IsStopping(t) \/ IsAwaited(t)
                  ~> \/ ~IsStopping(t) /\ ~IsAwaited(t)
                     \/ released = "memory" \/ program # "runs")
  <2> DEFINE A4 == StopsAt(t, "enter")
             A3 == StopsAt(t, "blocked")
             A2 == StopsAt(t, "packet")
             A1 == StopsAt(t, "test")
             A0 == Returning(t)
             W == IsAwaited(t)
             S == IsStopping(t)
             E == released = "memory" \/ program # "runs"
             Done == Over(t)
  <2>1. FairSpec => Spec /\ WF_vars(Loops(t)) /\ WF_vars(Returns)
    <3>1. FairSpec => Spec /\ CallsAreFair /\ IsFair(t)
      BY FairThreads
    <3>2. IsFair(t) /\ CallsAreFair => WF_vars(Loops(t)) /\ WF_vars(Returns)
      BY PTL DEF IsFair, CallsAreFair
    <3>3. QED
      BY <3>1, <3>2, PTL
  <2>2. Done \/ A4 \/ A3 \/ A2 \/ A1
    BY DEF Over, StopsAt, IsStopping, IsLive, Live
  <2>3. IInv /\ W /\ Done => A0
    BY AwaitingThread
  <2>4. A0 => ~S
    BY DEF Returning, IsStopping, IsLive, Live
  <2>5. CanGoOn => (A4 \/ A3 \/ A2 \/ A1 => ENABLED <<Loops(t)>>_vars)
    BY DEF CanGoOn, StopsAt, Over, IsStopping
  <2>6. CanGoOn => (A0 => ENABLED <<Returns>>_vars)
    BY DEF CanGoOn, Returning, IsLive, Live
  <2>7. ASSUME IInv, [Next]_vars
        PROVE  /\ A4 => A4' \/ A3' \/ A1' \/ Done'
               /\ A3 => A3' \/ A2' \/ Done'
               /\ A2 => A2' \/ A1' \/ Done'
               /\ A1 => A1' \/ Done'
    <3>1. pc'[t] = "ended" \/ on'[dir'[t]] => Done'
      BY DEF Over, IsStopping, IsLive, Live
    <3>2. \A step \in Live : pc'[t] = step => Done' \/ StopsAt(t, step)'
      BY DEF StopsAt
    <3>3. QED
      BY <2>7, <3>1, <3>2, StoppingStep DEF StopsAt, Over, Live
  <2>8. ASSUME IInv, [Next]_vars, <<Loops(t)>>_vars
        PROVE  ~(A4 /\ A4') /\ ~(A3 /\ A3') /\ ~(A2 /\ A2') /\ ~(A1 /\ A1')
    <3>1. ~on'[dir'[t]] \/ Done'
      BY DEF Over, IsStopping
    <3>2. \A step : StopsAt(t, step)' => ~Done' /\ pc'[t] = step
      BY DEF StopsAt
    <3>3. QED
      BY <2>8, <3>1, <3>2, StoppingStep DEF StopsAt, Over
  <2>9. ASSUME IInv, [Next]_vars
        PROVE  /\ A0 => A0' \/ (~S' /\ ~W')
               /\ <<Returns>>_vars => ~(A0 /\ A0')
    <3>1. A0 => pc'[t] = "ended" /\ (Returns => ~IsWaitedFor(t)')
      BY <2>9, ReturningStep
    <3>2. /\ A0' <=> IsWaitedFor(t)' /\ pc'[t] = "ended"
          /\ W' => IsWaitedFor(t)'
      BY DEF Returning, IsAwaited, IsWaitedFor
    <3>3. pc'[t] = "ended" => ~S'
      BY DEF IsStopping, IsLive, Live
    <3>4. QED
      BY <3>1, <3>2, <3>3
  <2>10. Done <=> ~S \/ E
    BY DEF Over
  <2> HIDE DEF A4, A3, A2, A1, A0, W, S, E, Done
  <2>11. FairSpec /\ []CanGoOn => []<>Done
    BY <2>1, <2>2, <2>5, <2>7, <2>8, Invariance, PTL DEF Spec
  <2>12. FairSpec /\ []CanGoOn => (A0 ~> ~S /\ ~W)
    BY <2>1, <2>6, <2>9, Invariance, PTL DEF Spec
  <2>13. FairSpec /\ []CanGoOn => (S \/ W ~> (~S /\ ~W) \/ E)
    BY <2>1, <2>3, <2>10, <2>11, <2>12, Invariance, PTL DEF Spec
  <2>14. QED
    BY <2>13, PTL DEF S, W, E
<1>2. QED
  BY <1>1 DEF StopStops
=============================================================================
