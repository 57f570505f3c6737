-------------------------- MODULE Win32ClientProofs --------------------------
(***************************************************************************)
(* The safety of the legacy Windows client's thread, for any senders, any  *)
(* numbers and any room for what waits.                                    *)
(***************************************************************************)
EXTENDS Win32Client, TLAPS, SequenceTheorems

-----------------------------------------------------------------------------
(***************************************************************************)
(* The numbers of what waits, q, follow each other after f, and c is the   *)
(* last of them.                                                           *)
(***************************************************************************)
Chained(q, f, c) ==
  /\ \A k \in 1 .. Len(q) :
       q[k].n = IF k = 1 THEN Succ(f) ELSE Succ(q[k - 1].n)
  /\ c = IF q = <<>> THEN f ELSE q[Len(q)].n

LEMMA ChainedTail ==
  ASSUME NEW S, NEW q \in Seq(S), NEW f, NEW c, q # <<>>, Chained(q, f, c)
  PROVE  Head(q).n = Succ(f) /\ Chained(Tail(q), Head(q).n, c)
<1>1. Len(q) \in Nat /\ Len(q) >= 1 /\ Head(q) = q[1]
  OBVIOUS
<1>2. Head(q).n = Succ(f)
  BY <1>1 DEF Chained
<1>3. /\ Tail(q) \in Seq(S) /\ Len(Tail(q)) = Len(q) - 1
      /\ \A k \in 1 .. Len(Tail(q)) : Tail(q)[k] = q[k + 1]
  BY <1>1
<1>4. ASSUME NEW k \in 1 .. Len(Tail(q))
      PROVE  Tail(q)[k].n =
               IF k = 1 THEN Succ(Head(q).n) ELSE Succ(Tail(q)[k - 1].n)
  <2>1. k + 1 \in 1 .. Len(q) /\ k + 1 # 1 /\ (k + 1) - 1 = k
    BY <1>1, <1>3
  <2>2. q[k + 1].n = Succ(q[k].n)
    BY <2>1 DEF Chained
  <2>3. CASE k = 1
    BY <1>1, <1>3, <2>2, <2>3
  <2>4. CASE k # 1
    <3>1. k - 1 \in 1 .. Len(Tail(q)) /\ (k - 1) + 1 = k
      BY <1>3, <2>4
    <3>2. Tail(q)[k - 1] = q[k]
      BY <1>3, <3>1
    <3>3. QED
      BY <1>3, <2>2, <2>4, <3>2
  <2>5. QED
    BY <2>3, <2>4
<1>5. c = IF Tail(q) = <<>> THEN Head(q).n ELSE Tail(q)[Len(Tail(q))].n
  <2>1. c = q[Len(q)].n
    BY DEF Chained
  <2>2. CASE Tail(q) = <<>>
    <3>1. Len(q) = 1
      BY <1>1, <1>3, <2>2
    <3>2. QED
      BY <1>1, <2>1, <2>2, <3>1
  <2>3. CASE Tail(q) # <<>>
    <3>1. Len(Tail(q)) \in 1 .. Len(Tail(q)) /\ Len(Tail(q)) + 1 = Len(q)
      BY <1>1, <1>3, <2>3
    <3>2. QED
      BY <1>3, <2>1, <2>3, <3>1
  <2>4. QED
    BY <2>2, <2>3
<1>6. QED
  BY <1>2, <1>4, <1>5 DEF Chained

LEMMA ChainedAppend ==
  ASSUME NEW S, NEW q \in Seq(S), NEW f, NEW c, NEW r \in S,
         r.n = Succ(c), Chained(q, f, c)
  PROVE  Chained(Append(q, r), f, r.n)
<1>1. /\ Append(q, r) \in Seq(S) /\ Len(q) \in Nat
      /\ Len(Append(q, r)) = Len(q) + 1
      /\ Append(q, r)[Len(q) + 1] = r
      /\ \A k \in 1 .. Len(q) : Append(q, r)[k] = q[k]
  OBVIOUS
<1>2. Append(q, r) # <<>>
  BY <1>1
<1>3. ASSUME NEW k \in 1 .. Len(q) + 1
      PROVE  Append(q, r)[k].n =
               IF k = 1 THEN Succ(f) ELSE Succ(Append(q, r)[k - 1].n)
  <2>1. CASE k \in 1 .. Len(q)
    <3>1. k # 1 => k - 1 \in 1 .. Len(q)
      BY <2>1, <1>1
    <3>2. QED
      BY <1>1, <2>1, <3>1 DEF Chained
  <2>2. CASE k = Len(q) + 1
    <3>1. CASE q = <<>>
      BY <1>1, <2>2, <3>1 DEF Chained
    <3>2. CASE q # <<>>
      <4>1. Len(q) \in 1 .. Len(q) /\ k # 1 /\ k - 1 = Len(q)
        BY <1>1, <2>2, <3>2
      <4>2. QED
        BY <1>1, <2>2, <3>2, <4>1 DEF Chained
    <3>3. QED
      BY <3>1, <3>2
  <2>3. QED
    BY <1>1, <2>1, <2>2
<1>4. QED
  BY <1>1, <1>2, <1>3 DEF Chained

-----------------------------------------------------------------------------
(***************************************************************************)
(* Where the thread has no read of a side.                                 *)
(***************************************************************************)
NoRead(s) ==
  IF s = "sock"
    THEN {"connect", "open", "first read", "first receive",
          "write", "next receive"}
    ELSE {"connect", "open", "first read", "send", "next read"}

(***************************************************************************)
(* Which reads there are, and that the events that are set are those of    *)
(* reads that are over.                                                    *)
(***************************************************************************)
Reads ==
  /\ \A s \in Side : req[s] = "none" <=> pc \in NoRead(s)
  /\ \A s \in signalled :
       \/ req[s] \in {"done", "failed"}
       \/ s = "sock" /\ pc \in {"write", "next receive"}
  /\ pc = "end receive" => req["sock"] \in {"done", "failed"}
  /\ pc = "end read" =>
       req["tun"] \in {"done", "failed"} /\ "tun" \notin signalled

(***************************************************************************)
(* The state of the socket is never 1.                                     *)
(***************************************************************************)
Plain == ~readState["sock"] /\ plain

(***************************************************************************)
(* Where the thread does not handle what a side has brought, that is       *)
(* handled.                                                                *)
(***************************************************************************)
Idle == \A s \in Side : pc \notin Handling(s) => held[s].n = out[s]

(***************************************************************************)
(* What a read has filled in and what waits behind it follow what is held. *)
(***************************************************************************)
Filled(s) == IF req[s] = "done" THEN inner[s].n ELSE held[s].n

Chain ==
  \A s \in Side : /\ req[s] = "done" => inner[s].n = Succ(held[s].n)
                  /\ Chained(queue[s], Filled(s), came[s])

IInv ==
  TypeOK /\ Plain
    /\ (pc # "undefined" => Reads /\ Idle /\ Chain /\ HandsOnNext)

-----------------------------------------------------------------------------
LEMMA SuccNumber == \A n \in Number : Succ(n) \in Number
BY CountAssumption, RoomAssumption DEF Number, Succ

(***************************************************************************)
(* A read that gets what waits first.                                      *)
(***************************************************************************)
LEMMA FillsType ==
  ASSUME TypeOK, NEW s \in Side, Fills(s)
  PROVE  /\ queue' \in [Side -> Seq(Waiting)]
         /\ \A t \in Side : Len(queue'[t]) <= Room
         /\ inner' \in [Side -> Content \cup {Unfilled}]
         /\ peer' \in Sender
         /\ req' = [req EXCEPT ![s] = "done"]
         /\ signalled' = signalled \cup {s}
         /\ bound' = bound /\ came' = came
<1>1. queue[s] \in Seq(Waiting) /\ queue[s] # <<>>
  BY DEF TypeOK, Fills
<1>2. /\ Head(queue[s]) \in Waiting
      /\ Tail(queue[s]) \in Seq(Waiting)
      /\ Len(Tail(queue[s])) <= Len(queue[s])
  BY <1>1
<1>3. Data(Head(queue[s])) \in Content
  BY <1>2 DEF Waiting, Data, Content
<1>4. Head(queue[s]).sort.from \in Sender
  BY <1>2 DEF Waiting
<1>5. queue' = [queue EXCEPT ![s] = Tail(queue[s])]
  BY DEF Fills
<1>6. queue' \in [Side -> Seq(Waiting)]
  BY <1>2, <1>5 DEF TypeOK
<1>7. \A t \in Side : Len(queue'[t]) <= Room
  <2> SUFFICES ASSUME NEW t \in Side
               PROVE  Len(queue'[t]) <= Room
    OBVIOUS
  <2>1. CASE t = s
    <3>1. queue'[t] = Tail(queue[s])
      BY <1>5, <2>1 DEF TypeOK
    <3>2. Len(queue[s]) \in Nat /\ Len(Tail(queue[s])) \in Nat
      BY <1>1, <1>2
    <3>3. Len(queue[s]) <= Room
      BY DEF TypeOK
    <3>4. QED
      BY <1>2, <3>1, <3>2, <3>3, RoomAssumption
  <2>2. CASE t # s
    BY <1>5, <2>2 DEF TypeOK
  <2>3. QED
    BY <2>1, <2>2
<1>8. QED
  BY <1>3, <1>4, <1>6, <1>7 DEF Fills, TypeOK

LEMMA FillsChain ==
  ASSUME TypeOK, Chain, NEW s \in Side, req[s] # "done",
         Fills(s), held' = held
  PROVE  Chain'
<1> SUFFICES ASSUME NEW t \in Side
             PROVE  /\ req'[t] = "done" => inner'[t].n = Succ(held[t].n)
                    /\ Chained(queue'[t], Filled(t)', came[t])
  BY DEF Chain, Fills, Filled, Chained
<1>1. CASE t = s
  <2>1. /\ queue[s] \in Seq(Waiting) /\ queue[s] # <<>>
        /\ Chained(queue[s], held[s].n, came[s])
    BY DEF TypeOK, Fills, Chain, Filled
  <2>2. /\ Head(queue[s]).n = Succ(held[s].n)
        /\ Chained(Tail(queue[s]), Head(queue[s]).n, came[s])
    BY <2>1, ChainedTail
  <2>3. /\ queue'[s] = Tail(queue[s]) /\ req'[s] = "done"
        /\ inner'[s].n = Head(queue[s]).n
    BY DEF Fills, TypeOK, Data
  <2>4. Filled(s)' = Head(queue[s]).n
    BY <2>3 DEF Filled
  <2>5. QED
    BY <1>1, <2>2, <2>3, <2>4
<1>2. CASE t # s
  <2>1. queue'[t] = queue[t] /\ req'[t] = req[t] /\ inner'[t] = inner[t]
    BY <1>2 DEF Fills, TypeOK
  <2>2. Filled(t)' = Filled(t)
    BY <2>1 DEF Filled
  <2>3. QED
    BY <2>1, <2>2 DEF Chain
<1>3. QED
  BY <1>1, <1>2

(***************************************************************************)
(* A read that is not done at once.                                        *)
(***************************************************************************)
LEMMA UnreadyChain ==
  ASSUME TypeOK, Chain, NEW s \in Side, NEW result, result # "done",
         req[s] # "done", req' = [req EXCEPT ![s] = result],
         UNCHANGED <<queue, came, inner, held>>
  PROVE  Chain'
<1> SUFFICES ASSUME NEW t \in Side
             PROVE  /\ req'[t] = "done" => inner[t].n = Succ(held[t].n)
                    /\ Chained(queue[t], Filled(t)', came[t])
  BY DEF Chain, Chained, Filled
<1>1. (req'[t] = "done") = (req[t] = "done")
  BY DEF TypeOK
<1>2. Filled(t)' = Filled(t)
  BY <1>1 DEF Filled
<1>3. QED
  BY <1>1, <1>2 DEF Chain

(***************************************************************************)
(* A read that ends with what it has brought.                              *)
(***************************************************************************)
LEMMA GetsChain ==
  ASSUME TypeOK, Chain, NEW s \in Side, req[s] = "done", Gets(s)
  PROVE  Chain' /\ held'[s].n = Succ(held[s].n)
<1>1. held'[s] = inner[s] /\ req'[s] = "none"
  BY DEF Gets, Ends, TypeOK
<1>2. held'[s].n = Succ(held[s].n)
  BY <1>1 DEF Chain
<1>3. UNCHANGED <<queue, came, inner>>
  BY DEF Gets, Ends
<1>4. ASSUME NEW t \in Side
      PROVE  /\ req'[t] = "done" => inner[t].n = Succ(held'[t].n)
             /\ Chained(queue[t], Filled(t)', came[t])
  <2>1. CASE t = s
    BY <1>1, <2>1 DEF Chain, Filled
  <2>2. CASE t # s
    <3>1. held'[t] = held[t] /\ req'[t] = req[t]
      BY <2>2 DEF Gets, Ends, TypeOK
    <3>2. QED
      BY <1>3, <3>1 DEF Chain, Filled
  <2>3. QED
    BY <2>1, <2>2
<1>5. QED
  BY <1>2, <1>3, <1>4 DEF Chain, Chained, Filled

-----------------------------------------------------------------------------
LEMMA InitEstablishes == Init => IInv
<1> SUFFICES ASSUME Init
             PROVE  IInv
  OBVIOUS
<1>1. Count - 1 \in Number
  BY CountAssumption, RoomAssumption DEF Number
<1>2. TypeOK
  <2>1. <<>> \in Seq(Waiting) /\ Len(<<>>) = 0
    OBVIOUS
  <2>2. /\ queue \in [Side -> Seq(Waiting)]
        /\ \A s \in Side : Len(queue[s]) <= Room
    BY <2>1, RoomAssumption DEF Init
  <2>3. QED
    BY <1>1, <2>2, SenderAssumption DEF Init, TypeOK
<1>3. Plain
  BY DEF Init, Plain, Side
<1>4. Reads
  BY DEF Init, Reads, NoRead, Side
<1>5. Idle
  BY DEF Init, Idle, Unfilled
<1>6. Chain
  BY DEF Init, Chain, Chained, Filled, Unfilled
<1>7. HandsOnNext
  BY DEF Init, HandsOnNext, Handling
<1>8. QED
  BY <1>2, <1>3, <1>4, <1>5, <1>6, <1>7 DEF IInv

(***************************************************************************)
(* The steps of the system.                                                *)
(***************************************************************************)
LEMMA ComesInKeeps ==
  ASSUME IInv, NEW s \in Side, NEW sort \in Sort(s), ComesIn(s, sort)
  PROVE  IInv'
<1> DEFINE x == [n |-> Succ(came[s]), sort |-> sort]
<1>1. /\ queue' = [queue EXCEPT ![s] = Append(queue[s], x)]
      /\ came' = [came EXCEPT ![s] = Succ(came[s])]
      /\ UNCHANGED <<pc, bound, req, signalled, inner, peer, loopVars>>
  BY DEF ComesIn
<1>2. /\ TypeOK /\ queue[s] \in Seq(Waiting) /\ Len(queue[s]) < Room
      /\ came[s] \in Number
  BY DEF IInv, TypeOK, ComesIn
<1>3. Succ(came[s]) \in Number
  BY <1>2, SuccNumber
<1>4. x \in Waiting
  BY <1>3, SenderAssumption DEF Waiting, Sort
<1>5. /\ Append(queue[s], x) \in Seq(Waiting)
      /\ Len(Append(queue[s], x)) <= Room
  BY <1>2, <1>4, RoomAssumption
<1>6. TypeOK'
  BY <1>1, <1>2, <1>3, <1>5 DEF TypeOK, loopVars
<1>7. Plain'
  BY <1>1 DEF IInv, Plain, loopVars
<1>8. ASSUME pc' # "undefined"
      PROVE  Reads' /\ Idle' /\ Chain' /\ HandsOnNext'
  <2>1. Reads' /\ Idle' /\ HandsOnNext'
    BY <1>1, <1>8 DEF IInv, Reads, Idle, HandsOnNext, loopVars
  <2>2. Chain /\ UNCHANGED <<req, inner, held>>
    BY <1>1, <1>8 DEF IInv, loopVars
  <2>3. ASSUME NEW t \in Side
        PROVE  Chained(queue'[t], Filled(t), came'[t])
    <3>1. CASE t = s
      <4>1. Chained(Append(queue[s], x), Filled(s), x.n)
        BY <1>2, <1>4, <2>2, ChainedAppend DEF Chain
      <4>2. queue'[s] = Append(queue[s], x) /\ came'[s] = x.n
        BY <1>1, <1>2 DEF TypeOK
      <4>3. QED
        BY <3>1, <4>1, <4>2
    <3>2. CASE t # s
      BY <1>1, <1>2, <2>2, <3>2 DEF TypeOK, Chain
    <3>3. QED
      BY <3>1, <3>2
  <2>4. QED
    BY <2>1, <2>2, <2>3 DEF Chain, Filled, Chained
<1>9. QED
  BY <1>6, <1>7, <1>8 DEF IInv

LEMMA CompletesKeeps ==
  ASSUME IInv, NEW s \in Side, Completes(s)
  PROVE  IInv'
<1>1. TypeOK /\ Fills(s) /\ req[s] = "pending"
      /\ UNCHANGED <<pc, loopVars>>
  BY DEF IInv, Completes
<1>2. TypeOK'
  BY <1>1, FillsType DEF TypeOK, loopVars
<1>3. Plain'
  BY <1>1 DEF IInv, Plain, loopVars
<1>4. ASSUME pc' # "undefined"
      PROVE  Reads' /\ Idle' /\ Chain' /\ HandsOnNext'
  <2>1. Reads /\ Idle /\ Chain /\ HandsOnNext
    BY <1>1, <1>4 DEF IInv
  <2>2. Chain'
    BY <1>1, <2>1, FillsChain DEF loopVars
  <2>3. Idle' /\ HandsOnNext'
    BY <1>1, <2>1 DEF Idle, HandsOnNext, loopVars
  <2>4. Reads'
    <3>1. /\ req' = [req EXCEPT ![s] = "done"]
          /\ signalled' = signalled \cup {s}
      BY <1>1, FillsType
    <3>2. \A t \in Side : req'[t] = IF t = s THEN "done" ELSE req[t]
      BY <1>1, <3>1 DEF TypeOK
    <3>3. pc = "end read" => s # "tun"
      BY <1>1, <2>1 DEF Reads
    <3>4. QED
      BY <1>1, <2>1, <3>1, <3>2, <3>3 DEF Reads, TypeOK, Side
  <2>5. QED
    BY <2>2, <2>3, <2>4
<1>5. QED
  BY <1>2, <1>3, <1>4 DEF IInv

LEMMA FailsKeeps ==
  ASSUME IInv, NEW s \in Side, Fails(s)
  PROVE  IInv'
<1>1. /\ TypeOK /\ req[s] = "pending"
      /\ req' = [req EXCEPT ![s] = "failed"]
      /\ signalled' = signalled \cup {s}
      /\ UNCHANGED <<pc, bound, queue, came, inner, peer, loopVars>>
  BY DEF IInv, Fails
<1>2. TypeOK'
  BY <1>1 DEF TypeOK, loopVars
<1>3. Plain'
  BY <1>1 DEF IInv, Plain, loopVars
<1>4. ASSUME pc' # "undefined"
      PROVE  Reads' /\ Idle' /\ Chain' /\ HandsOnNext'
  <2>1. Reads /\ Idle /\ Chain /\ HandsOnNext
    BY <1>1, <1>4 DEF IInv
  <2>2. Chain'
    BY <1>1, <2>1, UnreadyChain DEF loopVars
  <2>3. Idle' /\ HandsOnNext'
    BY <1>1, <2>1 DEF Idle, HandsOnNext, loopVars
  <2>4. Reads'
    <3>1. \A t \in Side : req'[t] = IF t = s THEN "failed" ELSE req[t]
      BY <1>1 DEF TypeOK
    <3>2. pc = "end read" => s # "tun"
      BY <1>1, <2>1 DEF Reads
    <3>3. QED
      BY <1>1, <2>1, <3>1, <3>2 DEF Reads, TypeOK, Side
  <2>5. QED
    BY <2>2, <2>3, <2>4
<1>5. QED
  BY <1>2, <1>3, <1>4 DEF IInv

(***************************************************************************)
(* The steps of the program.  Where the thread is does not matter to what  *)
(* follows what.                                                           *)
(***************************************************************************)
LEMMA ChainStays ==
  ASSUME Chain, UNCHANGED <<queue, came, req, inner, held>>
  PROVE  Chain'
BY DEF Chain, Chained, Filled

LEMMA StartKeeps ==
  ASSUME IInv, Connect \/ OpenDriver
  PROVE  IInv'
<1>1. /\ TypeOK /\ pc \in {"connect", "open"}
      /\ pc' \in {"open", "first read", "undefined"}
      /\ bound' \in BOOLEAN
      /\ UNCHANGED <<queue, came, req, signalled, inner, peer, loopVars>>
  BY DEF IInv, Connect, OpenDriver, TypeOK, osVars
<1>2. TypeOK'
  BY <1>1 DEF TypeOK, loopVars
<1>3. Plain'
  BY <1>1 DEF IInv, Plain, loopVars
<1>4. Reads /\ Idle /\ Chain
  BY <1>1 DEF IInv
<1>5. pc' # "undefined" => Reads'
  BY <1>1, <1>4 DEF Reads, NoRead, Side
<1>6. Chain'
  BY <1>1, <1>4, ChainStays DEF loopVars
<1>7. Idle' /\ HandsOnNext'
  BY <1>1, <1>4 DEF Idle, HandsOnNext, Handling, loopVars, Side
<1>8. QED
  BY <1>2, <1>3, <1>5, <1>6, <1>7 DEF IInv

(***************************************************************************)
(* The two steps that only go on: what a side holds stays in its hands.    *)
(***************************************************************************)
LEMMA GoesOnKeeps ==
  ASSUME IInv, Write \/ SendEncrypt
  PROVE  IInv'
<1>1. /\ TypeOK
      /\ \/ pc = "write" /\ pc' = "next receive"
         \/ pc = "send" /\ pc' = "next read"
      /\ UNCHANGED <<osVars, loopVars>>
  BY DEF IInv, Write, SendEncrypt
<1>2. TypeOK'
  BY <1>1 DEF TypeOK, osVars, loopVars
<1>3. Plain'
  BY <1>1 DEF IInv, Plain, loopVars
<1>4. Reads /\ Idle /\ Chain /\ HandsOnNext
  BY <1>1 DEF IInv
<1>5. Reads'
  BY <1>1, <1>4 DEF Reads, NoRead, Side, osVars
<1>6. Chain'
  BY <1>1, <1>4, ChainStays DEF osVars, loopVars
<1>7. Idle' /\ HandsOnNext'
  BY <1>1, <1>4 DEF Idle, HandsOnNext, Handling, osVars, loopVars, Side
<1>8. QED
  BY <1>2, <1>3, <1>5, <1>6, <1>7 DEF IInv

LEMMA WaitKeeps ==
  ASSUME IInv, Wait
  PROVE  IInv'
<1>1. /\ TypeOK /\ pc = "wait"
      /\ \/ /\ "sock" \in signalled /\ pc' = "end receive"
            /\ signalled' = signalled
         \/ /\ "tun" \in signalled /\ pc' = "end read"
            /\ signalled' = signalled \ {"tun"}
      /\ UNCHANGED <<bound, queue, came, req, inner, peer, loopVars>>
  BY DEF IInv, Wait
<1>2. TypeOK'
  BY <1>1 DEF TypeOK, loopVars
<1>3. Plain'
  BY <1>1 DEF IInv, Plain, loopVars
<1>4. Reads /\ Idle /\ Chain
  BY <1>1 DEF IInv
<1>5. Reads'
  BY <1>1, <1>4 DEF Reads, NoRead, Side
<1>6. Chain'
  BY <1>1, <1>4, ChainStays DEF loopVars
<1>7. Idle' /\ HandsOnNext'
  BY <1>1, <1>4 DEF Idle, HandsOnNext, Handling, loopVars, Side
<1>8. QED
  BY <1>2, <1>3, <1>5, <1>6, <1>7 DEF IInv

(***************************************************************************)
(* A read is begun.                                                        *)
(***************************************************************************)
Begun(s) ==
  /\ queue' \in [Side -> Seq(Waiting)]
  /\ \A t \in Side : Len(queue'[t]) <= Room
  /\ inner' \in [Side -> Content \cup {Unfilled}]
  /\ peer' \in Sender
  /\ \E r \in {"pending", "done", "refused"} :
       /\ req' = [req EXCEPT ![s] = r]
       /\ signalled' = IF r = "done" THEN signalled \cup {s}
                       ELSE signalled \ {s}
  /\ bound' = bound /\ came' = came

LEMMA BeginsWell ==
  ASSUME TypeOK, Chain, NEW s \in Side, req[s] # "done", held' = held,
         Fills(s) \/ Pends(s) \/ Refused(s)
  PROVE  Begun(s) /\ Chain'
<1>1. CASE Fills(s)
  BY <1>1, FillsType, FillsChain DEF Begun
<1>2. CASE Pends(s) \/ Refused(s)
  <2>1. PICK r \in {"pending", "refused"} : Unready(s, r)
    BY <1>2 DEF Pends, Refused
  <2>2. /\ req' = [req EXCEPT ![s] = r]
        /\ signalled' = signalled \ {s}
        /\ UNCHANGED <<bound, queue, came, inner, peer>>
    BY <2>1 DEF Unready
  <2>3. Begun(s)
    BY <2>2 DEF Begun, TypeOK
  <2>4. Chain'
    BY <2>2, UnreadyChain
  <2>5. QED
    BY <2>3, <2>4
<1>3. QED
  BY <1>1, <1>2

LEMMA HeldNumber ==
  ASSUME TypeOK, NEW s \in Side
  PROVE  held[s].n \in Number
<1>1. held[s] \in Content \/ held[s] = Unfilled
  BY DEF TypeOK
<1>2. held[s] \in Content => held[s].n \in Number
  BY DEF Content
<1>3. Unfilled.n \in Number
  BY CountAssumption, RoomAssumption DEF Unfilled, Number
<1>4. QED
  BY <1>1, <1>2, <1>3

LEMMA BeginReadKeeps ==
  ASSUME IInv, BeginRead
  PROVE  IInv'
<1>1. /\ TypeOK /\ Plain /\ Reads /\ Idle /\ Chain /\ HandsOnNext
      /\ pc \in {"first read", "next read"}
  BY DEF IInv, BeginRead
<1>2. /\ req["tun"] = "none"
      /\ ~readState["tun"]
  BY <1>1 DEF Reads, NoRead, TypeOK, Side
<1>3. /\ UNCHANGED <<held, plain, again>>
      /\ pc' = IF pc = "first read" THEN "first receive" ELSE "wait"
      /\ out' = IF pc = "first read" THEN out
                ELSE [out EXCEPT !["tun"] = held["tun"].n]
  BY <1>1 DEF BeginRead, Finished
<1>4. /\ Fills("tun") \/ Pends("tun") \/ Refused("tun")
      /\ \/ Fills("tun") /\ readState' = [readState EXCEPT !["tun"] = TRUE]
         \/ readState' = [readState EXCEPT !["tun"] = FALSE]
         \/ readState' = readState
  BY DEF BeginRead, PostRead
<1>5. Begun("tun") /\ Chain'
  BY <1>1, <1>2, <1>3, <1>4, BeginsWell DEF Side
<1>6. PICK r \in {"pending", "done", "refused"} :
        /\ req' = [req EXCEPT !["tun"] = r]
        /\ signalled' = IF r = "done" THEN signalled \cup {"tun"}
                        ELSE signalled \ {"tun"}
  BY <1>5 DEF Begun
<1>7. req'["tun"] = r /\ req'["sock"] = req["sock"]
  BY <1>1, <1>6 DEF TypeOK, Side
<1>8. \A t \in Side : held[t].n \in Number
  BY <1>1, HeldNumber
<1>9. \A t \in Side : readState'[t] => req'[t] = "done"
  <2>1. Fills("tun") => r = "done"
    BY <1>1, <1>7 DEF Fills, TypeOK, Side
  <2>2. QED
    BY <1>1, <1>2, <1>4, <1>7, <2>1 DEF TypeOK, Side
<1>10. TypeOK'
  BY <1>1, <1>3, <1>4, <1>5, <1>6, <1>8, <1>9 DEF Begun, TypeOK, Side
<1>11. Plain'
  BY <1>1, <1>3, <1>4 DEF Plain, TypeOK, Side
<1>12. Reads'
  BY <1>1, <1>3, <1>6, <1>7 DEF Reads, NoRead, TypeOK, Side
<1>13. Idle'
  BY <1>1, <1>3 DEF Idle, Handling, TypeOK, Side
<1>14. HandsOnNext'
  BY <1>3 DEF HandsOnNext, Handling, Side
<1>15. QED
  BY <1>5, <1>10, <1>11, <1>12, <1>13, <1>14 DEF IInv

LEMMA BeginReceiveKeeps ==
  ASSUME IInv, BeginRecvDecrypt
  PROVE  IInv'
<1>1. /\ TypeOK /\ Plain /\ Reads /\ Idle /\ Chain /\ HandsOnNext
      /\ pc \in {"first receive", "next receive"}
  BY DEF IInv, BeginRecvDecrypt
<1>2. req["sock"] = "none" /\ ~readState["sock"]
  BY <1>1 DEF Reads, NoRead, Plain, Side
<1>3. /\ UNCHANGED <<held, plain, again>>
      /\ pc' = "wait"
      /\ out' = IF pc = "first receive" THEN out
                ELSE [out EXCEPT !["sock"] = held["sock"].n]
  BY <1>1 DEF BeginRecvDecrypt, Finished
<1>4. /\ Fills("sock") \/ Pends("sock") \/ Refused("sock")
      /\ \/ readState' = [readState EXCEPT !["sock"] = FALSE]
         \/ readState' = readState
  <2>1. ~AtOnce(0)
    BY DEF AtOnce
  <2>2. QED
    BY <2>1 DEF BeginRecvDecrypt, PostReceive
<1>5. Begun("sock") /\ Chain'
  BY <1>1, <1>2, <1>3, <1>4, BeginsWell DEF Side
<1>6. PICK r \in {"pending", "done", "refused"} :
        /\ req' = [req EXCEPT !["sock"] = r]
        /\ signalled' = IF r = "done" THEN signalled \cup {"sock"}
                        ELSE signalled \ {"sock"}
  BY <1>5 DEF Begun
<1>7. req'["sock"] = r /\ req'["tun"] = req["tun"]
  BY <1>1, <1>6 DEF TypeOK, Side
<1>8. \A t \in Side : held[t].n \in Number
  BY <1>1, HeldNumber
<1>9. /\ readState' \in [Side -> BOOLEAN]
      /\ \A t \in Side : readState'[t] = readState[t]
  BY <1>1, <1>2, <1>4 DEF TypeOK, Side
<1>10. TypeOK'
  BY <1>1, <1>2, <1>3, <1>5, <1>6, <1>7, <1>8, <1>9
     DEF Begun, TypeOK, Side
<1>11. Plain'
  BY <1>1, <1>3, <1>9 DEF Plain, Side
<1>12. Reads'
  BY <1>1, <1>3, <1>6, <1>7 DEF Reads, NoRead, TypeOK, Side
<1>13. Idle'
  BY <1>1, <1>3 DEF Idle, Handling, TypeOK, Side
<1>14. HandsOnNext'
  BY <1>3 DEF HandsOnNext, Handling, Side
<1>15. QED
  BY <1>5, <1>10, <1>11, <1>12, <1>13, <1>14 DEF IInv

(***************************************************************************)
(* A read is ended: with what it has brought, or with nothing.             *)
(***************************************************************************)
LEMMA EndsReads ==
  ASSUME TypeOK, Reads, NEW s \in Side, pc = Ending(s), pc' \in Handling(s),
         req' = [req EXCEPT ![s] = "none"], signalled' = signalled
  PROVE  Reads'
<1>1. CASE s = "sock"
  <2>1. /\ pc = "end receive" /\ pc' \in {"write", "next receive"}
        /\ req'["sock"] = "none" /\ req'["tun"] = req["tun"]
    BY <1>1 DEF TypeOK, Ending, Handling, Side
  <2>2. req["tun"] # "none"
    BY <2>1 DEF Reads, NoRead, Side
  <2>3. QED
    BY <2>1, <2>2 DEF TypeOK, Reads, NoRead, Side
<1>2. CASE s = "tun"
  <2>1. /\ pc = "end read" /\ pc' \in {"send", "next read"}
        /\ req'["tun"] = "none" /\ req'["sock"] = req["sock"]
    BY <1>2 DEF TypeOK, Ending, Handling, Side
  <2>2. req["sock"] # "none" /\ "tun" \notin signalled
    BY <2>1 DEF Reads, NoRead, Side
  <2>3. QED
    BY <2>1, <2>2 DEF TypeOK, Reads, NoRead, Side
<1>3. QED
  BY <1>1, <1>2 DEF Side

LEMMA GetsWell ==
  ASSUME IInv, NEW s \in Side, pc = Ending(s),
         readState[s] \/ req[s] = "done", Gets(s), plain' \in BOOLEAN
  PROVE  /\ pc' \in Handling(s) \cup {"undefined"} => TypeOK'
         /\ pc' \in Handling(s) => Reads' /\ Idle' /\ Chain' /\ HandsOnNext'
<1>1. /\ TypeOK /\ Plain /\ Reads /\ Idle /\ Chain
      /\ req[s] = "done"
  BY DEF IInv, TypeOK, Ending
<1>2. /\ req' = [req EXCEPT ![s] = "none"]
      /\ held' = [held EXCEPT ![s] = inner[s]]
      /\ readState' = [readState EXCEPT ![s] = FALSE]
      /\ again' = [again EXCEPT ![s] = FALSE]
      /\ UNCHANGED <<bound, queue, came, signalled, inner, peer, out>>
  BY <1>1 DEF Gets, Ends
<1>3. Chain' /\ held'[s].n = Succ(held[s].n)
  BY <1>1, GetsChain
<1>4. held[s].n = out[s]
  BY <1>1 DEF Idle, Handling, Ending, Side
<1>5. pc' \in Handling(s) \cup {"undefined"} => TypeOK'
  BY <1>1, <1>2 DEF TypeOK, Handling, Side
<1>6. ASSUME pc' \in Handling(s)
      PROVE  Reads' /\ Idle' /\ HandsOnNext'
  <2>1. Reads'
    BY <1>1, <1>2, <1>6, EndsReads
  <2>2. Idle'
    BY <1>1, <1>2, <1>6 DEF TypeOK, Idle, Handling, Ending, Side
  <2>3. HandsOnNext'
    BY <1>1, <1>2, <1>3, <1>4, <1>6 DEF TypeOK, HandsOnNext, Handling, Side
  <2>4. QED
    BY <2>1, <2>2, <2>3
<1>7. QED
  BY <1>3, <1>5, <1>6

LEMMA GetsNothingWell ==
  ASSUME IInv, NEW s \in Side, pc = Ending(s), GetsNothing(s)
  PROVE  /\ pc' \in Handling(s) \cup {"undefined"} => TypeOK'
         /\ pc' \in Handling(s) => Reads' /\ Idle' /\ Chain' /\ HandsOnNext'
<1>1. /\ TypeOK /\ Plain /\ Reads /\ Idle /\ Chain
      /\ req[s] = "failed" /\ ~readState[s]
  BY DEF IInv, Reads, Ending, Side, GetsNothing
<1>2. /\ req' = [req EXCEPT ![s] = "none"]
      /\ again' = [again EXCEPT ![s] = TRUE]
      /\ UNCHANGED <<bound, queue, came, signalled, inner, peer, out>>
      /\ UNCHANGED <<held, plain, readState>>
  BY <1>1 DEF GetsNothing, Ends
<1>3. Chain'
  BY <1>1, <1>2, UnreadyChain
<1>4. held[s].n = out[s]
  BY <1>1 DEF Idle, Handling, Ending, Side
<1>5. pc' \in Handling(s) \cup {"undefined"} => TypeOK'
  BY <1>1, <1>2 DEF TypeOK, Handling, Side
<1>6. ASSUME pc' \in Handling(s)
      PROVE  Reads' /\ Idle' /\ HandsOnNext'
  <2>1. Reads'
    BY <1>1, <1>2, <1>6, EndsReads
  <2>2. Idle'
    BY <1>1, <1>2, <1>6 DEF TypeOK, Idle, Handling, Ending, Side
  <2>3. HandsOnNext'
    BY <1>1, <1>2, <1>4, <1>6 DEF TypeOK, HandsOnNext, Handling, Side
  <2>4. QED
    BY <2>1, <2>2, <2>3
<1>7. QED
  BY <1>3, <1>5, <1>6

LEMMA EndReceiveKeeps ==
  ASSUME IInv, EndRecvDecrypt
  PROVE  IInv'
<1>1. /\ TypeOK /\ Plain
      /\ "sock" \in Side /\ pc = Ending("sock")
  BY DEF IInv, EndRecvDecrypt, Ending, Side
<1>2. CASE /\ readState["sock"] \/ req["sock"] = "done"
           /\ Gets("sock")
           /\ plain' = ~readState["sock"]
           /\ pc' = "write"
  <2>1. pc' \in Handling("sock") /\ plain' = TRUE
    BY <1>1, <1>2 DEF Plain, Handling
  <2>2. readState' = [readState EXCEPT !["sock"] = FALSE]
    BY <1>2 DEF Gets
  <2>3. Plain'
    BY <1>1, <2>1, <2>2 DEF Plain, TypeOK
  <2>4. QED
    BY <1>1, <1>2, <2>1, <2>3, GetsWell DEF IInv
<1>3. CASE /\ GetsNothing("sock")
           /\ pc' \in {"write", "undefined"}
  <2>1. pc' \in Handling("sock") \/ pc' = "undefined"
    BY <1>3 DEF Handling
  <2>2. Plain'
    BY <1>1, <1>3 DEF Plain, GetsNothing
  <2>3. QED
    BY <1>1, <1>3, <2>1, <2>2, GetsNothingWell DEF IInv
<1>4. QED
  BY <1>2, <1>3 DEF EndRecvDecrypt

LEMMA EndReadKeeps ==
  ASSUME IInv, EndRead
  PROVE  IInv'
<1>1. /\ TypeOK /\ Plain
      /\ "tun" \in Side /\ pc = Ending("tun")
      /\ pc' \in {"send", "next read", "undefined"}
  BY DEF IInv, EndRead, Ending, Side
<1>2. CASE /\ readState["tun"] \/ req["tun"] = "done"
           /\ Gets("tun")
           /\ plain' = plain
  <2>1. readState' = [readState EXCEPT !["tun"] = FALSE]
    BY <1>2 DEF Gets
  <2>2. Plain'
    BY <1>1, <1>2, <2>1 DEF Plain, TypeOK, Side
  <2>3. pc' \in Handling("tun") \/ pc' = "undefined"
    BY <1>1 DEF Handling
  <2>4. plain' \in BOOLEAN
    BY <1>1, <1>2 DEF TypeOK
  <2>5. QED
    BY <1>1, <1>2, <2>2, <2>3, <2>4, GetsWell DEF IInv
<1>3. CASE GetsNothing("tun")
  <2>1. pc' \in Handling("tun") \/ pc' = "undefined"
    BY <1>1 DEF Handling
  <2>2. Plain'
    BY <1>1, <1>3 DEF Plain, GetsNothing
  <2>3. QED
    BY <1>1, <1>3, <2>1, <2>2, GetsNothingWell DEF IInv
<1>4. QED
  BY <1>2, <1>3 DEF EndRead

-----------------------------------------------------------------------------
LEMMA NextKeeps == IInv /\ [Next]_vars => IInv'
<1> SUFFICES ASSUME IInv, [Next]_vars
             PROVE  IInv'
  OBVIOUS
<1>1. CASE Connect \/ OpenDriver
  BY <1>1, StartKeeps
<1>2. CASE BeginRead
  BY <1>2, BeginReadKeeps
<1>3. CASE BeginRecvDecrypt
  BY <1>3, BeginReceiveKeeps
<1>4. CASE Wait
  BY <1>4, WaitKeeps
<1>5. CASE EndRecvDecrypt
  BY <1>5, EndReceiveKeeps
<1>6. CASE Write \/ SendEncrypt
  BY <1>6, GoesOnKeeps
<1>7. CASE EndRead
  BY <1>7, EndReadKeeps
<1>8. ASSUME NEW s \in Side, NEW sort \in Sort(s), ComesIn(s, sort)
      PROVE  IInv'
  BY <1>8, ComesInKeeps
<1>9. ASSUME NEW s \in Side, Completes(s) \/ Fails(s)
      PROVE  IInv'
  BY <1>9, CompletesKeeps, FailsKeeps
<1>10. CASE UNCHANGED vars
  <2>1. UNCHANGED <<pc, bound, queue, came, req, signalled, inner, peer,
                    readState, held, plain, again, out>>
    BY <1>10 DEF vars, osVars, loopVars
  <2>2. TypeOK' = TypeOK /\ Plain' = Plain
    BY <2>1 DEF TypeOK, Plain
  <2>3. /\ Reads' = Reads /\ Idle' = Idle /\ Chain' = Chain
        /\ HandsOnNext' = HandsOnNext
    BY <2>1 DEF Reads, Idle, Chain, Chained, Filled, HandsOnNext
  <2>4. QED
    BY <2>1, <2>2, <2>3 DEF IInv
<1>11. QED
  BY <1>1, <1>2, <1>3, <1>4, <1>5, <1>6, <1>7, <1>8, <1>9, <1>10
     DEF Next, Loop

(***************************************************************************)
(* The inductive invariant holds of every behaviour.                       *)
(***************************************************************************)
THEOREM Invariance == Spec => []IInv
BY InitEstablishes, NextKeeps, PTL DEF Spec

(***************************************************************************)
(* The state of the thread and of its reads keeps its type.                *)
(***************************************************************************)
THEOREM TypeCorrect == Spec => []TypeOK
<1>1. IInv => TypeOK
  BY DEF IInv
<1>2. QED
  BY <1>1, Invariance, PTL

(***************************************************************************)
(* Each side hands on what comes in one after the other, but for what it   *)
(* handles again after a read that has failed (Client.cpp:61-87).          *)
(***************************************************************************)
THEOREM AlwaysHandsOnNext == Spec => []HandsOnNext
<1>1. IInv => HandsOnNext
  BY DEF IInv, HandsOnNext, Handling, Side
<1>2. QED
  BY <1>1, Invariance, PTL

(***************************************************************************)
(* No read is ended that is still under way: innerBuf is not written to    *)
(* while it is used (comm.cpp:229, tun.cpp:305).                           *)
(***************************************************************************)
THEOREM AlwaysEndsWhatIsOver == Spec => []EndsWhatIsOver
<1>1. IInv => EndsWhatIsOver
  BY DEF IInv, Reads, EndsWhatIsOver, Ending, Side
<1>2. QED
  BY <1>1, Invariance, PTL

(***************************************************************************)
(* Nothing is written to the device that was not decrypted.                *)
(***************************************************************************)
THEOREM AlwaysWritesPlain == Spec => []WritesPlain
<1>1. IInv => WritesPlain
  BY DEF IInv, Plain, WritesPlain
<1>2. QED
  BY <1>1, Invariance, PTL

(***************************************************************************)
(* Whenever the thread waits, a read of each side has been begun.          *)
(***************************************************************************)
THEOREM AlwaysListens == Spec => []Listens
<1>1. IInv => Listens
  BY DEF IInv, Reads, Listens, NoRead, Side
<1>2. QED
  BY <1>1, Invariance, PTL

-----------------------------------------------------------------------------
(***************************************************************************)
(* Liveness.  Fairness speaks of steps that can be taken, which the        *)
(* provers cannot see into; that they can is CanGoOn, a hypothesis: while  *)
(* no read of the socket has been refused, the system can complete a       *)
(* pending one if something waits, and the thread can go on unless it      *)
(* waits for an event of the socket.                                       *)
(***************************************************************************)
Unread == queue["sock"] # <<>>

Steps == Connect \/ OpenDriver \/ Loop

CanGoOn ==
  ~Deaf("sock") =>
    /\ Unread /\ req["sock"] = "pending" => ENABLED <<Completes("sock")>>_vars
    /\ (pc = "wait" => "sock" \in signalled) => ENABLED <<Steps>>_vars

(***************************************************************************)
(* A read of the socket that is over has set its event, which nothing but  *)
(* the next read clears.                                                   *)
(***************************************************************************)
Over == req["sock"] \in {"done", "failed"}

Signals == Over => "sock" \in signalled

LEMMA SignalsStay == IInv /\ Signals /\ [Next]_vars => Signals'
<1> SUFFICES ASSUME IInv, Signals, [Next]_vars
             PROVE  Signals'
  OBVIOUS
<1>1. req \in [Side -> {"none", "pending", "done", "failed", "refused"}]
  BY DEF IInv, TypeOK
<1>2. ASSUME NEW s \in Side, Fills(s)
      PROVE  Signals'
  BY <1>1, <1>2 DEF Fills, Signals, Over, Side
<1>3. ASSUME NEW s \in Side, NEW r \in {"pending", "refused"}, Unready(s, r)
      PROVE  Signals'
  BY <1>1, <1>3 DEF Unready, Signals, Over, Side
<1>4. ASSUME NEW s \in Side, Ends(s)
      PROVE  Signals'
  BY <1>1, <1>4 DEF Ends, Signals, Over, Side
<1>5. CASE Connect \/ OpenDriver \/ Write \/ SendEncrypt \/ UNCHANGED vars
  BY <1>5 DEF Connect, OpenDriver, Write, SendEncrypt, vars, osVars, Signals, Over
<1>6. CASE Wait
  BY <1>6 DEF Wait, Signals, Over
<1>7. CASE BeginRead
  BY <1>2, <1>3, <1>7 DEF BeginRead, PostRead, Pends, Refused, Side
<1>8. CASE BeginRecvDecrypt
  BY <1>2, <1>3, <1>8 DEF BeginRecvDecrypt, PostReceive, Pends, Refused, Side
<1>9. CASE EndRecvDecrypt
  BY <1>4, <1>9 DEF EndRecvDecrypt, Gets, GetsNothing, Side
<1>10. CASE EndRead
  BY <1>4, <1>10 DEF EndRead, Gets, GetsNothing, Side
<1>11. ASSUME NEW s \in Side, \/ \E sort \in Sort(s) : ComesIn(s, sort)
                              \/ Completes(s) \/ Fails(s)
       PROVE  Signals'
  BY <1>1, <1>2, <1>11 DEF ComesIn, Completes, Fails, Signals, Over, Side
<1>12. QED
  BY <1>5, <1>6, <1>7, <1>8, <1>9, <1>10, <1>11 DEF Next, Loop

LEMMA AlwaysSignals == Spec => []Signals
<1>1. Init => Signals
  BY DEF Init, Signals, Over, Side
<1>2. QED
  BY <1>1, SignalsStay, Invariance, PTL DEF Spec

(***************************************************************************)
(* The steps of the thread on the way to its next read of the socket.      *)
(***************************************************************************)
Forward ==
  {<<"connect", "open">>, <<"open", "first read">>,
   <<"first read", "first receive">>,
   <<"end read", "send">>, <<"end read", "next read">>,
   <<"send", "next read">>, <<"next read", "wait">>,
   <<"wait", "end receive">>, <<"wait", "end read">>,
   <<"end receive", "write">>, <<"write", "next receive">>}

Place(k, n) == k \in 1 .. Len(queue["sock"]) /\ queue["sock"][k].n = n

LEMMA ThreadGoesOn ==
  ASSUME IInv, Signals, Unread \/ Over, Steps, ~Deaf("sock")'
  PROVE  \/ Fills("sock") /\ ~Over
         \/ /\ queue'["sock"] = queue["sock"]
            /\ inner'["sock"] = inner["sock"]
            /\ <<pc, pc'>> \in Forward
            /\ pc = "wait" =>
                 IF "sock" \in signalled THEN pc' = "end receive"
                 ELSE pc' = "end read"
            /\ pc # "end receive" => req'["sock"] = req["sock"]
            /\ pc = "end receive" /\ req["sock"] = "done" =>
                 held'["sock"] = inner["sock"]
<1>1. /\ req \in [Side -> {"none", "pending", "done", "failed", "refused"}]
      /\ queue \in [Side -> Seq(Waiting)]
      /\ inner \in [Side -> Content \cup {Unfilled}]
      /\ held \in [Side -> Content \cup {Unfilled}]
      /\ "sock" \in Side /\ "tun" \in Side /\ "sock" # "tun"
  BY DEF IInv, TypeOK, Side
<1>2. pc' # "undefined" /\ req'["sock"] # "refused"
  BY DEF Deaf
<1>3. CASE Connect \/ OpenDriver \/ Write \/ SendEncrypt
  BY <1>2, <1>3 DEF Connect, OpenDriver, Write, SendEncrypt, Forward, osVars
<1>4. CASE BeginRead
  <2>1. /\ queue'["sock"] = queue["sock"] /\ req'["sock"] = req["sock"]
        /\ inner'["sock"] = inner["sock"]
    BY <1>1, <1>4 DEF BeginRead, PostRead, Fills, Pends, Refused, Unready
  <2>2. \/ pc = "first read" /\ pc' = "first receive"
        \/ pc = "next read" /\ pc' = "wait"
    BY <1>4 DEF BeginRead
  <2>3. QED
    BY <2>1, <2>2 DEF Forward
<1>5. CASE BeginRecvDecrypt
  <2>1. req["sock"] = "none"
    BY <1>1, <1>5 DEF BeginRecvDecrypt, IInv, Reads, NoRead
  <2>2. Unread /\ ~Over
    BY <2>1 DEF Over
  <2>3. ~Pends("sock")
    BY <2>2 DEF Pends, Unread
  <2>4. ~Refused("sock")
    BY <1>1, <1>2 DEF Refused, Unready
  <2>5. Fills("sock")
    BY <1>5, <2>3, <2>4 DEF BeginRecvDecrypt, PostReceive
  <2>6. QED
    BY <2>2, <2>5
<1>6. CASE Wait
  BY <1>6 DEF Wait, Forward
<1>7. CASE EndRecvDecrypt
  <2>1. /\ queue' = queue /\ inner' = inner
        /\ pc = "end receive" /\ pc' = "write"
    BY <1>2, <1>7 DEF EndRecvDecrypt, Gets, GetsNothing, Ends
  <2>2. req["sock"] = "done" => held'["sock"] = inner["sock"]
    BY <1>1, <1>7 DEF EndRecvDecrypt, Gets, GetsNothing
  <2>3. QED
    BY <2>1, <2>2 DEF Forward
<1>8. CASE EndRead
  <2>1. Ends("tun") /\ pc = "end read"
    BY <1>8 DEF EndRead, Gets, GetsNothing
  <2>2. queue' = queue /\ inner' = inner /\ req'["sock"] = req["sock"]
    BY <1>1, <2>1 DEF Ends
  <2>3. pc' \in {"send", "next read"}
    BY <1>2, <1>8 DEF EndRead
  <2>4. QED
    BY <2>1, <2>2, <2>3 DEF Forward
<1>9. QED
  BY <1>3, <1>4, <1>5, <1>6, <1>7, <1>8 DEF Steps, Loop

LEMMA SystemGoesOn ==
  ASSUME IInv, [Next]_vars, ~Steps
  PROVE  \/ Completes("sock")
         \/ /\ pc' = pc /\ inner'["sock"] = inner["sock"]
            /\ Unread => Unread'
            /\ \A k, n : Place(k, n) => Place(k, n)'
            /\ \/ req'["sock"] = req["sock"]
               \/ req["sock"] = "pending" /\ req'["sock"] = "failed"
<1>1. /\ req \in [Side -> {"none", "pending", "done", "failed", "refused"}]
      /\ queue \in [Side -> Seq(Waiting)]
      /\ inner \in [Side -> Content \cup {Unfilled}]
      /\ "sock" \in Side /\ "tun" \in Side /\ "sock" # "tun"
  BY DEF IInv, TypeOK, Side
<1>2. CASE Completes("tun")
  <2>1. /\ pc' = pc /\ queue'["sock"] = queue["sock"]
        /\ req'["sock"] = req["sock"] /\ inner'["sock"] = inner["sock"]
    BY <1>1, <1>2 DEF Completes, Fills
  <2>2. QED
    BY <2>1 DEF Unread, Place
<1>3. ASSUME NEW s \in Side, Fails(s)
      PROVE  /\ pc' = pc /\ queue' = queue /\ inner' = inner
             /\ \/ req'["sock"] = req["sock"]
                \/ req["sock"] = "pending" /\ req'["sock"] = "failed"
  BY <1>1, <1>3 DEF Fails
<1>4. ASSUME NEW s \in Side, NEW sort \in Sort(s), ComesIn(s, sort)
      PROVE  /\ pc' = pc /\ req' = req /\ inner' = inner
             /\ Unread => Unread'
             /\ \A k, n : Place(k, n) => Place(k, n)'
  <2>1. pc' = pc /\ req' = req /\ inner' = inner
    BY <1>4 DEF ComesIn
  <2> DEFINE new == [n |-> Succ(came[s]), sort |-> sort]
             q == queue["sock"]
             r == Append(q, new)
  <2>2. queue' = [queue EXCEPT ![s] = Append(queue[s], new)]
    BY <1>4 DEF ComesIn
  <2> HIDE DEF new
  <2>3. queue'["sock"] = q \/ queue'["sock"] = r
    BY <1>1, <2>2
  <2>4. q \in Seq(Waiting)
    BY <1>1
  <2> HIDE DEF q
  <2>5. /\ q # <<>> => r # <<>>
        /\ \A k \in 1 .. Len(q) : k \in 1 .. Len(r) /\ r[k] = q[k]
    <3>1. /\ Len(q) \in Nat /\ Len(r) = Len(q) + 1
          /\ \A k \in 1 .. Len(q) : r[k] = q[k]
      BY <2>4
    <3>2. r # <<>>
      BY <3>1
    <3>3. QED
      BY <3>1, <3>2
  <2> HIDE DEF r
  <2>6. QED
    BY <2>1, <2>3, <2>5 DEF Unread, Place, q
<1>5. CASE UNCHANGED vars
  BY <1>5 DEF vars, osVars, Unread, Place
<1>6. QED
  <2>1. CASE \E s \in Side : Fails(s)
    BY <1>3, <2>1 DEF Unread, Place
  <2>2. CASE \E s \in Side : \E sort \in Sort(s) : ComesIn(s, sort)
    BY <1>4, <2>2
  <2>3. QED
    BY <1>2, <1>5, <2>1, <2>2 DEF Next, Steps, Side

(***************************************************************************)
(* Where the thread is while something waits in the socket: on the way to  *)
(* a read, with one that is over, or, with one that is pending, anywhere   *)
(* in its loop.                                                            *)
(***************************************************************************)
UnreadAt(step) == Unread /\ pc = step

OverAt(step) == Unread /\ Over /\ pc = step

Pending == Unread /\ req["sock"] = "pending"

LEMMA Wherever ==
  ASSUME IInv, Unread, ~Deaf("sock")
  PROVE  \/ \E step \in NoRead("sock") \cup {"end receive"} : UnreadAt(step)
         \/ \E step \in {"wait", "end read", "send", "next read"} : OverAt(step)
         \/ Pending
<1>1. /\ TypeOK /\ Reads /\ pc # "undefined" /\ req["sock"] # "refused"
      /\ "sock" \in Side
  BY DEF IInv, Deaf, Side
<1>2. /\ req["sock"] \in {"none", "pending", "done", "failed"}
      /\ req["sock"] = "none" <=> pc \in NoRead("sock")
      /\ pc = "end receive" => Over
  BY <1>1 DEF TypeOK, Reads, Over
<1>3. QED
  BY <1>1, <1>2 DEF TypeOK, UnreadAt, OverAt, Pending, Over, NoRead

(***************************************************************************)
(* What a step makes of it, unless it is the one that brings a datagram.   *)
(***************************************************************************)
LEMMA UnreadStep ==
  ASSUME IInv, Signals, [Next]_vars, Unread, ~Deaf("sock"), ~Deaf("sock")',
         ~Fills("sock")
  PROVE  /\ Unread' /\ ~Completes("sock")
         /\ \A k, n : Place(k, n) => Place(k, n)'
         /\ \A step : UnreadAt(step) =>
              \/ UnreadAt(step)' /\ ~Steps
              \/ \E next : UnreadAt(next)' /\ <<step, next>> \in Forward
         /\ \A step \in {"wait", "end read", "send", "next read"} :
              OverAt(step) =>
                \/ OverAt(step)' /\ ~Steps
                \/ UnreadAt("end receive")' /\ step = "wait"
                \/ /\ step # "wait"
                   /\ \E next : OverAt(next)' /\ <<step, next>> \in Forward
         /\ Pending => Pending' \/ Over'
<1>1. ~Completes("sock")
  BY DEF Completes
<1>2. CASE Steps
  <2>1. /\ queue'["sock"] = queue["sock"] /\ <<pc, pc'>> \in Forward
        /\ pc = "wait" => IF "sock" \in signalled THEN pc' = "end receive"
                          ELSE pc' = "end read"
        /\ pc # "end receive" => req'["sock"] = req["sock"]
    BY <1>2, ThreadGoesOn
  <2>2. Over => "sock" \in signalled
    BY DEF Signals
  <2>3. req["sock"] = "pending" => pc # "end receive"
    BY DEF IInv, Reads, Deaf
  <2>4. Unread' /\ \A k, n : Place(k, n) => Place(k, n)'
    BY <2>1 DEF Unread, Place
  <2>5. ASSUME NEW step, UnreadAt(step)
        PROVE  \E next : UnreadAt(next)' /\ <<step, next>> \in Forward
    BY <2>1, <2>4, <2>5 DEF UnreadAt
  <2>6. ASSUME NEW step \in {"wait", "end read", "send", "next read"},
               OverAt(step)
        PROVE  \/ UnreadAt("end receive")' /\ step = "wait"
               \/ /\ step # "wait"
                  /\ \E next : OverAt(next)' /\ <<step, next>> \in Forward
    <3>1. pc = step /\ Over
      BY <2>6 DEF OverAt
    <3>2. CASE step = "wait"
      BY <2>1, <2>2, <2>4, <3>1, <3>2 DEF UnreadAt
    <3>3. CASE step # "wait"
      <4>1. req'["sock"] = req["sock"]
        BY <2>1, <2>6, <3>1
      <4>2. Over'
        BY <3>1, <4>1 DEF Over
      <4>3. QED
        BY <2>1, <2>4, <3>1, <3>3, <4>2 DEF OverAt
    <3>4. QED
      BY <3>2, <3>3
  <2>7. Pending => Pending'
    BY <2>1, <2>3, <2>4 DEF Pending
  <2>8. QED
    BY <1>1, <2>4, <2>5, <2>6, <2>7
<1>3. CASE ~Steps
  <2>1. /\ Unread' /\ pc' = pc
        /\ \A k, n : Place(k, n) => Place(k, n)'
        /\ \/ req'["sock"] = req["sock"]
           \/ req["sock"] = "pending" /\ req'["sock"] = "failed"
    BY <1>1, <1>3, SystemGoesOn
  <2>2. \A step : UnreadAt(step) => UnreadAt(step)'
    BY <2>1 DEF UnreadAt
  <2>3. \A step : OverAt(step) => OverAt(step)'
    BY <2>1 DEF OverAt, Over
  <2>4. Pending => Pending' \/ Over'
    BY <2>1 DEF Pending, Over
  <2>5. QED
    BY <1>1, <1>3, <2>1, <2>2, <2>3, <2>4
<1>4. QED
  BY <1>2, <1>3

ThreadIsFair == WF_vars(Steps)
ReadsAreFair(s) == SF_vars(Completes(s))

LEMMA FairThread ==
  FairSpec => Spec /\ WF_vars(Steps) /\ SF_vars(Completes("sock"))
<1>1. FairSpec => Spec /\ ThreadIsFair /\ \A s \in Side : ReadsAreFair(s)
  BY PTL DEF FairSpec, ThreadIsFair, Steps, ReadsAreFair
<1>2. FairSpec => Spec /\ ThreadIsFair /\ ReadsAreFair("sock")
  BY <1>1 DEF Side
<1>3. QED
  BY <1>2, PTL DEF ThreadIsFair, ReadsAreFair

LEMMA FillsChanges ==
  ASSUME IInv, Fills("sock")
  PROVE  <<Fills("sock")>>_vars
<1> DEFINE q == queue["sock"]
<1>1. q \in Seq(Waiting) /\ q # <<>> /\ queue'["sock"] = Tail(q)
  BY DEF IInv, TypeOK, Side, Fills
<1> HIDE DEF q
<1>2. Tail(q) # q
  <2>1. Len(q) \in Nat /\ Len(Tail(q)) = Len(q) - 1
    BY <1>1
  <2>2. QED
    BY <2>1
<1>3. QED
  BY <1>1, <1>2 DEF vars, osVars, q

(***************************************************************************)
(* So while no read of the socket is refused, something that waits there   *)
(* is read in the end: from wherever the thread is, each step brings it    *)
(* nearer to its next read, and a read that is pending completes or fails. *)
(***************************************************************************)
LEMMA ReadInTheEnd ==
  FairSpec /\ []CanGoOn =>
    [](Unread => <>Deaf("sock") \/ <><<Fills("sock")>>_vars)
<1> DEFINE B == Deaf("sock")
           I == IInv /\ Signals
           U1 == UnreadAt("first receive")
           U2 == UnreadAt("first read")
           U3 == UnreadAt("open")
           U4 == UnreadAt("connect")
           U5 == UnreadAt("next receive")
           U6 == UnreadAt("write")
           U7 == UnreadAt("end receive")
           O1 == OverAt("wait")
           O2 == OverAt("next read")
           O3 == OverAt("send")
           O4 == OverAt("end read")
           P == Pending
           V == Over
           U == U1 \/ U2 \/ U3 \/ U4 \/ U5 \/ U6 \/ U7
           O == O1 \/ O2 \/ O3 \/ O4
<1>1. I /\ ~B /\ Unread => U \/ O \/ P
  BY Wherever DEF NoRead
<1>2. I /\ Fills("sock") => <<Fills("sock")>>_vars
  BY FillsChanges
<1>3. ASSUME I, ~B, ~B', Unread, [Next]_vars, ~Fills("sock")
      PROVE  /\ Unread' /\ ~Completes("sock")
             /\ U1 => U1' /\ ~Steps
             /\ U2 => (U2' /\ ~Steps) \/ U1'
             /\ U3 => (U3' /\ ~Steps) \/ U2'
             /\ U4 => (U4' /\ ~Steps) \/ U3'
             /\ U5 => U5' /\ ~Steps
             /\ U6 => (U6' /\ ~Steps) \/ U5'
             /\ U7 => (U7' /\ ~Steps) \/ U6'
  <2>1. ASSUME NEW step, UnreadAt(step)
        PROVE  \/ UnreadAt(step)' /\ ~Steps
               \/ \E next : UnreadAt(next)' /\ <<step, next>> \in Forward
    BY <1>3, <2>1, UnreadStep
  <2>2. \A next :
          /\ <<"first receive", next>> \notin Forward
          /\ <<"next receive", next>> \notin Forward
          /\ <<"first read", next>> \in Forward => next = "first receive"
          /\ <<"open", next>> \in Forward => next = "first read"
          /\ <<"connect", next>> \in Forward => next = "open"
          /\ <<"write", next>> \in Forward => next = "next receive"
          /\ <<"end receive", next>> \in Forward => next = "write"
    BY DEF Forward
  <2>3. Unread' /\ ~Completes("sock")
    BY <1>3, UnreadStep
  <2>4. QED
    BY <2>1, <2>2, <2>3
<1>4. ASSUME I, ~B, ~B', Unread, [Next]_vars, ~Fills("sock")
      PROVE  /\ O1 => (O1' /\ ~Steps) \/ U7'
             /\ O2 => (O2' /\ ~Steps) \/ O1'
             /\ O3 => (O3' /\ ~Steps) \/ O2'
             /\ O4 => (O4' /\ ~Steps) \/ O3' \/ O2'
             /\ P => P' \/ V'
  <2>1. ASSUME NEW step \in {"wait", "end read", "send", "next read"},
               OverAt(step)
        PROVE  \/ OverAt(step)' /\ ~Steps
               \/ UnreadAt("end receive")' /\ step = "wait"
               \/ /\ step # "wait"
                  /\ \E next : OverAt(next)' /\ <<step, next>> \in Forward
    BY <1>4, <2>1, UnreadStep
  <2>2. \A next :
          /\ <<"next read", next>> \in Forward => next = "wait"
          /\ <<"send", next>> \in Forward => next = "next read"
          /\ <<"end read", next>> \in Forward => next \in {"send", "next read"}
    BY DEF Forward
  <2>3. O1 => (O1' /\ ~Steps) \/ U7'
    BY <2>1
  <2>4. O2 => (O2' /\ ~Steps) \/ O1'
    BY <2>1, <2>2
  <2>5. O3 => (O3' /\ ~Steps) \/ O2'
    BY <2>1, <2>2
  <2>6. O4 => (O4' /\ ~Steps) \/ O3' \/ O2'
    <3>1. SUFFICES ASSUME O4, ~(O4' /\ ~Steps)
                   PROVE  O3' \/ O2'
      OBVIOUS
    <3>2. PICK next : OverAt(next)' /\ <<"end read", next>> \in Forward
      BY <3>1, <2>1
    <3>3. next = "send" \/ next = "next read"
      BY <3>2, <2>2
    <3>4. QED
      BY <3>2, <3>3
  <2>7. P => P' \/ V'
    BY <1>4, UnreadStep
  <2>8. QED
    BY <2>3, <2>4, <2>5, <2>6, <2>7
<1>5. I /\ ~B /\ Unread /\ V => U \/ O
  BY Wherever DEF NoRead, Over, Pending
<1>6. CanGoOn /\ I /\ ~B => /\ U \/ O => ENABLED <<Steps>>_vars
                            /\ P => ENABLED <<Completes("sock")>>_vars
  BY DEF CanGoOn, UnreadAt, OverAt, Pending, Signals
<1>7. Spec => []I
  BY Invariance, AlwaysSignals, PTL
<1> HIDE DEF B, I, U1, U2, U3, U4, U5, U6, U7, O1, O2, O3, O4, P, V
<1>8. FairSpec /\ []CanGoOn => [](Unread => <>B \/ <><<Fills("sock")>>_vars)
  BY <1>1, <1>2, <1>3, <1>4, <1>5, <1>6, <1>7, FairThread, PTL DEF Spec
<1>9. QED
  BY <1>8 DEF B

(***************************************************************************)
(* What is read from the socket when the server's datagram is the next     *)
(* there makes the client send to the server, and nothing else takes it    *)
(* from its place.                                                         *)
(***************************************************************************)
LEMMA FillsFollows ==
  ASSUME IInv, NextFromServer, Fills("sock")
  PROVE  peer' = Server
<1>1. queue["sock"] \in Seq(Waiting) /\ queue["sock"] # <<>>
  BY DEF IInv, TypeOK, Side, Fills
<1>2. Head(queue["sock"]) = queue["sock"][1]
  BY <1>1
<1>3. QED
  BY <1>2 DEF NextFromServer, Fills

LEMMA NextStaysNext ==
  ASSUME IInv, Signals, [Next]_vars, NextFromServer,
         ~Deaf("sock"), ~Deaf("sock")', ~Fills("sock")
  PROVE  NextFromServer'
<1> DEFINE q == queue["sock"]
<1>1. q \in Seq(Waiting) /\ q # <<>>
  BY DEF IInv, TypeOK, Side, NextFromServer
<1>2. CASE Steps
  <2>1. queue'["sock"] = q
    BY <1>1, <1>2, ThreadGoesOn DEF Unread
  <2>2. QED
    BY <2>1 DEF NextFromServer
<1>3. CASE ~Steps
  <2>1. ASSUME NEW s \in Side, NEW sort \in Sort(s), ComesIn(s, sort)
        PROVE  NextFromServer'
    <3> DEFINE new == [n |-> Succ(came[s]), sort |-> sort]
               r == Append(q, new)
    <3>1. queue' = [queue EXCEPT ![s] = Append(queue[s], new)]
      BY <2>1 DEF ComesIn
    <3> HIDE DEF new
    <3>2. queue'["sock"] = q \/ queue'["sock"] = r
      BY <3>1 DEF IInv, TypeOK, Side
    <3>3. r # <<>> /\ r[1] = q[1]
      <4> HIDE DEF q
      <4>1. Len(q) \in Nat \ {0} /\ Len(r) = Len(q) + 1
        BY <1>1
      <4>2. QED
        BY <1>1, <4>1
    <3>4. QED
      BY <1>1, <3>2, <3>3 DEF NextFromServer
  <2>2. ~Completes("sock")
    BY DEF Completes
  <2>3. Completes("tun") => queue'["sock"] = q
    BY DEF Completes, Fills, IInv, TypeOK, Side
  <2>4. \A s \in Side : Fails(s) => queue'["sock"] = q
    BY DEF Fails
  <2>5. UNCHANGED vars => queue'["sock"] = q
    BY DEF vars, osVars
  <2>6. CASE queue'["sock"] = q
    BY <2>6 DEF NextFromServer
  <2>7. QED
    BY <1>3, <2>1, <2>2, <2>3, <2>4, <2>5, <2>6 DEF Next, Steps, Side
<1>4. QED
  BY <1>2, <1>3

(***************************************************************************)
(* Where the client sends changes only with what the socket brings.        *)
(***************************************************************************)
LEMMA FollowingStays ==
  ASSUME IInv, [Next]_vars, OnlyFromServer, peer = Server
  PROVE  peer' = Server
<1>1. ASSUME Fills("sock")
      PROVE  peer' = Server
  <2>1. queue["sock"] \in Seq(Waiting) /\ queue["sock"] # <<>>
    BY <1>1 DEF IInv, TypeOK, Side, Fills
  <2>2. 1 \in 1 .. Len(queue["sock"])
    BY <2>1
  <2>3. QED
    BY <1>1, <2>1, <2>2, FillsFollows DEF OnlyFromServer, NextFromServer
<1>2. CASE ~Fills("sock")
  <2>1. "tun" # "sock"
    OBVIOUS
  <2>2. Fills("tun") => peer' = peer
    BY <2>1 DEF Fills
  <2>3. \A s \in Side : \A r : Unready(s, r) => peer' = peer
    BY DEF Unready
  <2>4. Steps => peer' = peer
    BY <1>2, <2>2, <2>3
       DEF Steps, Loop, Connect, OpenDriver, BeginRead, PostRead, Pends, Refused,
           BeginRecvDecrypt, PostReceive, Wait, EndRecvDecrypt, EndRead, Gets,
           GetsNothing, Ends, Write, SendEncrypt, osVars, Side
  <2>5. \A s \in Side : Completes(s) \/ Fails(s) => peer' = peer
    BY <1>2, <2>2 DEF Completes, Fails, Side
  <2>6. \A s \in Side : \A sort \in Sort(s) : ComesIn(s, sort) => peer' = peer
    BY DEF ComesIn
  <2>7. UNCHANGED vars => peer' = peer
    BY DEF vars, osVars
  <2>8. QED
    BY <2>4, <2>5, <2>6, <2>7 DEF Next, Steps
<1>3. QED
  BY <1>1, <1>2

(***************************************************************************)
(* The client finds back to its server, with any number of addresses and   *)
(* any room in the socket: the sender of what is received is where         *)
(* everything is sent (comm.cpp:201), the server's datagram stays the next *)
(* until it is received, and a read that has failed is followed by another *)
(* (Client.cpp:76-90).                                                     *)
(***************************************************************************)
THEOREM AlwaysFollows == FairSpec /\ []CanGoOn => Follows
<1> DEFINE K == peer = Server
           H == OnlyFromServer
           N == NextFromServer
           B == Deaf("sock")
           I == IInv /\ Signals
<1>1. H => ~B
  BY DEF OnlyFromServer
<1>2. I /\ H /\ [Next]_vars /\ K => K'
  BY FollowingStays
<1>3. I /\ H /\ Unread => N
  <2>1. I => queue["sock"] \in Seq(Waiting)
    BY DEF IInv, TypeOK, Side
  <2>2. I /\ Unread => 1 \in 1 .. Len(queue["sock"])
    BY <2>1 DEF Unread
  <2>3. QED
    BY <2>2 DEF OnlyFromServer, NextFromServer, Unread
<1>4. I /\ N /\ <<Fills("sock")>>_vars => K'
  BY FillsFollows
<1>5. N => Unread
  BY DEF NextFromServer, Unread
<1>6. I /\ N /\ ~B /\ ~B' /\ [Next]_vars => N' \/ <<Fills("sock")>>_vars
  BY NextStaysNext, FillsChanges
<1>7. Spec => []I
  BY Invariance, AlwaysSignals, PTL
<1>8. FairSpec => Spec
  BY PTL DEF FairSpec
<1> HIDE DEF K, H, N, B, I
<1>9. FairSpec /\ []CanGoOn =>
        [](Unread => <>B \/ <><<Fills("sock")>>_vars)
  BY ReadInTheEnd DEF B
<1>10. FairSpec /\ []CanGoOn => (N ~> K \/ B)
  BY <1>4, <1>5, <1>6, <1>7, <1>8, <1>9, PTL DEF Spec
<1>11. FairSpec /\ []CanGoOn => (<>[]H /\ []<>Unread => <>[]K)
  BY <1>1, <1>2, <1>3, <1>7, <1>8, <1>10, PTL DEF Spec
<1>12. QED
  BY <1>10, <1>11, PTL DEF Follows, H, K, N, B, Unread

(***************************************************************************)
(* What a step makes of what a read of the socket has brought.             *)
(***************************************************************************)
InBuffer(n) == req["sock"] = "done" /\ inner["sock"].n = n

BufferAt(step, n) == InBuffer(n) /\ pc = step

IsHandled(n) == pc \in Handling("sock") /\ held["sock"].n = n

LEMMA BufferStep ==
  ASSUME IInv, Signals, [Next]_vars, ~Deaf("sock"), ~Deaf("sock")',
         NEW n, NEW step, BufferAt(step, n)
  PROVE  \/ BufferAt(step, n)' /\ ~Steps
         \/ step = "wait" /\ BufferAt("end receive", n)'
         \/ step = "end receive" /\ IsHandled(n)'
         \/ /\ step \notin {"wait", "end receive"}
            /\ \E next : BufferAt(next, n)' /\ <<step, next>> \in Forward
<1>1. req["sock"] = "done" /\ inner["sock"].n = n /\ pc = step /\ Over
  BY DEF BufferAt, InBuffer, Over
<1>2. CASE Steps
  <2>1. /\ inner'["sock"] = inner["sock"]
        /\ <<pc, pc'>> \in Forward
        /\ pc = "wait" => pc' = "end receive"
        /\ pc # "end receive" => req'["sock"] = req["sock"]
        /\ pc = "end receive" => held'["sock"] = inner["sock"]
    BY <1>1, <1>2, ThreadGoesOn DEF Signals
  <2>2. CASE step = "end receive"
    <3>1. pc' = "write"
      BY <1>1, <2>1, <2>2 DEF Forward
    <3>2. QED
      BY <1>1, <2>1, <2>2, <3>1 DEF IsHandled, Handling
  <2>3. CASE step # "end receive"
    BY <1>1, <2>1, <2>3 DEF BufferAt, InBuffer
  <2>4. QED
    BY <2>2, <2>3
<1>3. CASE ~Steps
  <2>1. ~Completes("sock")
    BY <1>1 DEF Completes
  <2>2. /\ pc' = pc /\ inner'["sock"] = inner["sock"]
        /\ req'["sock"] = req["sock"]
    BY <1>1, <1>3, <2>1, SystemGoesOn
  <2>3. QED
    BY <1>1, <1>3, <2>2 DEF BufferAt, InBuffer
<1>4. QED
  BY <1>2, <1>3

LEMMA FillsBuffer ==
  ASSUME IInv, NEW n, Place(1, n), Fills("sock")
  PROVE  InBuffer(n)'
<1>1. /\ req \in [Side -> {"none", "pending", "done", "failed", "refused"}]
      /\ inner \in [Side -> Content \cup {Unfilled}]
      /\ queue["sock"] \in Seq(Waiting) /\ "sock" \in Side
  BY DEF IInv, TypeOK, Side
<1>2. req'["sock"] = "done" /\ inner'["sock"] = Data(Head(queue["sock"]))
  BY <1>1 DEF Fills
<1>3. Head(queue["sock"]) = queue["sock"][1]
  BY <1>1
<1>4. Data(Head(queue["sock"])).n = n
  BY <1>3 DEF Data, Place
<1>5. QED
  BY <1>2, <1>4 DEF InBuffer

LEMMA FillsNearer ==
  ASSUME IInv, NEW k \in Nat \ {0}, NEW n, Place(k + 1, n), Fills("sock")
  PROVE  Place(k, n)'
<1> DEFINE q == queue["sock"]
<1>1. q \in Seq(Waiting) /\ q # <<>> /\ queue'["sock"] = Tail(q)
  BY DEF IInv, TypeOK, Side, Fills
<1>2. k + 1 \in 1 .. Len(q) /\ q[k + 1].n = n
  BY DEF Place
<1> HIDE DEF q
<1>3. /\ Len(q) \in Nat /\ Len(Tail(q)) = Len(q) - 1
      /\ \A j \in 1 .. Len(q) - 1 : Tail(q)[j] = q[j + 1]
  BY <1>1
<1>4. k \in 1 .. Len(q) - 1
  BY <1>2, <1>3
<1>5. QED
  BY <1>1, <1>2, <1>3, <1>4 DEF Place

LEMMA BufferWherever ==
  ASSUME IInv, NEW n, InBuffer(n), ~Deaf("sock")
  PROVE  pc \in {"end receive", "wait", "next read", "send", "end read"}
<1>1. /\ TypeOK /\ Reads /\ pc # "undefined" /\ req["sock"] = "done"
      /\ "sock" \in Side
  BY DEF IInv, Deaf, Side, InBuffer
<1>2. pc \notin NoRead("sock")
  BY <1>1 DEF Reads
<1>3. QED
  BY <1>1, <1>2 DEF TypeOK, NoRead

LEMMA PlaceUnread ==
  ASSUME NEW k \in Nat \ {0}, NEW n, Place(k, n)
  PROVE  Unread
<1>1. Len(queue["sock"]) # 0
  BY DEF Place
<1>2. QED
  BY <1>1 DEF Unread

LEMMA PlaceStep ==
  ASSUME IInv, Signals, [Next]_vars, ~Deaf("sock"), ~Deaf("sock")',
         NEW k \in Nat \ {0}, NEW n
  PROVE  /\ Place(k, n) => Place(k, n)' \/ Fills("sock")
         /\ Place(1, n) => Place(1, n)' \/ InBuffer(n)'
         /\ Place(k + 1, n) => Place(k + 1, n)' \/ Place(k, n)'
<1>1. \A j \in Nat \ {0} : Place(j, n) => Place(j, n)' \/ Fills("sock")
  BY PlaceUnread, UnreadStep
<1>2. k + 1 \in Nat \ {0} /\ 1 \in Nat \ {0}
  OBVIOUS
<1>3. QED
  BY <1>1, <1>2, FillsBuffer, FillsNearer

LEMMA NextServed ==
  ASSUME NEW n \in Number, NEW k \in Nat \ {0}
  PROVE  FairSpec /\ []CanGoOn =>
           (Place(k + 1, n) ~> Place(k, n) \/ Deaf("sock"))
<1> DEFINE B == Deaf("sock")
           I == IInv /\ Signals
           F == Place(k + 1, n)
           G == Place(k, n)
<1>1. F => Unread
  <2>1. k + 1 \in Nat \ {0}
    OBVIOUS
  <2>2. QED
    BY <2>1, PlaceUnread
<1>2. I /\ ~B /\ ~B' /\ F /\ [Next]_vars => F' \/ G'
  BY PlaceStep
<1>3. I /\ F /\ <<Fills("sock")>>_vars => G'
  BY FillsNearer
<1>4. Spec => []I
  BY Invariance, AlwaysSignals, PTL
<1>5. FairSpec => Spec
  BY PTL DEF FairSpec
<1> HIDE DEF B, I, F, G
<1>6. FairSpec /\ []CanGoOn =>
        [](Unread => <>B \/ <><<Fills("sock")>>_vars)
  BY ReadInTheEnd DEF B
<1>7. FairSpec /\ []CanGoOn => (F ~> G \/ B)
  BY <1>1, <1>2, <1>3, <1>4, <1>5, <1>6, PTL DEF Spec
<1>8. QED
  BY <1>7 DEF B, F, G

LEMMA FirstServed ==
  ASSUME NEW n \in Number
  PROVE  FairSpec /\ []CanGoOn =>
           (Place(1, n) \/ InBuffer(n) ~> IsHandled(n) \/ Deaf("sock"))
<1> DEFINE B == Deaf("sock")
           I == IInv /\ Signals
           F == Place(1, n)
           G == InBuffer(n)
           D == IsHandled(n)
           E == BufferAt("end receive", n)
           W == BufferAt("wait", n)
           R == BufferAt("next read", n)
           S == BufferAt("send", n)
           T == BufferAt("end read", n)
<1>1. F => Unread
  <2>1. 1 \in Nat \ {0}
    OBVIOUS
  <2>2. QED
    BY <2>1, PlaceUnread
<1>2. I /\ ~B /\ ~B' /\ F /\ [Next]_vars => F' \/ G'
  <2>1. 1 \in Nat \ {0}
    OBVIOUS
  <2>2. QED
    BY <2>1, PlaceStep
<1>3. I /\ F /\ <<Fills("sock")>>_vars => G'
  BY FillsBuffer
<1>4. I /\ ~B /\ G => E \/ W \/ R \/ S \/ T
  BY BufferWherever DEF BufferAt
<1>5. ASSUME I, ~B, ~B', [Next]_vars
      PROVE  /\ E => (E' /\ ~Steps) \/ D'
             /\ W => (W' /\ ~Steps) \/ E'
             /\ R => (R' /\ ~Steps) \/ W'
             /\ S => (S' /\ ~Steps) \/ R'
             /\ T => (T' /\ ~Steps) \/ S' \/ R'
  <2>1. ASSUME NEW step, BufferAt(step, n)
        PROVE  \/ BufferAt(step, n)' /\ ~Steps
               \/ step = "wait" /\ BufferAt("end receive", n)'
               \/ step = "end receive" /\ IsHandled(n)'
               \/ /\ step \notin {"wait", "end receive"}
                  /\ \E next : BufferAt(next, n)' /\ <<step, next>> \in Forward
    BY <1>5, <2>1, BufferStep
  <2>2. \A next :
          /\ <<"next read", next>> \in Forward => next = "wait"
          /\ <<"send", next>> \in Forward => next = "next read"
          /\ <<"end read", next>> \in Forward => next \in {"send", "next read"}
    BY DEF Forward
  <2>3. E => (E' /\ ~Steps) \/ D'
    BY <2>1
  <2>4. W => (W' /\ ~Steps) \/ E'
    BY <2>1
  <2>5. R => (R' /\ ~Steps) \/ W'
    BY <2>1, <2>2
  <2>6. S => (S' /\ ~Steps) \/ R'
    BY <2>1, <2>2
  <2>7. T => (T' /\ ~Steps) \/ S' \/ R'
    <3>1. SUFFICES ASSUME T, ~(T' /\ ~Steps)
                   PROVE  S' \/ R'
      OBVIOUS
    <3>2. PICK next : BufferAt(next, n)' /\ <<"end read", next>> \in Forward
      BY <3>1, <2>1
    <3>3. next = "send" \/ next = "next read"
      BY <3>2, <2>2
    <3>4. QED
      BY <3>2, <3>3
  <2>8. QED
    BY <2>3, <2>4, <2>5, <2>6, <2>7
<1>6. CanGoOn /\ I /\ ~B /\ (E \/ W \/ R \/ S \/ T) => ENABLED <<Steps>>_vars
  BY DEF CanGoOn, BufferAt, InBuffer, Signals, Over
<1>7. Spec => []I
  BY Invariance, AlwaysSignals, PTL
<1> HIDE DEF B, I, F, G, D, E, W, R, S, T
<1>8. FairSpec /\ []CanGoOn =>
        [](Unread => <>B \/ <><<Fills("sock")>>_vars)
  BY ReadInTheEnd DEF B
<1>9. FairSpec /\ []CanGoOn => (F \/ G ~> D \/ B)
  BY <1>1, <1>2, <1>3, <1>4, <1>5, <1>6, <1>7, <1>8, FairThread, PTL DEF Spec
<1>10. QED
  BY <1>9 DEF B, F, G, D

(***************************************************************************)
(* What waits in the socket gets nearer to being read, from any place in   *)
(* any queue, and what is first there, or in the buffer of a read, is      *)
(* handled, unless a read of the socket is refused: each turn begins the   *)
(* read it has ended again (Client.cpp:68-74), and what a read has brought *)
(* is in the thread's buffer before the next is begun.  From this the half *)
(* of BothServed for the socket follows by counting places.                *)
(***************************************************************************)
SockIsServed(n) ==
  /\ Place(1, n) \/ InBuffer(n) ~> IsHandled(n) \/ Deaf("sock")
  /\ \A k \in Nat \ {0} : Place(k + 1, n) ~> Place(k, n) \/ Deaf("sock")

THEOREM AlwaysSockServed ==
  ASSUME NEW n \in Number
  PROVE  FairSpec /\ []CanGoOn => SockIsServed(n)
<1>1. FairSpec /\ []CanGoOn =>
        (Place(1, n) \/ InBuffer(n) ~> IsHandled(n) \/ Deaf("sock"))
  BY FirstServed
<1>2. ASSUME NEW k \in Nat \ {0}
      PROVE  FairSpec /\ []CanGoOn =>
               (Place(k + 1, n) ~> Place(k, n) \/ Deaf("sock"))
  BY NextServed
<1>3. QED
  BY <1>1, <1>2 DEF SockIsServed
=============================================================================
