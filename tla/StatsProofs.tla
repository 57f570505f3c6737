---------------------------- MODULE StatsProofs -----------------------------
(***************************************************************************)
(* The statistics are right for any width of an int, any thresholds, and   *)
(* whatever packets and times come in.                                     *)
(***************************************************************************)
EXTENDS Stats, TLAPS

(***************************************************************************)
(* A turn that has not counted yet is later than the last status line; if  *)
(* the turn has made one, everything counted is in it.                     *)
(***************************************************************************)
Times ==
  /\ ts_last <= ts_current
  /\ phase = "socket" => ts_last < ts_current
  /\ phase = "tunnel" /\ ts_last = ts_current => total = last

(***************************************************************************)
(* The status line is behind, and the log is behind the status line.       *)
(***************************************************************************)
Behind ==
  /\ \A d \in Dir : last[d] <= total[d]
  /\ tl_last <= last["recv"]
  /\ base <= tl_last /\ (base = 0 <=> tl_last = 0)

IInv == TypeOK /\ Times /\ Behind /\ LogAccounts /\ StatusRecent
-----------------------------------------------------------------------------
LEMMA SmallModulo ==
  ASSUME NEW m \in Nat \ {0}
  PROVE  /\ \A n \in Int : n % m \in 0 .. m - 1
         /\ \A n \in 0 .. m - 1 : n % m = n
         /\ \A n \in m .. m + m - 1 : n % m = n - m
<1>1. \A n \in Int : n % m \in 0 .. m - 1
  OBVIOUS
<1>2. \A n \in 0 .. m - 1 : n % m = n
  OBVIOUS
<1>3. \A n \in m .. m + m - 1 : n % m = n - m
  OBVIOUS
<1>4. QED
  BY <1>1, <1>2, <1>3

Half == Ints \div 2

LEMMA HalfFacts == Half \in Nat \ {0} /\ Ints = Half + Half
BY IntsAssumption DEF Half

(***************************************************************************)
(* Wrap yields an int, is the identity on what fits in one, and 0 only for *)
(* 0 and what is at least the range of the ints.                           *)
(***************************************************************************)
LEMMA WrapFacts ==
  /\ \A n \in Int : Wrap(n) \in AnInt
  /\ \A n \in Nat : n < Half => Wrap(n) = n
  /\ \A n \in Nat : n < Ints /\ Wrap(n) = 0 => n = 0
<1>1. Half \in Nat \ {0} /\ Ints = Half + Half /\ Ints \in Nat \ {0}
  BY HalfFacts
<1>2. \A n \in Int : Wrap(n) = ((n + Half) % Ints) - Half
  BY DEF Wrap, Half
<1>3. ASSUME NEW n \in Int
      PROVE  Wrap(n) \in AnInt
  <2>1. (n + Half) % Ints \in 0 .. Ints - 1
    BY <1>1, SmallModulo
  <2>2. AnInt = -Half .. Half - 1
    BY DEF AnInt, Half
  <2>3. Wrap(n) = ((n + Half) % Ints) - Half
    BY <1>2
  <2> DEFINE k == (n + Half) % Ints
  <2> HIDE DEF k
  <2>4. k \in 0 .. Ints - 1 /\ Wrap(n) = k - Half
    BY <2>1, <2>3 DEF k
  <2>5. k - Half \in AnInt
    BY <1>1, <2>2, <2>4
  <2>6. QED
    BY <2>4, <2>5
<1>4. ASSUME NEW n \in Nat, n < Half
      PROVE  Wrap(n) = n
  <2>1. n + Half \in 0 .. Ints - 1
    BY <1>1, <1>4
  <2>2. (n + Half) % Ints = n + Half
    BY <1>1, <2>1, SmallModulo
  <2>3. Wrap(n) = (n + Half) - Half
    BY <1>2, <2>2
  <2>4. QED
    BY <1>1, <2>3
<1>5. ASSUME NEW n \in Nat, n < Ints, Wrap(n) = 0
      PROVE  n = 0
  <2>1. CASE n < Half
    BY <1>4, <1>5, <2>1
  <2>2. CASE n >= Half
    <3>1. n + Half \in Ints .. Ints + Ints - 1
      BY <1>1, <1>5, <2>2
    <3>2. (n + Half) % Ints = (n + Half) - Ints
      BY <1>1, <3>1, SmallModulo
    <3>3. Wrap(n) = ((n + Half) - Ints) - Half
      BY <1>2, <3>2
    <3>4. QED
      BY <1>1, <1>5, <3>3
  <2>3. QED
    BY <1>1, <2>1, <2>2
<1>6. QED
  BY <1>3, <1>4, <1>5

LEMMA QuotInt ==
  ASSUME NEW n \in Int, NEW m \in Int, m # 0
  PROVE  Quot(n, m) \in Int
<1>1. CASE m > 0
  BY <1>1 DEF Quot
<1>2. CASE m < 0
  <2>1. -m \in Nat \ {0}
    BY <1>2
  <2>2. n \div (-m) \in Int
    BY <2>1
  <2>3. QED
    BY <1>2, <2>2 DEF Quot
<1>3. QED
  BY <1>1, <1>2

(***************************************************************************)
(* Counting a packet adds to one total.                                    *)
(***************************************************************************)
LEMMA WithFacts ==
  ASSUME TypeOK, NEW d \in Dir, NEW n \in Lens
  PROVE  /\ n \in Nat \ {0} /\ n < OptTh
         /\ With(d, n) \in [Dir -> Nat]
         /\ \A e \in Dir : With(d, n)[e] = total[e] + (IF e = d THEN n ELSE 0)
<1>1. n \in Nat \ {0} /\ n < OptTh /\ total \in [Dir -> Nat]
  BY InputAssumption, PacketAssumption DEF TypeOK
<1>2. QED
  BY <1>1 DEF With

LEMMA InitEstablishes == Init => IInv
<1> SUFFICES ASSUME Init
             PROVE  IInv
  OBVIOUS
<1>1. \A d \in Dir : total[d] = 0 /\ last[d] = 0 /\ speed[d] = 0
  BY DEF Init
<1>2. "recv" \in Dir /\ OptTh \in Nat \ {0}
  BY ThresholdAssumption DEF Dir
<1>3. ts_last \in Nat /\ ts_current = ts_last
  BY InputAssumption DEF Init
<1>4. 0 \in AnInt
  <2>1. AnInt = -Half .. Half - 1
    BY DEF AnInt, Half
  <2>2. QED
    BY <2>1, HalfFacts
<1>5. TypeOK
  BY <1>3, <1>4 DEF Init, TypeOK
<1>6. Times /\ Behind
  BY <1>1, <1>2, <1>3 DEF Init, Times, Behind
<1>7. LogAccounts /\ StatusRecent
  BY <1>1, <1>2 DEF Init, LogAccounts, StatusRecent
<1>8. QED
  BY <1>5, <1>6, <1>7 DEF IInv

-----------------------------------------------------------------------------
LEMMA ClockKeeps ==
  ASSUME IInv, NEW g \in Gaps, Clock(g)
  PROVE  IInv'
<1>1. g \in Nat \ {0} /\ ts_current \in Nat /\ ts_last \in Nat
  BY InputAssumption DEF IInv, TypeOK
<1>2. ts_current' = ts_current + g /\ phase' = "socket" /\ ts_last' = ts_last
  BY DEF Clock
<1>3. Times'
  BY <1>1, <1>2 DEF IInv, Times
<1>4. TypeOK'
  BY <1>1, <1>2 DEF Clock, IInv, TypeOK
<1>5. Behind' /\ LogAccounts' /\ StatusRecent'
  BY DEF Clock, IInv, Behind, LogAccounts, StatusRecent
<1>6. QED
  BY <1>3, <1>4, <1>5 DEF IInv

(***************************************************************************)
(* No count, or none that is finished.                                     *)
(***************************************************************************)
LEMMA NothingKeeps ==
  ASSUME IInv, Skip \/ \E d \in Dir, n \in Lens : Crash(d, n)
  PROVE  IInv'
<1>1. /\ UNCHANGED <<ts_current, ts_last, total, last, speed, log, tl_last,
                     logged, base>>
      /\ phase' \in {"tunnel", "select", "crashed"}
      /\ phase' = "tunnel" => phase = "socket"
  BY DEF Skip, Crash
<1>2. ts_current \in Nat /\ ts_last \in Nat
  BY DEF IInv, TypeOK
<1>3. Times'
  BY <1>1, <1>2 DEF IInv, Times
<1>4. QED
  BY <1>1, <1>3 DEF IInv, TypeOK, Behind, LogAccounts, StatusRecent

LEMMA QuietKeeps ==
  ASSUME IInv, NEW d \in Dir, NEW n \in Lens, Quiet(d, n)
  PROVE  IInv'
<1>1. /\ TypeOK /\ Times /\ Behind
      /\ total' = With(d, n) /\ ~IsDue(With(d, n))
      /\ n \in Nat \ {0}
      /\ total' \in [Dir -> Nat]
      /\ \A e \in Dir : total'[e] = total[e] + (IF e = d THEN n ELSE 0)
  BY WithFacts DEF IInv, Quiet
<1>2. UNCHANGED <<ts_current, ts_last, last, speed, log, tl_last, logged, base>>
  BY DEF Quiet
<1>3. /\ phase' \in {"tunnel", "select"}
      /\ phase' = "tunnel" => phase = "socket"
  BY DEF Quiet, After
<1>4. TypeOK'
  BY <1>1, <1>2, <1>3 DEF TypeOK
<1>5. Times'
  <2>1. ts_current \in Nat /\ ts_last \in Nat
    BY <1>1 DEF TypeOK
  <2>2. QED
    BY <1>1, <1>2, <1>3, <2>1 DEF Times
<1>6. Behind'
  <2>1. ASSUME NEW e \in Dir
        PROVE  last'[e] <= total'[e]
    <3>1. last[e] \in Nat /\ total[e] \in Nat /\ last[e] <= total[e]
      BY <1>1 DEF TypeOK, Behind
    <3>2. QED
      BY <1>1, <1>2, <3>1
  <2>2. QED
    BY <1>1, <1>2, <2>1 DEF Behind
<1>7. StatusRecent'
  <2>1. ASSUME NEW e \in Dir
        PROVE  total'[e] - last'[e] < OptTh
    <3>1. last[e] \in Nat /\ total'[e] \in Nat /\ OptTh \in Nat
      BY <1>1, ThresholdAssumption DEF TypeOK
    <3>2. ~(total'[e] - last[e] >= OptTh)
      BY <1>1 DEF IsDue
    <3>3. QED
      BY <1>2, <3>1, <3>2
  <2>2. QED
    BY <2>1 DEF StatusRecent
<1>8. LogAccounts'
  BY <1>2 DEF IInv, LogAccounts
<1>9. QED
  BY <1>4, <1>5, <1>6, <1>7, <1>8 DEF IInv

(***************************************************************************)
(* A report brings the status line up to date, and the log if it is its    *)
(* turn; what the log has once begun with stays.                           *)
(***************************************************************************)
LEMMA ReportKeeps ==
  ASSUME IInv, NEW d \in Dir, NEW n \in Lens, Report(d, n)
  PROVE  IInv'
<1>1. /\ TypeOK /\ Times /\ Behind /\ LogAccounts
      /\ n \in Nat \ {0}
      /\ total' \in [Dir -> Nat]
      /\ \A e \in Dir : total'[e] = total[e] + (IF e = d THEN n ELSE 0)
  BY WithFacts DEF IInv, Report
<1>2. /\ last' = total' /\ ts_last' = ts_current /\ ts_current' = ts_current
      /\ phase' \in {"tunnel", "select"}
      /\ log' \in {"none", "open"}
  BY <1>1 DEF Report, After, TypeOK
<1>3. /\ "recv" \in Dir /\ total["recv"] \in Nat /\ last["recv"] \in Nat
      /\ total'["recv"] \in Nat /\ total["recv"] <= total'["recv"]
      /\ last["recv"] <= total["recv"] /\ tl_last <= last["recv"]
      /\ tl_last \in Nat /\ base \in Nat /\ logged \in Nat
      /\ base <= tl_last /\ (base = 0 <=> tl_last = 0)
      /\ logged = tl_last - base
  <2>1. "recv" \in Dir
    BY DEF Dir
  <2>2. QED
    BY <1>1, <2>1 DEF TypeOK, Behind, LogAccounts
<1>4. /\ tl_last' = (IF InLog THEN total'["recv"] ELSE tl_last)
      /\ base' = (IF tl_last = 0 THEN tl_last' ELSE base)
      /\ logged' = (IF InLog /\ tl_last # 0
                    THEN logged + (total'["recv"] - tl_last) ELSE logged)
  BY DEF Report, HasLine
<1>5. /\ tl_last' \in Nat /\ base' \in Nat /\ logged' \in Nat
      /\ base' <= tl_last' /\ (base' = 0 <=> tl_last' = 0)
      /\ logged' = tl_last' - base'
      /\ tl_last' <= total'["recv"]
  <2>1. CASE InLog
    BY <1>3, <1>4, <2>1
  <2>2. CASE ~InLog
    BY <1>3, <1>4, <2>2
  <2>3. QED
    BY <2>1, <2>2
<1>6. speed' \in [Dir -> AnInt]
  <2>1. tval \in Int /\ tval # 0
    <3>1. ts_current - ts_last \in Int
      BY <1>1 DEF TypeOK
    <3>2. Wrap(ts_current - ts_last) \in AnInt
      BY <3>1, WrapFacts
    <3>3. AnInt \subseteq Int
      BY DEF AnInt
    <3>4. QED
      BY <3>2, <3>3 DEF tval, Report
  <2>2. ASSUME NEW e \in Dir
        PROVE  Wrap(Quot((total'[e] - last[e]) * Second, tval)) \in AnInt
    <3>1. (total'[e] - last[e]) * Second \in Int
      BY <1>1, ThresholdAssumption DEF TypeOK
    <3>2. QED
      BY <2>1, <3>1, QuotInt, WrapFacts
  <2>3. QED
    BY <2>2 DEF Report
<1>7. TypeOK'
  BY <1>1, <1>2, <1>5, <1>6 DEF TypeOK
<1>8. Times'
  BY <1>1, <1>2 DEF Times, TypeOK
<1>9. Behind'
  BY <1>1, <1>2, <1>5 DEF Behind
<1>10. LogAccounts'
  BY <1>5 DEF LogAccounts
<1>11. StatusRecent'
  BY <1>1, <1>2, ThresholdAssumption DEF StatusRecent
<1>12. QED
  BY <1>7, <1>8, <1>9, <1>10, <1>11 DEF IInv

LEMMA NextKeeps == IInv /\ [Next]_vars => IInv'
<1> SUFFICES ASSUME IInv, [Next]_vars
             PROVE  IInv'
  OBVIOUS
<1>1. CASE \E g \in Gaps : Clock(g)
  BY <1>1, ClockKeeps
<1>2. CASE Skip \/ \E d \in Dir, n \in Lens : Crash(d, n)
  BY <1>2, NothingKeeps
<1>3. CASE \E d \in Dir, n \in Lens : Quiet(d, n)
  BY <1>3, QuietKeeps
<1>4. CASE \E d \in Dir, n \in Lens : Report(d, n)
  BY <1>4, ReportKeeps
<1>5. CASE UNCHANGED vars
  BY <1>5 DEF vars, IInv, TypeOK, Times, Behind, LogAccounts, StatusRecent
<1>6. QED
  BY <1>1, <1>2, <1>3, <1>4, <1>5 DEF Next

LEMMA Invariance == Spec => []IInv
BY InitEstablishes, NextKeeps, PTL DEF Spec

-----------------------------------------------------------------------------
(***************************************************************************)
(* The times are naturals, and neither the log nor its start is ever ahead *)
(* of the totals: no line of svpn.log (svpn_server.c:127) has a negative   *)
(* number.                                                                 *)
(***************************************************************************)
THEOREM TypeCorrect == Spec => []TypeOK
<1>1. IInv => TypeOK
  BY DEF IInv
<1>2. QED
  BY <1>1, Invariance, PTL

(***************************************************************************)
(* The lines of the log (svpn_server.c:116-132) account for every byte     *)
(* from its start to its last line, whichever seconds the reports fall in. *)
(***************************************************************************)
THEOREM LogAlwaysAccounts == Spec => []LogAccounts
<1>1. IInv => LogAccounts
  BY DEF IInv
<1>2. QED
  BY <1>1, Invariance, PTL

(***************************************************************************)
(* The status line (svpn_server.c:97-99) is never OPT_TH bytes behind.     *)
(***************************************************************************)
THEOREM StatusAlwaysRecent == Spec => []StatusRecent
<1>1. IInv => StatusRecent
  BY DEF IInv
<1>2. QED
  BY <1>1, Invariance, PTL

(***************************************************************************)
(* Two reports of one turn never divide by an interval of 0                *)
(* (svpn_server.c:102-104): the second needs a packet of OPT_TH bytes.     *)
(***************************************************************************)
THEOREM NeverZeroInterval == Spec => []NoZeroInterval
<1>1. IInv => NoZeroInterval
  <2> SUFFICES ASSUME IInv, NEW d \in Dir, NEW n \in Lens,
                      Branch(d), IsDue(With(d, n)), tval = 0,
                      ~(ts_current - ts_last >= Ints)
               PROVE  FALSE
    BY DEF NoZeroInterval
  <2>1. /\ TypeOK /\ Times
        /\ ts_current \in Nat /\ ts_last \in Nat /\ ts_last <= ts_current
        /\ Ints \in Nat /\ OptTh \in Nat \ {0} /\ TimTh \in Nat \ {0}
    BY IntsAssumption, ThresholdAssumption DEF IInv, TypeOK, Times
  <2>2. ts_current = ts_last
    <3>1. ts_current - ts_last \in Nat /\ ts_current - ts_last < Ints
      BY <2>1
    <3>2. ts_current - ts_last = 0
      BY <3>1, WrapFacts DEF tval
    <3>3. QED
      BY <2>1, <3>2
  <2>3. phase = "tunnel"
    BY <2>1, <2>2 DEF Branch, Times
  <2>4. total = last
    BY <2>1, <2>2, <2>3 DEF Times
  <2>5. ASSUME NEW e \in Dir
        PROVE  ~(With(d, n)[e] - last[e] >= OptTh)
    <3>1. /\ n \in Nat /\ n < OptTh /\ total[e] \in Nat
          /\ With(d, n)[e] = total[e] + (IF e = d THEN n ELSE 0)
      BY <2>1, WithFacts DEF TypeOK
    <3>2. QED
      BY <2>1, <2>4, <3>1
  <2>6. ~(ts_current - ts_last >= TimTh)
    BY <2>1, <2>2
  <2>7. QED
    BY <2>5, <2>6 DEF IsDue
<1>2. QED
  BY <1>1, Invariance, PTL

(***************************************************************************)
(* Where the interval and the rate fit in an int, the cuts to int of       *)
(* output_info (svpn_server.c:102-104) change nothing: the speed is that   *)
(* of the bytes counted since the last status line.                        *)
(***************************************************************************)
THEOREM SpeedsAlwaysSane == Spec => SpeedsSane
<1>1. ASSUME IInv, [Next]_vars,
             last' # last, ts_current - ts_last < Ints \div 2,
             NEW e \in Dir, Rate(e) < Ints \div 2
      PROVE  speed'[e] = Rate(e)
  <2>1. PICK d \in Dir, n \in Lens : Report(d, n)
    BY <1>1 DEF Next, vars, Clock, Skip, Quiet, Crash
  <2>2. /\ TypeOK
        /\ ts_current \in Nat /\ ts_last \in Nat /\ ts_last <= ts_current
        /\ Half \in Nat \ {0} /\ Second \in Nat \ {0}
    BY <1>1, HalfFacts, ThresholdAssumption DEF IInv, TypeOK, Times
  <2> DEFINE interval == ts_current - ts_last
             bytes == total'[e] - last[e]
  <2>3. interval \in Nat /\ interval < Half
    BY <1>1, <2>2 DEF Half
  <2>4. tval = interval
    BY <2>3, WrapFacts DEF tval
  <2>5. interval \in Nat \ {0}
    BY <2>1, <2>3, <2>4 DEF Report
  <2>6. bytes \in Nat
    <3>1. /\ n \in Nat /\ total[e] \in Nat /\ last[e] \in Nat
          /\ last[e] <= total[e]
          /\ total'[e] = total[e] + (IF e = d THEN n ELSE 0)
      BY <1>1, <2>1, <2>2, WithFacts DEF Report, IInv, Behind, TypeOK
    <3>2. QED
      BY <3>1
  <2>7. speed'[e] = Wrap(Quot(bytes * Second, interval))
    BY <2>1, <2>4 DEF Report
  <2>8. Rate(e) = (bytes * Second) \div interval
    BY DEF Rate
  <2> HIDE DEF interval, bytes
  <2>9. bytes * Second \in Nat
    BY <2>2, <2>6
  <2>10. Quot(bytes * Second, interval) = (bytes * Second) \div interval
    BY <2>5 DEF Quot
  <2>11. (bytes * Second) \div interval \in Nat
    BY <2>5, <2>9
  <2>12. Rate(e) \in Nat /\ Rate(e) < Half
    BY <1>1, <2>8, <2>11 DEF Half
  <2>13. Wrap(Rate(e)) = Rate(e)
    BY <2>12, WrapFacts
  <2>14. QED
    BY <2>7, <2>8, <2>10, <2>13
<1>2. IInv /\ [Next]_vars =>
        (last' # last /\ ts_current - ts_last < Ints \div 2
           => \A d \in Dir : Rate(d) < Ints \div 2 => speed'[d] = Rate(d))
  BY <1>1
<1>3. QED
  BY <1>2, Invariance, PTL DEF Spec, SpeedsSane
=============================================================================
