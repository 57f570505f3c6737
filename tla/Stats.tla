-------------------------------- MODULE Stats --------------------------------
(***************************************************************************)
(* The server's statistics (struct tstat, output_info and the lines of     *)
(* svpn_server_handle_thread that feed it, src/server/svpn_server.c): the  *)
(* status line on stderr and the log of received bytes.                    *)
(*                                                                         *)
(* A turn of the loop reads the clock, counts a packet of the socket if it *)
(* was accepted, and one of the tunnel if it was sent.  Each count calls   *)
(* output_info, which makes a new status line when enough bytes or enough  *)
(* time have gone by since the last one.  The names are those of the code: *)
(* "send" is what users send, "recv" what they receive.                    *)
(*                                                                         *)
(* The totals and the times have 64 bits in the code and do not wrap here; *)
(* `tval' and the speeds are ints and do.                                  *)
(***************************************************************************)
EXTENDS Integers

CONSTANTS
  Ints,       \* number of values of an int, 2^32
  Second,     \* the clock's ticks in a second, 1000000
  OptTh,      \* OPT_TH, bytes
  TimTh,      \* TIM_TH, ticks
  Lens,       \* lengths of packets
  Gaps,       \* by how much the clock can advance from one turn to the next
  Start,      \* what the clock can show at first
  Latest,     \* bound: on the clock
  Most        \* bound: no turn starts when a total is more than this

Dir == {"send", "recv"}

ASSUME IntsAssumption == Ints \in Nat \ {0} /\ Ints % 2 = 0
ASSUME ThresholdAssumption ==
  /\ Second \in Nat \ {0} /\ OptTh \in Nat \ {0} /\ TimTh \in Nat \ {0}
ASSUME InputAssumption ==
  /\ Lens \subseteq Nat \ {0} /\ Gaps \subseteq Nat \ {0}
  /\ Start \subseteq Nat
(* A packet has at most BUFFER_LEN bytes, 4096; OPT_TH is a megabyte *)
ASSUME PacketAssumption == \A n \in Lens : n < OptTh

VARIABLES
  phase,      \* "select", "socket" or "tunnel", or "crashed"
  ts_current, ts_last,
  total, last,
  speed,
  log,        \* svpn.log: "none" before it is opened, then "open"
  tl_last,    \* tl_last
  logged,     \* history: the sum of the numbers in the log
  base        \* history: the first tl_last that was not 0, or 0

vars == <<phase, ts_current, ts_last, total, last, speed, log, tl_last,
          logged, base>>

(***************************************************************************)
(* What is left of n in an int; and the quotient of C, for n >= 0.         *)
(***************************************************************************)
Wrap(n) == ((n + Ints \div 2) % Ints) - Ints \div 2

Quot(n, m) == IF m > 0 THEN n \div m ELSE -(n \div (-m))

Init ==
  /\ phase = "select"
  /\ ts_last \in Start
  /\ ts_current = ts_last
  /\ total = [d \in Dir |-> 0]
  /\ last = total
  /\ speed = total
  /\ log = "none"
  /\ tl_last = 0
  /\ logged = 0
  /\ base = 0

(***************************************************************************)
(* select has returned and the time is taken.                              *)
(***************************************************************************)
Clock(g) ==
  /\ phase = "select"
  /\ ts_current + g <= Latest
  /\ \A d \in Dir : total[d] <= Most
  /\ ts_current' = ts_current + g
  /\ phase' = "socket"
  /\ UNCHANGED <<ts_last, total, last, speed, log, tl_last, logged, base>>

(***************************************************************************)
(* Nothing to count in this branch, or a `continue' that ends the turn.    *)
(***************************************************************************)
Skip ==
  /\ \/ phase = "socket" /\ phase' \in {"tunnel", "select"}
     \/ phase = "tunnel" /\ phase' = "select"
  /\ UNCHANGED <<ts_current, ts_last, total, last, speed, log, tl_last,
                 logged, base>>

-----------------------------------------------------------------------------
(***************************************************************************)
(* One branch counts n bytes, which makes the totals t.                    *)
(***************************************************************************)
Branch(d) == phase = IF d = "send" THEN "socket" ELSE "tunnel"

After == IF phase = "socket" THEN "tunnel" ELSE "select"

With(d, n) == [total EXCEPT ![d] = @ + n]

\* mutant of IsDue: both directions have to be over the threshold
IsDueBoth(t) ==
  \/ \A d \in Dir : t[d] - last[d] >= OptTh
  \/ ts_current - ts_last >= TimTh

(***************************************************************************)
(* The test at the head of output_info.                                    *)
(***************************************************************************)
IsDue(t) ==
  \/ \E d \in Dir : t[d] - last[d] >= OptTh
  \/ ts_current - ts_last >= TimTh

\* mutant of tval: the two times exchanged
TvalBackwards == Wrap(ts_last - ts_current)

tval == Wrap(ts_current - ts_last)

Quiet(d, n) ==
  /\ Branch(d)
  /\ ~IsDue(With(d, n))
  /\ total' = With(d, n)
  /\ phase' = After
  /\ UNCHANGED <<ts_current, ts_last, last, speed, log, tl_last, logged, base>>

(***************************************************************************)
(* The log gets a line in every even second of the clock, except the first *)
(* one in which something has been received.                               *)
(***************************************************************************)
InLog == (ts_current \div Second) % 2 = 0
HasLine == InLog /\ tl_last # 0

\* mutant of Report: tl_last is set in every second
ReportResets(d, n) ==
  /\ Branch(d)
  /\ IsDue(With(d, n)) /\ tval # 0
  /\ total' = With(d, n)
  /\ speed' = [e \in Dir |-> Wrap(Quot((total'[e] - last[e]) * Second, tval))]
  /\ ts_last' = ts_current
  /\ last' = total'
  /\ tl_last' = total'["recv"]
  /\ base' = IF tl_last = 0 THEN tl_last' ELSE base
  /\ logged' = IF HasLine THEN logged + (total'["recv"] - tl_last) ELSE logged
  /\ log' = IF HasLine THEN "open" ELSE log
  /\ phase' = After
  /\ UNCHANGED ts_current

\* mutant of Report: the next report counts from where this one did
ReportKeepsLast(d, n) ==
  /\ Branch(d)
  /\ IsDue(With(d, n)) /\ tval # 0
  /\ total' = With(d, n)
  /\ speed' = [e \in Dir |-> Wrap(Quot((total'[e] - last[e]) * Second, tval))]
  /\ ts_last' = ts_current
  /\ last' = last
  /\ tl_last' = IF InLog THEN total'["recv"] ELSE tl_last
  /\ base' = IF tl_last = 0 THEN tl_last' ELSE base
  /\ logged' = IF HasLine THEN logged + (total'["recv"] - tl_last) ELSE logged
  /\ log' = IF HasLine THEN "open" ELSE log
  /\ phase' = After
  /\ UNCHANGED ts_current

(***************************************************************************)
(* A new status line, and a line of the log if it is its turn.             *)
(***************************************************************************)
Report(d, n) ==
  /\ Branch(d)
  /\ IsDue(With(d, n)) /\ tval # 0
  /\ total' = With(d, n)
  /\ speed' = [e \in Dir |-> Wrap(Quot((total'[e] - last[e]) * Second, tval))]
  /\ ts_last' = ts_current
  /\ last' = total'
  /\ tl_last' = IF InLog THEN total'["recv"] ELSE tl_last
  /\ base' = IF tl_last = 0 THEN tl_last' ELSE base
  /\ logged' = IF HasLine THEN logged + (total'["recv"] - tl_last) ELSE logged
  /\ log' = IF HasLine THEN "open" ELSE log
  /\ phase' = After
  /\ UNCHANGED ts_current

(***************************************************************************)
(* output_info does not return: it divides by an interval that is 0 in an  *)
(* int, or could not open the log and prints to NULL.                      *)
(***************************************************************************)
Crash(d, n) ==
  /\ Branch(d)
  /\ IsDue(With(d, n))
  /\ tval = 0 \/ (HasLine /\ log = "none")
  /\ phase' = "crashed"
  /\ UNCHANGED <<ts_current, ts_last, total, last, speed, log, tl_last,
                 logged, base>>

Next ==
  \/ \E g \in Gaps : Clock(g)
  \/ Skip
  \/ \E d \in Dir, n \in Lens : Quiet(d, n) \/ Report(d, n) \/ Crash(d, n)

Spec == Init /\ [][Next]_vars

-----------------------------------------------------------------------------
AnInt == -(Ints \div 2) .. Ints \div 2 - 1

TypeOK ==
  /\ phase \in {"select", "socket", "tunnel", "crashed"}
  /\ ts_current \in Nat /\ ts_last \in Nat
  /\ total \in [Dir -> Nat] /\ last \in [Dir -> Nat]
  /\ speed \in [Dir -> AnInt]
  /\ log \in {"none", "open"}
  /\ tl_last \in Nat /\ logged \in Nat /\ base \in Nat

(***************************************************************************)
(* The numbers in the log add up to what has been received from its start  *)
(* to its last line: no byte is counted in two of them or in none, though  *)
(* status lines of odd seconds are not logged.                             *)
(***************************************************************************)
LogAccounts == logged = tl_last - base

(***************************************************************************)
(* The status line is never OPT_TH bytes behind in either direction.       *)
(***************************************************************************)
StatusRecent == \A d \in Dir : total[d] - last[d] < OptTh

(***************************************************************************)
(* output_info divides by 0 (svpn_server.c:103) only when a whole range of *)
(* the ints has gone by without a status line: the two branches of a turn, *)
(* which see the same time, never both make one.                           *)
(***************************************************************************)
NoZeroInterval ==
  \A d \in Dir, n \in Lens :
    Branch(d) /\ IsDue(With(d, n)) /\ tval = 0 => ts_current - ts_last >= Ints

(***************************************************************************)
(* A speed is that of the bytes since the last status line, if it fits in  *)
(* an int (2 GB/s), unless nothing was counted for as long as half the     *)
(* ints: after some 36 minutes `tval' is negative (svpn_server.c:102).     *)
(***************************************************************************)
Rate(d) == ((total'[d] - last[d]) * Second) \div (ts_current - ts_last)

SpeedsSane ==
  [][last' # last /\ ts_current - ts_last < Ints \div 2
       => \A d \in Dir : Rate(d) < Ints \div 2 => speed'[d] = Rate(d)]_vars
=============================================================================
