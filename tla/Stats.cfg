SPECIFICATION Spec
CONSTANTS
  Ints = 64
  Second = 4
  OptTh = 3
  TimTh = 8
  Lens = {2}
  Gaps = {3, 12, 40, 64}
  Start = {0}
  Latest = 67
  Most = 6
INVARIANTS
  LogAccounts
  StatusRecent
  NoZeroInterval
PROPERTIES
  SpeedsSane
CHECK_DEADLOCK FALSE
