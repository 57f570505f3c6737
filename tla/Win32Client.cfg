SPECIFICATION FairSpec
CONSTANTS
  Count = 3
  Room = 1
  Sender = {s1, s2}
  Server = s1
  Junk = Junk
INVARIANTS
  HandsOnNext
  EndsWhatIsOver
  WritesPlain
  Listens
PROPERTIES
  BothServed
  Follows
CHECK_DEADLOCK FALSE
