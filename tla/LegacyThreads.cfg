SPECIFICATION FairSpec
CONSTANTS
  Thread = {1, 2, 3}
  NoThread = NoThread
INVARIANTS
  QuietRelease
  Survives
  OneMore
PROPERTIES
  StopStops
CHECK_DEADLOCK FALSE
