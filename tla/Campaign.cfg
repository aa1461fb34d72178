\* Launches spaced by more than an acquisition: the lock holds.
SPECIFICATION FairSpec
CONSTANTS
  p1 = p1
  p2 = p2
  NoProc = NoProc
  Procs <- TwoProcs
  Points = 2
  Overlap = FALSE
INVARIANTS
  SingleFlight
  ExclusiveMeasurement
PROPERTIES
  LockKept
  LaunchEnds
  StaleLockFalls
CHECK_DEADLOCK FALSE
