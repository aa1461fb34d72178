\* Launches that reach the lock together: the documented single flight.
SPECIFICATION FairSpec
CONSTANTS
  p1 = p1
  p2 = p2
  NoProc = NoProc
  Procs <- TwoProcs
  Points = 1
  Overlap = TRUE
INVARIANTS
  SingleFlight
CHECK_DEADLOCK FALSE
