SPECIFICATION FairSpec
CONSTANTS
  p1 = p1
  p2 = p2
  Props <- const_Props
  Throttled = {p2}
  Pause = p1
  TrackList = p2
  MaxQueue = 1
  EarlyChanges = TRUE
INVARIANTS TypeOK CountersMatch StaleIsPending ObservedOnce
PROPERTIES UpdateLeavesSent InitialisationCompletes
\* a failed assertion stops the program
CHECK_DEADLOCK FALSE
