SPECIFICATION Spec
CONSTANTS
  c1 = c1
  c2 = c2
  p1 = p1
  p2 = p2
  p3 = p3
  None = None
  Conns <- const_Conns
  MaxClients = 1
  Props <- const_Props2
  Throttled = {}
  Pause = p3
  TrackList = p2
  MaxQueue = 0
  EarlyChanges = FALSE
  TrackSwitches = TRUE
  Shutdown = FALSE
INVARIANTS OneObservation
SYMMETRY const_Symmetry
\* a failed assertion or a circular wait stops the program
CHECK_DEADLOCK FALSE
