SPECIFICATION FairSpec
CONSTANTS
  c1 = c1
  c2 = c2
  p1 = p1
  p2 = p2
  p3 = p3
  None = None
  Conns <- const_Conns
  MaxClients = 1
  Props <- const_Props1
  Throttled = {}
  Pause = p3
  TrackList = p1
  MaxQueue = 0
  EarlyChanges = FALSE
  TrackSwitches = FALSE
  Shutdown = FALSE
PROPERTIES EventLoopGoesOn
\* a failed assertion or a circular wait stops the program
CHECK_DEADLOCK FALSE
