CONSTANTS
  d1 = d1
  d2 = d2
  Director <- MCDirector
  Play <- MCPlay
  Repertoire <- MCRepertoire
  Environments <- NoEvents
  Offset <- TwoOffsets
  MaxStarts = 1
  MaxStops = 1
SPECIFICATION Spec
INVARIANTS
  StopReachesItsPlay
CHECK_DEADLOCK FALSE
