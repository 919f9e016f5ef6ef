CONSTANTS
  d1 = d1
  d2 = d2
  Director <- MCDirector
  Play <- OnePlay
  Repertoire <- OneRepertoire
  Environments <- NoEvents
  Offset <- OneOffset
  MaxStarts = 3
  MaxStops = 1
SPECIFICATION Spec
INVARIANTS
  OnePlayAtATime
CHECK_DEADLOCK FALSE
