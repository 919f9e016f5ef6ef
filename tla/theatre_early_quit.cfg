CONSTANTS
  d1 = d1
  d2 = d2
  Director <- MCDirector
  Play <- OnePlay
  Repertoire <- OneRepertoire
  Environments <- CalmEnvironments
  Offset <- OneOffset
  MaxStarts = 1
  MaxStops = 0
SPECIFICATION Spec
INVARIANTS
  QuitFindsRecord
CHECK_DEADLOCK FALSE
