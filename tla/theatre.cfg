CONSTANTS
  d1 = d1
  d2 = d2
  Director <- MCDirector
  Play <- MCPlay
  Repertoire <- MCRepertoire
  Environments <- MCEnvironments
  Offset <- MCOffset
  MaxStarts = 2
  MaxStops = 2
SPECIFICATION Spec
INVARIANTS
  TypeOK
  MenuHasSocket
  RecordsBelong
  IndexMatchesMenu
  HandshakeOnePlay
  HandshakeAvailable
  HandshakeStop
  HandshakeCounts
CHECK_DEADLOCK FALSE
