CONSTANTS
  d1 = d1
  d2 = d2
  Director <- MCDirector
  Play <- MCPlay
  Repertoire <- MCRepertoire
  Environments <- CalmEnvironments
  Offset <- TwoOffsets
  MaxStarts = 2
  MaxStops = 2
SPECIFICATION FairSpec
PROPERTIES
  QuitIsAnswered
  GrayAreaEnds
CHECK_DEADLOCK FALSE
