CONSTANTS
  N = 2
  Script <- OneScene
  UIntMax = 7
  Interrupts <- StopOnly
SPECIFICATION FairSpec
PROPERTIES
  StopLetsPlayersLeave
CHECK_DEADLOCK FALSE
