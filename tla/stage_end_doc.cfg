CONSTANTS
  N = 2
  Script <- OneScene
  UIntMax = 7
  Interrupts <- NoInterrupts
SPECIFICATION FairSpec
PROPERTIES
  EverybodyIsWoken
CHECK_DEADLOCK FALSE
