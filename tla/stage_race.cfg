CONSTANTS
  N = 2
  Script <- OneScene
  UIntMax = 7
  Interrupts <- NoInterrupts
SPECIFICATION Spec
PROPERTIES
  OnlyTheLastEndsTheScene
CHECK_DEADLOCK FALSE
