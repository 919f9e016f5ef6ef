CONSTANTS
  N = 3
  Script <- TwoScenes
  UIntMax = 7
  Interrupts <- BothInterrupts
SPECIFICATION FairSpec
INVARIANTS
  TypeOK
  ScriptOrder
  OneLeader
  NeverEntersFinishedScene
  NobodyStartsAlone
  RightText
PROPERTIES
  IsPerformance
  PlayEnds
CHECK_DEADLOCK FALSE
