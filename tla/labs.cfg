CONSTANTS
  N = 3
  Script <- TwoScenes
  UIntMax = 7
  Interrupts <- NoInterrupts
  Bookings <- MCBookings
  Plays <- MCPlays
  Directories <- MCDirectories
  Fragments <- MCFragments
  Untitled = ""
  CommandLines <- MCCommandLines
  Scripts <- MCScripts
  Names <- MCNames
  Headings <- MCHeadings
  NONE = 0
  Texts <- MCTexts
  Spaces = "spaces"
  Libraries <- MCLibraries
  MaxSplits = 2
SPECIFICATION LabsSpec
INVARIANTS
  EnoughForTwo
  TitlesTellScenes
  NeverShortHanded
  EveryLineSpoken
  RecitalAgrees
  RoundTrip
PROPERTIES
  RecitalEnds
  EnsembleFinishes
CHECK_DEADLOCK FALSE
