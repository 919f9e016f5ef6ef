CONSTANTS
  Worker = {w1, w2, w3}
  Inputs <- MCInputs
  None = 0
  Client = {"ann", "bob"}
  Text <- MCText
  MaxSessions <- MCSessions
  MaxRuns = 2
  Uninitialised = {0}
  Stale <- MCStale
  Timers <- MCTimers
  MaxCommands = 5
  NoTimer = 0
SPECIFICATION StudiosSpec
INVARIANTS
  JudgedRightly
  IdsAreUnique
  Delivered
PROPERTIES
  Served
  FiniReturns
  ServiceQuiet
  ListDrains
  WorkersStop
  PoolAnswers
CHECK_DEADLOCK FALSE
