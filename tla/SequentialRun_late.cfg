CONSTANTS
  N = 4
  Budget = 2
  MaxRuns = 2
  MaxCommands = 4
SPECIFICATION Spec
CHECK_DEADLOCK FALSE
INVARIANTS
  CancelReachesNoLaterRun
