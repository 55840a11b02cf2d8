CONSTANTS
  N = 4
  Budget = 2
  MaxRuns = 2
  MaxCommands = 4
  Jobs <- AllJobs
  Uris = {1, 2, 3}
  MaxOpen = 2
  PerTask = 2
SPECIFICATION RunnerSpec
CHECK_DEADLOCK FALSE
INVARIANTS
  AtMostOneMoreStarts
  ReturnsPrefixFold
  EventsAreTold
  CancelEndsOneRun
  EveryEntryOnce
  PartsAreTheInput
  HandlesInUseStayOpen
PROPERTIES
  RunsEnd
  TasksEnd
