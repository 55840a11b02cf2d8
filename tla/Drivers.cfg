CONSTANTS
  Runs = {r1, r2, r3}
  Envs = {e1, e2}
  Torn = Torn
  NoBlob = NoBlob
  Tears = FALSE
  Overlaps = TRUE
  Tasks = {t1, t2, t3, t4}
  Labels = {t1, t2, t3, t4}
  LabelOf <- OwnLabels
  Flaky = {t1, t2, t3, t4}
  Warnings = {"user", "runtime"}
  Always = {"runtime"}
  Warning = {t1, t2, t3, t4}
  Processes = {p1, p2}
  Other = Other
  AtOnce = 2
  Budget = 2
  MaxLosses = 4
SYMMETRY Interchangeable
SPECIFICATION DriversSpec
CHECK_DEADLOCK FALSE
INVARIANTS
  ToldOfOtherEnvironments
  EveryChunkAccounted
  BudgetIsMet
  WarningsReachTheDriver
PROPERTIES
  RecordedIsNotRefused
