CONSTANTS
  t1 = t1
  t2 = t2
  Threads = {t1, t2}
  Programs <- AnyProgram
  Partitioned = {"x", "z"}
  MaxCalls = 4
  Data <- Chunks
  Steps = 3
  Spread = 2
  Peeks = {1, 2}
SPECIFICATION Spec
CHECK_DEADLOCK FALSE
INVARIANTS
  BytesAreTheGraph
  LandingsKeepTheirValues
  CompileIsStable
  PlanFoldsToTheWhole
  MaterializedIsTheWhole
  StagedIsTheWhole
  JoinsAreRelational
