CONSTANTS
  t1 = t1
  t2 = t2
  Names = {"jes", "a", "b"}
  MaxUniverses = 8
  Programs <- AllPrograms
  MaxReads = 2
  ShiftBy <- Shifts
  CentralBy <- Centrals
  WeightBy <- Weights
SPECIFICATION Spec
CHECK_DEADLOCK FALSE
INVARIANTS
  RegistryIsWhatReturned
  WeightIsFresh
  UniverseIsItsPoint
