CONSTANTS
  t1 = t1
  t2 = t2
  Names = {"jes", "a", "b"}
  MaxUniverses = 8
  Programs <- FoldPrograms
  MaxReads = 1
  ShiftBy <- Shifts
  CentralBy <- Centrals
  WeightBy <- Weights
SPECIFICATION Spec
CHECK_DEADLOCK FALSE
INVARIANT WeightIsFresh
