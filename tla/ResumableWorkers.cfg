CONSTANTS
  t1 = t1
  t2 = t2
  d1 = d1
  d2 = d2
  Tasks = {t1, t2}
  Digests = {d1, d2}
  Torn = Torn
  NoBlob = NoBlob
  NoWriter = NoWriter
  Drivers = {da, db}
  Workers = {wa, wb}
  Writers <- Writers3
  Outcomes <- DistinctOutcomes
  Tears = TRUE
  Loses = TRUE
  ShortWrites = FALSE
  MaxPlans = 2
  MaxCrashes = 1
  MaxDamage = 1
SPECIFICATION Spec
CHECK_DEADLOCK FALSE
SYMMETRY Interchangeable
INVARIANTS
  AnswersAreAuthentic
PROPERTIES
  KeepsResults
  RecordedIsNotRerun
