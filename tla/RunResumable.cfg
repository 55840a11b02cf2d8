CONSTANTS
  N = 3
  d1 = d1
  d2 = d2
  d3 = d3
  Tasks <- MCTasks
  Digests = {d1, d2, d3}
  Torn = Torn
  NoBlob = NoBlob
  Outcomes <- MixedOutcomes
  Poison = {3}
  Flaky = {1}
  Retries = 1
  ErrorBudget = 1
  NoBudget = NoBudget
  Tears = TRUE
  Loses = TRUE
  MaxCrashes = 2
  MaxDamage = 1
  MaxRuns = 3
SPECIFICATION FairSpec
CHECK_DEADLOCK FALSE
INVARIANTS
  TypeOK
  NoDoubleCountNoLoss
  FoldedIsAuthentic
  RefusedIsRewritten
  OneLossPerCrash
  BudgetIsExact
PROPERTIES
  Returns
