CONSTANTS
  Keys = {k1, k2}
  Workers = {w1, w2}
  Driver = driver
  QueueSize = 2
  MaxAttempts = 2
  MaxBreaks = 1
SPECIFICATION DashboardSpec
CHECK_DEADLOCK FALSE
SYMMETRY Interchangeable
INVARIANTS
  EventsAccounted
  PageConverges
