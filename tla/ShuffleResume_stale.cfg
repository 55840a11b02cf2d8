CONSTANTS
  Procs = {p, q}
  Writers = {1, 2, 3}
  Nobody = Nobody
  Installed <- Modules
  Unset = Unset
  Written <- Analyses
  Endpoints <- Instances
  Variants <- TwoPayloads
  NoBlob = NoBlob
  Garbled = Garbled
  MaxRuns = 2
  MaxCrashes = 0
  MaxDamage = 0
SPECIFICATION Spec
CHECK_DEADLOCK FALSE
INVARIANT
  NoStaleResult
