CONSTANTS
  Procs = {p, q}
  Writers = {1, 2, 3}
  Nobody = Nobody
  Installed <- Modules
  Unset = Unset
  Written <- Analyses
  Endpoints <- Instances
  Variants <- TwoPayloads
  NoBlob = NoBlob
  Garbled = Garbled
  MaxRuns = 2
  MaxCrashes = 1
  MaxDamage = 1
SPECIFICATION Spec
CHECK_DEADLOCK FALSE
SYMMETRY Interchangeable
INVARIANTS
  CommittedIsRecorded
  RecordsNameTheirInputs
  ResultIsOwn
  EndpointsAreNotIdentity
