CONSTANTS
  t1 = t1
  t2 = t2
  Publishers <- MCPublishers
  IncidentStates = {"degraded"}
  MaxEvents = 5
  MaxFaults = 1
  MaxHistory = 1
  ReplayLimit = 3
SPECIFICATION Spec
SYMMETRY MCSymmetry
INVARIANTS LogKeepsOrder NothingVanishes RebuildAgrees CliIsTrue
CHECK_DEADLOCK FALSE
