CONSTANTS
  c1 = c1
  c2 = c2
  c3 = c3
  Callers <- MCCallers3
  Threshold = 2
  RecoveryTimeout = 2
  MayCancel = TRUE
  StoreMayFail = TRUE
SPECIFICATION FairSpec
INVARIANTS CountMatchesState DiskIsCurrent FlagHasTrial
PROPERTIES CallsGetThrough
