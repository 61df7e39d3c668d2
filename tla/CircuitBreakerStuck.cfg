CONSTANTS
  c1 = c1
  c2 = c2
  c3 = c3
  Callers <- MCCallers2
  Threshold = 2
  RecoveryTimeout = 1
  MayCancel = TRUE
  StoreMayFail = FALSE
SPECIFICATION FairSpec
PROPERTIES NeverShutOut
