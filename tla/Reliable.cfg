CONSTANTS
  c1 = c1
  c2 = c2
  Callers <- MCCallers
  MaxAttempts = 2
  Timed = TRUE
  Threshold = 2
  RecoveryTimeout = 1
  MayCancel = TRUE
  StoreMayFail = TRUE
SPECIFICATION FairCallsSpec
INVARIANTS AttemptsRunAlone
PROPERTIES BreakerSpec CallsEnd HangsAreNoTrap
