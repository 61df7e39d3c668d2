CONSTANTS
  NumSubs = 2
  NumHandlers = 2
  HandlersMayRaise = TRUE
  MayCancel = TRUE
SPECIFICATION FairSpec
INVARIANTS ServingIsComplete FailedBootReleases IncidentMatchesState
PROPERTIES StopIsComplete ShutdownIsFinal CallsReturn
