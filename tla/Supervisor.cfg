CONSTANTS
  MaxCrashes = 3
  Window = 2
  LastDelay = 3
  Swallows = TRUE
  MaxRuns = 2
SPECIFICATION FairSpec
INVARIANTS OneRun CrashedIsEscalated
PROPERTIES GivesUpInTime StopReturns
