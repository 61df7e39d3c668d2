CONSTANTS
  MaxCrashes = 3
  Window = 2
  LastDelay = 3
  Swallows = FALSE
  MaxRuns = 2
SPECIFICATION Spec
INVARIANT RunningIsTrue
