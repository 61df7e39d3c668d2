CONSTANTS
  i1 = i1
  i2 = i2
  Intents <- MCIntents
  Operations <- MCOperations
  OpOf <- MCOpOf
  Declared = {"publish"}
  Recovery = TRUE
  MaxAttempts = 2
  MaxFaults = 3
SPECIFICATION FairSpec
INVARIANTS RunsAreCounted AnswersAreJournaled LimitHolds RecoveryIsComplete
PROPERTIES EventuallyFinished OncePerRestart ReplayOldestFirst FinishedIsFinal AtLeastOnceSpec
