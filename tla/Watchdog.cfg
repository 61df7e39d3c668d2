CONSTANTS
  Names = {"sensor", "uplink"}
  MayStop = TRUE
SPECIFICATION FairSpec
INVARIANTS StaleIsEscalated
PROPERTIES StaleThenRecovered SilenceIsFound
