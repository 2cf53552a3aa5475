SPECIFICATION FairSpec
CONSTANTS
  Operations <- AllOps
  Actors = {a1, a2}
  MaxRequests = 3
  Overlap = TRUE
  LostAnswers = TRUE
  Crashes = TRUE
CHECK_DEADLOCK FALSE
INVARIANT ReadyHasFirstReady
INVARIANT DeletedDateMatches
PROPERTY RequestsEnd
