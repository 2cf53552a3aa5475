SPECIFICATION Spec
CONSTANTS
  Operations <- ManagerOps
  Actors = {a1, a2}
  MaxRequests = 6
  Overlap = FALSE
  LostAnswers = FALSE
  Crashes = FALSE
CHECK_DEADLOCK FALSE
PROPERTY FirstReadyStable
