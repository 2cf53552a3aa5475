SPECIFICATION Spec
CONSTANTS
  Operations <- AllOps
  Actors = {a1, a2}
  MaxRequests = 5
  Overlap = FALSE
  LostAnswers = TRUE
  Crashes = TRUE
SYMMETRY Symmetry
CHECK_DEADLOCK FALSE
INVARIANT TypeOK
INVARIANT DeletedIsGone
INVARIANT RegistryBacksRow
 
PROPERTY DeletedIsFinal
PROPERTY StateMachineSpec
