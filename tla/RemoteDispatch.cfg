\* Two and three workers, every outcome of every call.
SPECIFICATION FairSpec
CONSTANT Dispatches <- ManyDispatches
INVARIANTS
  TypeOK
  CallsByPreference
  SuccessEndsDispatch
  ResultIsTruthful
  NotCarriedOutTwice
PROPERTY DispatchEnds
CHECK_DEADLOCK FALSE
