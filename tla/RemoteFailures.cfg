\* The failures of a call.
SPECIFICATION Spec
CONSTANT Dispatches <- ManyDispatches
INVARIANT FailuresRecorded
CHECK_DEADLOCK FALSE
