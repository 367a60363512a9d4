\* Two workers of the registry share an id.
SPECIFICATION Spec
CONSTANT Dispatches <- DoubledIds
INVARIANT FallbackEligible
CHECK_DEADLOCK FALSE
