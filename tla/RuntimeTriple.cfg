\* Three tasks: the policy and the scheduler under priorities that tie and
\* priorities that differ.
SPECIFICATION Spec
CONSTANTS
  Task <- ThreeTasks
  Configs <- TripleConfigs
  Latencies <- SlowLatency
  NoDelay = NoDelay
INVARIANTS
  BacklogInv
  BacklogWithinThreshold
  TopPriorityNeverWaits
  PressureSummariesAgree
PROPERTIES
  ShedsLowestFirst
  NoPriorityInversion
CHECK_DEADLOCK FALSE
