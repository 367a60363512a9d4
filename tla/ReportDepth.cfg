\* The final depths a report shows.
SPECIFICATION Spec
CONSTANTS
  Task <- TwoTasks
  Configs <- PairConfigs
  Latencies <- SlowLatency
  NoDelay = NoDelay
INVARIANT FinalDepthIsFinal
CHECK_DEADLOCK FALSE
