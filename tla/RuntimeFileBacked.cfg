\* The delays a report of a file-backed run shows.
SPECIFICATION Spec
CONSTANTS
  Task <- TwoTasks
  Configs <- FileBackedConfigs
  Latencies <- SlowLatency
  NoDelay = NoDelay
PROPERTY DelayedTaskTraced
CHECK_DEADLOCK FALSE
