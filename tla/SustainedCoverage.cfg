\* The two counts of device-local producers in one report.
SPECIFICATION SustainedSpec
CONSTANTS
  Task <- TwoTasks
  Configs <- RunConfigs
  Latencies <- FastLatency
  NoDelay = NoDelay
  Requests <- AllRequests
  Declarations <- AllDeclarations
  WorkerSetups <- AllSetups
INVARIANTS
  CoverageCountsProducers
CHECK_DEADLOCK FALSE
