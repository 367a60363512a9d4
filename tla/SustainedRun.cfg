\* The command run-multi-workload-sustained over two tasks.
SPECIFICATION FairSustainedSpec
CONSTANTS
  Task <- TwoTasks
  Configs <- RunConfigs
  Latencies <- FastLatency
  NoDelay = NoDelay
  Requests <- AllRequests
  Declarations <- AllDeclarations
  WorkerSetups <- AllSetups
INVARIANTS
  SustainedTypeOK
  GateMeansProduced
  OverridesTraced
  RefusedOnlyForLineage
  BudgetsStated
PROPERTIES
  CommandEnds
CHECK_DEADLOCK FALSE
