\* Two tasks, every combination of the policy fields, under the fairness of
\* the interpreter.
SPECIFICATION FairSpec
CONSTANTS
  Task <- TwoTasks
  Configs <- PairConfigs
  Latencies <- AllLatencies
  NoDelay = NoDelay
INVARIANTS
  TypeOK
  FramesAccounted
  EvidenceConsistent
  PeakRecorded
  QueueBound
  ServedInOrder
  DrainNeverStalls
  RiskLevelIsHonest
  OverflowShowsCapacity
  FairnessIsHonest
  HintsAgreeWithRisk
  CoverageIsComplete
PROPERTIES
  EveryFrameSettles
  LedgerImplemented
CHECK_DEADLOCK FALSE
