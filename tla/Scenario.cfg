\* Two tasks, every combination of the policy fields, and longer runs.
SPECIFICATION Spec
CONSTANTS
  Task <- TwoTasks
  Configs <- ComparisonConfigs
INVARIANTS
  TypeOK
  SameFrames
  ProtectedNotSlower
PROPERTIES
  WalkTakesOneOfEach
CHECK_DEADLOCK FALSE
