\* The documented goal of a walk of the policy.
SPECIFICATION Spec
CONSTANTS
  Task <- TwoTasks
  Configs <- ScenarioConfigs
PROPERTY ShedsUntilThreshold
CHECK_DEADLOCK FALSE
