------------------------------ MODULE MCScenario ------------------------------
(***************************************************************************)
(* Instances of OverloadScenario for TLC.                                  *)
(***************************************************************************)
EXTENDS OverloadScenario

TwoTasks == {1, 2}

ScenarioConfigs ==
  [priority   : [TwoTasks -> {0, 1}],
   queueSize  : [TwoTasks -> {1, 3}],
   dropPolicy : [TwoTasks -> {"drop_oldest", "drop_newest"}],
   emitEvery  : [TwoTasks -> {1, 2}],
   budget     : {[t \in TwoTasks |-> IF t = 1 THEN 4 ELSE 2]},
   latency    : {[t \in TwoTasks |-> IF t = 1 THEN 3 ELSE 1],
                 [t \in TwoTasks |-> IF t = 1 THEN 0 ELSE 4]},
   fallback   : {[t \in TwoTasks |-> FALSE]},
   order      : {[t \in TwoTasks |-> t]},
   threshold  : {1, 2},
   interval   : {2},
   fileBacked : {FALSE},
   frames     : {0, 4},
   drain      : {TRUE}]

\* More than twenty frames of a task, where the 95th percentile is not the
\* largest latency; the queues hold few of them, or all.
Uniform(values) == {[t \in TwoTasks |-> v] : v \in values}

LongConfigs ==
  [priority   : {[t \in TwoTasks |-> t], [t \in TwoTasks |-> 2 - t]},
   queueSize  : Uniform({3, 30}),
   dropPolicy : Uniform({"drop_oldest", "drop_newest"}),
   emitEvery  : {[t \in TwoTasks |-> 1], [t \in TwoTasks |-> t]},
   budget     : {[t \in TwoTasks |-> IF t = 1 THEN 4 ELSE 2]},
   latency    : {[t \in TwoTasks |-> IF t = 1 THEN 3 ELSE 1],
                 [t \in TwoTasks |-> IF t = 1 THEN 0 ELSE 4],
                 [t \in TwoTasks |-> 2]},
   fallback   : {[t \in TwoTasks |-> FALSE]},
   order      : {[t \in TwoTasks |-> t], [t \in TwoTasks |-> 2 - t]},
   threshold  : {2, 100},
   interval   : {2},
   fileBacked : {FALSE},
   frames     : {22},
   drain      : {TRUE}]

ComparisonConfigs == ScenarioConfigs \cup LongConfigs
=============================================================================
