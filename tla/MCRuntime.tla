------------------------------ MODULE MCRuntime ------------------------------
(***************************************************************************)
(* Instances of OrchestratorRuntime for TLC.                               *)
(***************************************************************************)
EXTENDS SustainedProperties

TwoTasks == {1, 2}
ThreeTasks == {1, 2, 3}
AllLatencies == {1, 2, 3}    \* below, at and above a budget of 2

SlowLatency == {3}

\* All the configurations over the given tasks whose policy fields come from
\* the given sets.  Task 1 has the tightest deadline and a fallback policy;
\* the tasks are listed in the reverse of the order of their names.
Configurations(tasks, priorities, sizes, policies, periods, thresholds) ==
  [priority   : [tasks -> priorities],
   queueSize  : [tasks -> sizes],
   dropPolicy : policies,
   emitEvery  : [tasks -> periods],
   budget     : {[t \in tasks |-> IF t = 1 THEN 1 ELSE 2]},
   latency    : {[t \in tasks |-> 1]},
   fallback   : {[t \in tasks |-> t = 1]},
   order      : {[t \in tasks |-> 10 - t]},
   threshold  : thresholds,
   interval   : {1},
   fileBacked : {FALSE},
   frames     : {4},
   drain      : {TRUE}]

Fixed(tasks, policy) == {[t \in tasks |-> policy]}

WithDrain(configs, drain) == {[c EXCEPT !.drain = drain] : c \in configs}
WithFrames(configs, n) == {[c EXCEPT !.frames = n] : c \in configs}

AnyPolicyConfigs ==
  LET drained == Configurations(TwoTasks, {0, 1}, {1, 2},
                   [TwoTasks -> {"drop_oldest", "drop_low_priority"}],
                   {1, 2}, {1, 3})
  IN  drained \cup WithDrain(drained, FALSE)

\* Queues of three, a threshold they reach, and a cycle without arrivals.
DeepConfigs ==
  LET configs == Configurations(TwoTasks, {0, 1}, {3},
                   Fixed(TwoTasks, "drop_oldest")
                     \cup Fixed(TwoTasks, "drop_newest"), {1, 3}, {2, 4})
  IN  WithFrames(configs, 6) \cup WithFrames(configs, 0)

PairConfigs == AnyPolicyConfigs \cup DeepConfigs

\* DeepConfigs emit at most two frames in each of six cycles.
MaxFrames == 12

(* Every frame of a run that drains is executed or dropped in the end,     *)
(* whatever its priority, unless the worker raises first.                  *)
EveryFrameSettles == \A n \in 1 .. MaxFrames : FrameSettles(n)

TripleConfigs ==
  Configurations(ThreeTasks, {0, 1, 2}, {1, 2},
                 Fixed(ThreeTasks, "drop_oldest"), {1, 2}, {1, 2, 3})

FileBackedConfigs ==
  {[c EXCEPT !.fileBacked = TRUE] : c \in AnyPolicyConfigs}
=============================================================================
