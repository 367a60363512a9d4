------------------------- MODULE SustainedProperties -------------------------
(***************************************************************************)
(* The properties of the summaries of a sustained run: several functions   *)
(* read the same few logs, each on its own, and must not contradict one    *)
(* another or what happened.                                               *)
(***************************************************************************)
EXTENDS ReportProperties, SustainedSummaries

Drained == Reported /\ config.drain

(* The pressure windows are the cycles in which the policy limited a task: *)
(* the windows hold every sample above the threshold and none twice, each  *)
(* of them is one sample made before the policy ran (whatever the load, no *)
(* window lasts into a second cycle, since the walk always ends within the *)
(* threshold), and a run without decisions has none.  The peak they show   *)
(* is the backlog the policy has seen and the max_total_queue_depth of an  *)
(* overloaded run.                                                         *)
PressureSummariesAgree ==
  Reported =>
    LET windows == PressureWindows
        over == {i \in DOMAIN queueDepthTimeline :
                   DepthAt(i) > config.threshold}
    IN  /\ {w.start : w \in windows} =
             {queueDepthTimeline[i].cycle : i \in over}
        /\ Cardinality(windows) = Cardinality(over)
        /\ \A w \in windows :
             /\ w.samples = 1 /\ w.cycles = {w.start} /\ w.end = w.start
             /\ w.peakStage = "cycle_before_policy"
        /\ windows = {} <=> policyDecisions = <<>>
        /\ PeakWindowDepth = MaxTotalBacklogBefore
        /\ IF QueuePressureState = "overloaded"
             THEN PeakWindowDepth = MaxTotalQueueDepth
             ELSE windows = {}

(* A task that is not listed under tasks_with_starvation_risk was served:  *)
(* once its queue was drained, it has executions unless it emitted no      *)
(* frame, and each was made in the cycle of its frame and within its       *)
(* budget.  A task alone at the highest priority is never listed for what  *)
(* the scheduler did to it, and is listed as protected.  (The sources are  *)
(* those that write the cycle.)                                            *)
FairnessIsHonest ==
  Drained /\ ~ config.fileBacked =>
    \A t \in Task :
      LET emitted == \E c \in 0 .. config.frames - 1 : Emits(t, c)
      IN  /\ t \notin TasksWithStarvationRisk =>
               /\ emitted => executed[t] > 0
               /\ deadlineMissed[t] = 0
               /\ \A i \in DOMAIN resultEvents :
                    resultEvents[i].frame.task = t
                      => resultEvents[i].delay = 0
          /\ TopPriority(t) =>
               /\ deadlineMissed[t] = 0 => t \notin TasksWithStarvationRisk
               /\ emitted => t \in ProtectedHighPriorityTasks

(* The three readings a reviewer starts from do not contradict each other: *)
(* the risk level is nominal exactly if the latency budgets show no reason *)
(* of risk, the timeline then has no hint, and a timeline without a hint   *)
(* never belongs to a run that asks for a review.                          *)
HintsAgreeWithRisk ==
  Reported =>
    /\ RiskLevel = "nominal" <=> LatencyBudgetRiskReasons = {}
    /\ RiskLevel = "nominal" =>
         /\ ReviewHints = {"operation_timeline_nominal"}
         /\ WorkerHealthHints = {"worker_health_nominal"}
    /\ ReviewHints = {"operation_timeline_nominal"} => RiskLevel # "review"
    /\ TasksWithLatencyBudgetRisk \subseteq TasksWithStarvationRisk

(* The coverage a report claims is the run: the cycles observed have no    *)
(* gap and two samples each; each execution was made in a cycle of its     *)
(* own among them; and beyond the cycles that were asked for there are     *)
(* only those of a drain, in each of which a frame was executed.  (The     *)
(* cycle of an execution is that of its frame and the delay reported.)     *)
CoverageIsComplete ==
  Reported /\ ~ config.fileBacked =>
    LET coverage == ScenarioCoverage
        executedIn == {e.frame.cycle + e.delay : e \in ToSet(resultEvents)}
        extra == ObservedCycles \ (0 .. config.frames - 1)
    IN  /\ ObservedCycles = 0 .. coverage.cycleCount - 1
        /\ coverage.queueSamples = 2 * coverage.cycleCount
        /\ coverage.executed = Cardinality(executedIn)
        /\ coverage.latencySamples = coverage.executed
        /\ executedIn \subseteq ObservedCycles
        /\ extra \subseteq executedIn
        /\ ~ config.drain => extra = {}

=============================================================================
