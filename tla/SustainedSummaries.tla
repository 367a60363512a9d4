------------------------- MODULE SustainedSummaries -------------------------
(***************************************************************************)
(* The summaries that a sustained run adds to the report (sustained.py,    *)
(* _operation_timeline_summary and the functions it calls, and             *)
(* _latency_budget_protection_context): the pressure windows, the policy   *)
(* pressure, the stale drops, the fairness of the scheduler, the latency   *)
(* budgets, the health of the workers, the coverage and the review hints.  *)
(*                                                                         *)
(* They are operators on the logs of Telemetry.  A list of names whose     *)
(* order nothing depends on is a set, and a count by name a function.      *)
(***************************************************************************)
EXTENDS TelemetryReport, SequencesExt

\* The fields that label a summary: its schema_version, and that it
\* supplements the decisions of the lab.
Supplemental(schema) ==
  [schema |-> schema, role |-> "supplemental", scheduler |-> "orchestrator",
   decisionOwner |-> "lab", notADeploymentDecision |-> TRUE]

Hint(condition, name) == IF condition THEN {name} ELSE {}

\* Mutated form: a run without a hint has an empty list.
OrNothing(hints, nominal) == hints

OrNominal(hints, nominal) == IF hints = {} THEN {nominal} ELSE hints

-----------------------------------------------------------------------------
(***************************************************************************)
(* _pressure_windows.  A window is a longest run of samples whose total    *)
(* depth is above the threshold: the first sample that is not closes it,   *)
(* or the end of the timeline.                                             *)
(***************************************************************************)
DepthAt(i) == SumFunction(queueDepthTimeline[i].depth)

\* Mutated form: a sample at the threshold keeps a window open.
InWindowAtThreshold(i) == DepthAt(i) >= config.threshold

InWindow(i) == DepthAt(i) > config.threshold

Opens(i) == InWindow(i) /\ (i = 1 \/ ~ InWindow(i - 1))

\* The samples of the window that sample i opens.
Span(i) ==
  {k \in i .. Len(queueDepthTimeline) : \A j \in i .. k : InWindow(j)}

\* The peak is the first sample with the greatest depth.
Window(i) ==
  LET span == Span(i)
      at   == CHOOSE k \in span :
                \A j \in span :
                  /\ DepthAt(j) <= DepthAt(k)
                  /\ j < k => DepthAt(j) < DepthAt(k)
  IN  [start     |-> queueDepthTimeline[i].cycle,
       end       |-> queueDepthTimeline[Max(span)].cycle,
       samples   |-> Cardinality(span),
       peak      |-> DepthAt(at),
       peakStage |-> queueDepthTimeline[at].stage,
       cycles    |-> {queueDepthTimeline[k].cycle : k \in span}]

\* No two windows have the same start.
PressureWindows ==
  {Window(i) : i \in {k \in DOMAIN queueDepthTimeline : Opens(k)}}

CycleCount(window) == Cardinality(window.cycles)

PeakWindowDepth == Max({0} \cup {w.peak : w \in PressureWindows})

LongestWindowCycles ==
  Max({0} \cup {CycleCount(w) : w \in PressureWindows})

-----------------------------------------------------------------------------
(***************************************************************************)
(* _pressure_window_decision_context and _policy_pressure_summary.         *)
(***************************************************************************)
Decisions      == ToSet(policyDecisions)
LimitedTasks   == {d.limited : d \in Decisions}
ProtectedTasks == UNION {d.protected : d \in Decisions}
FallbackTasks  == {d.limited : d \in {e \in Decisions : e.fallbackUsed}}

MaxTotalBacklogBefore == Max({0} \cup {d.totalBefore : d \in Decisions})

MaxBacklogOverThreshold ==
  Max({0} \cup {AtLeast(d.totalBefore - config.threshold, 0) :
                  d \in Decisions})

PolicyPressureMarkers ==
  Hint(policyDecisions # <<>>, "policy_decision_present")
    \cup Hint(MaxBacklogOverThreshold > 0, "backlog_exceeded_threshold")
    \cup Hint(FallbackTasks # {}, "fallback_policy_used")
    \cup Hint(LimitedTasks # {}, "workload_limited_by_policy")
    \cup Hint(SchedulerDelayEvents # {}, "scheduler_delay_present")

PressureWindowSummary ==
  [labels         |-> Supplemental("pressure-window"),
   windows        |-> PressureWindows,
   windowCount    |-> Cardinality(PressureWindows),
   longestCycles  |-> LongestWindowCycles,
   peakTotalDepth |-> PeakWindowDepth,
   threshold      |-> config.threshold,
   limited        |-> LimitedTasks,
   protected      |-> ProtectedTasks,
   fallback       |-> FallbackTasks,
   decisionCount  |-> Len(policyDecisions)]

PolicyPressureSummary ==
  [labels                |-> Supplemental("policy-pressure"),
   decisionCount         |-> Len(policyDecisions),
   limited               |-> LimitedTasks,
   protected             |-> ProtectedTasks,
   fallback              |-> FallbackTasks,
   fallbackDecisionCount |-> FallbackCount,
   maxBefore             |-> MaxTotalBacklogBefore,
   maxOver               |-> MaxBacklogOverThreshold,
   markers               |-> PolicyPressureMarkers]

-----------------------------------------------------------------------------
(***************************************************************************)
(* _stale_drop_summary.  A frame rejected by a full queue is not stale.    *)
(***************************************************************************)
StaleDropReasons == {"queue_overflow_drop_oldest",
                     "load_shedding_backlog_threshold_exceeded"}

StaleDrops ==
  {i \in DOMAIN dropEvents : dropEvents[i].reason \in StaleDropReasons}

StaleDropSummary ==
  [labels      |-> Supplemental("stale-drop"),
   staleCount  |-> Cardinality(StaleDrops),
   totalCount  |-> Len(dropEvents),
   reasons     |-> {dropEvents[i].reason : i \in StaleDrops},
   tasks       |-> {dropEvents[i].frame.task : i \in StaleDrops},
   latest      |-> {dropEvents[i].frame :
                      i \in {j \in StaleDrops : \A k \in StaleDrops : k <= j}}]

-----------------------------------------------------------------------------
(***************************************************************************)
(* _scheduler_fairness_summary.                                            *)
(***************************************************************************)
DelayEvents(t) ==
  {i \in SchedulerDelayEvents : resultEvents[i].frame.task = t}

MaxDelay(t) == Max({0} \cup {resultEvents[i].delay : i \in DelayEvents(t)})

\* Mutated form: a delay counts once it lasts for several cycles.
StarvationReasonsMultiCycle(t) ==
  Hint(executed[t] = 0 /\ dropped[t] > 0, "dropped_without_execution")
    \cup Hint(MaxDelay(t) >= 3, "multi_cycle_scheduler_delay")
    \cup Hint(fallbackUsed[t] > 0, "fallback_policy_used")
    \cup Hint(HealthState(t) = "degraded", "worker_degraded")

StarvationReasons(t) ==
  Hint(executed[t] = 0 /\ dropped[t] > 0, "dropped_without_execution")
    \cup Hint(DelayEvents(t) # {}, "scheduler_delay_present")
    \cup Hint(MaxDelay(t) >= 3, "multi_cycle_scheduler_delay")
    \cup Hint(fallbackUsed[t] > 0, "fallback_policy_used")
    \cup Hint(HealthState(t) = "degraded", "worker_degraded")

TasksWithStarvationRisk == {t \in Task : StarvationReasons(t) # {}}

\* _protected_high_priority_tasks, and _protected_task_candidates.
ProtectedHighPriorityTasks ==
  {t \in Task : /\ \A s \in Task : config.priority[s] <= config.priority[t]
                /\ executed[t] > 0}

TaskFairness(t) ==
  [executed |-> executed[t], dropped |-> dropped[t],
   fallback |-> fallbackUsed[t], delays |-> Cardinality(DelayEvents(t)),
   maxDelay |-> MaxDelay(t), healthState |-> HealthState(t),
   reasons  |-> StarvationReasons(t)]

SchedulerFairnessSummary ==
  [labels                |-> Supplemental("scheduler-fairness"),
   protectedHighPriority |-> ProtectedHighPriorityTasks,
   starvationRisk        |-> TasksWithStarvationRisk,
   schedulerDelay        |-> TasksWithSchedulerDelay,
   degradation           |-> WorkersIn("constrained") \cup
                             WorkersIn("degraded"),
   taskFairness          |-> [t \in Task |-> TaskFairness(t)]]

-----------------------------------------------------------------------------
(***************************************************************************)
(* _latency_budget_protection_context.                                     *)
(***************************************************************************)
TasksWithLatencyBudgetRisk ==
  {t \in Task : \/ deadlineMissed[t] > 0
                \/ fallbackUsed[t] > 0
                \/ DelayEvents(t) # {}}

\* Mutated form: drops without any other reason are not looked at.
LatencyBudgetRiskReasonsBeyondDrops ==
  Hint(DeadlineMissedCount > 0, "deadline_miss_present")
    \cup Hint(SchedulerDelayEvents # {}, "scheduler_delay_present")
    \cup Hint(FallbackCount > 0, "fallback_used")
    \cup Hint(QueuePressureState = "overloaded", "queue_pressure_overloaded")
    \cup Hint(policyDecisions # <<>>, "load_shedding_applied")

LatencyBudgetRiskReasons ==
  LET reasons ==
        Hint(DeadlineMissedCount > 0, "deadline_miss_present")
          \cup Hint(SchedulerDelayEvents # {}, "scheduler_delay_present")
          \cup Hint(FallbackCount > 0, "fallback_used")
          \cup Hint(QueuePressureState = "overloaded",
                    "queue_pressure_overloaded")
          \cup Hint(policyDecisions # <<>>, "load_shedding_applied")
  IN  IF reasons # {} THEN reasons
      ELSE Hint(\E t \in Task : dropped[t] > 0, "drop_pressure_present")

LatencyBudgetProtection ==
  [labels          |-> Supplemental("latency-budget-protection"),
   regressionOwner |-> "edgeenv",
   candidates      |-> ProtectedHighPriorityTasks,
   risky           |-> TasksWithLatencyBudgetRisk,
   reasons         |-> LatencyBudgetRiskReasons,
   budgets         |-> config.budget]

-----------------------------------------------------------------------------
(***************************************************************************)
(* _scenario_coverage_summary, _latency_timeline_summary and               *)
(* _worker_health_trend_summary.                                           *)
(***************************************************************************)
ObservedCycles ==
  {queueDepthTimeline[i].cycle : i \in DOMAIN queueDepthTimeline}

ScenarioCoverage ==
  [labels         |-> Supplemental("scenario-coverage"),
   cycleCount     |-> Cardinality(ObservedCycles),
   maxCycle       |-> Max({0} \cup ObservedCycles),
   taskCount      |-> Cardinality(Task),
   queueSamples   |-> Len(queueDepthTimeline),
   latencySamples |-> Len(resultEvents),
   decisions      |-> Len(policyDecisions),
   executed       |-> SumFunction(executed),
   dropped        |-> DroppedCount,
   deadlineMissed |-> DeadlineMissedCount,
   fallback       |-> FallbackCount]

\* A wait is counted in cycles of frame_interval_ms.
LatencyTimeline ==
  [samples        |-> Len(resultEvents),
   maxQueueWait   |-> [t \in Task |-> MaxDelay(t) * config.interval],
   deadlineMissed |-> {t \in Task : deadlineMissed[t] > 0}]

WorkerHealthHints ==
  OrNominal(
    Hint(WorkersIn("degraded") # {}, "review_degraded_workers")
      \cup Hint(WorkersIn("constrained") # {}, "review_constrained_workers")
      \cup Hint(SchedulerDelayEvents # {}, "review_worker_scheduler_delay")
      \cup Hint(\E t \in Task : fallbackUsed[t] > 0,
                "review_worker_fallback"),
    "worker_health_nominal")

HealthStates == {"degraded", "constrained", "healthy", "idle"}

WorkerHealthTrend ==
  [labels       |-> Supplemental("worker-health-trend"),
   tasksByState |-> [s \in HealthStates |-> WorkersIn(s)],
   hints        |-> WorkerHealthHints]

-----------------------------------------------------------------------------
(***************************************************************************)
(* _operation_timeline_review_hints and _operation_timeline_summary.       *)
(***************************************************************************)
ReviewHints ==
  OrNominal(
    Hint(PressureWindows # {}, "review_sustained_pressure_window")
      \cup Hint(QueuePressureState = "overloaded", "review_queue_pressure")
      \cup Hint(SchedulerDelayEvents # {}, "review_scheduler_delay")
      \cup Hint(DeadlineMissedCount > 0, "review_deadline_miss")
      \cup Hint(FallbackCount > 0, "review_fallback_use")
      \cup Hint(policyDecisions # <<>>, "review_load_shedding")
      \cup Hint(StaleDrops # {}, "review_stale_drop"),
    "operation_timeline_nominal")

AffectedTasks ==
  [deadlineMissed |-> {t \in Task : deadlineMissed[t] > 0},
   fallback       |-> {t \in Task : fallbackUsed[t] > 0},
   schedulerDelay |-> TasksWithSchedulerDelay,
   staleDrop      |-> StaleDropSummary.tasks,
   degraded       |-> WorkersIn("degraded"),
   constrained    |-> WorkersIn("constrained")]

OperationTimelineSummary ==
  [schema         |-> "operation-timeline",
   coverage       |-> ScenarioCoverage,
   latency        |-> LatencyTimeline,
   policyPressure |-> PolicyPressureSummary,
   pressureWindow |-> PressureWindowSummary,
   staleDrop      |-> StaleDropSummary,
   fairness       |-> SchedulerFairnessSummary,
   healthTrend    |-> WorkerHealthTrend,
   affected       |-> AffectedTasks,
   hints          |-> ReviewHints]

=============================================================================
