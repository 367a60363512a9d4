--------------------------- MODULE TelemetryReport ---------------------------
(***************************************************************************)
(* TelemetryCollector.to_report (telemetry.py): the summaries of a run,    *)
(* computed from its counters and logs when run returns.                   *)
(*                                                                         *)
(* runtime_event_summary counts the entries of runtime_event_timeline.     *)
(* Each is recorded in the call that writes the entry of drop_events,      *)
(* result_events or policy_decisions with the same fields, and is counted  *)
(* there.                                                                  *)
(***************************************************************************)
EXTENDS Telemetry, Functions

\* max(1, math.ceil(limit * 0.75))
NearLimit(limit) == AtLeast(1, (3 * limit + 3) \div 4)

-----------------------------------------------------------------------------
(***************************************************************************)
(* _agent_totals and _queue_state_summary.                                 *)
(***************************************************************************)
DroppedCount        == SumFunction(dropped)
DeadlineMissedCount == SumFunction(deadlineMissed)
FallbackCount       == SumFunction(fallbackUsed)

NoDepth == [t \in Task |-> 0]

\* final_queue_depth: the depths of the last sample.
FinalQueueDepth ==
  IF queueDepthTimeline = <<>>
    THEN NoDepth
    ELSE queueDepthTimeline[Len(queueDepthTimeline)].depth

Samples == {queueDepthTimeline[i].depth : i \in DOMAIN queueDepthTimeline}

MaxTotalQueueDepth ==
  CHOOSE n \in {SumFunction(d) : d \in Samples \cup {NoDepth}} :
    \A d \in Samples : SumFunction(d) <= n

QueuePressureState ==
  IF MaxTotalQueueDepth > config.threshold THEN "overloaded"
  ELSE IF MaxTotalQueueDepth >= NearLimit(config.threshold) THEN "elevated"
  ELSE "nominal"

-----------------------------------------------------------------------------
(***************************************************************************)
(* _worker_health_snapshot.                                                *)
(***************************************************************************)
HealthState(t) ==
  IF fallbackUsed[t] > 0 \/ deadlineMissed[t] > 0 THEN "degraded"
  ELSE IF dropped[t] > 0 THEN "constrained"
  ELSE IF executed[t] > 0 THEN "healthy"
  ELSE "idle"

\* Mutated form: a queue is at its capacity when it outgrows it.
TaskPressureBeyondCapacity(t) ==
  IF maxQueueBacklog[t] > config.queueSize[t] THEN "at_capacity"
  ELSE IF maxQueueBacklog[t] >= NearLimit(config.queueSize[t])
         THEN "elevated"
  ELSE "nominal"

TaskPressureState(t) ==
  IF maxQueueBacklog[t] >= config.queueSize[t] THEN "at_capacity"
  ELSE IF maxQueueBacklog[t] >= NearLimit(config.queueSize[t])
         THEN "elevated"
  ELSE "nominal"

HealthReasons(t) ==
  LET reasons == {r \in {"deadline_missed", "fallback_policy_used",
                         "frames_dropped", "queue_reached_capacity",
                         "no_worker_executions"} :
                    CASE r = "deadline_missed"      -> deadlineMissed[t] > 0
                      [] r = "fallback_policy_used" -> fallbackUsed[t] > 0
                      [] r = "frames_dropped"       -> dropped[t] > 0
                      [] r = "queue_reached_capacity" ->
                           TaskPressureState(t) = "at_capacity"
                      [] r = "no_worker_executions" -> executed[t] = 0}
  IN  IF reasons = {} THEN {"without_runtime_risk"} ELSE reasons

OperationRiskSummary(t) ==
  IF deadlineMissed[t] > 0 \/ fallbackUsed[t] > 0
    THEN "latency_or_fallback_risk"
  ELSE IF dropped[t] > 0 THEN "drop_or_queue_pressure_risk"
  ELSE IF executed[t] = 0 THEN "no_execution_evidence"
  ELSE IF TaskPressureState(t) \in {"at_capacity", "elevated"}
         THEN "queue_pressure_watch"
  ELSE "without_runtime_risk"

\* _worker_health_for_task: total_seen is the denominator of its rates.
WorkerHealth(t) ==
  [healthState   |-> HealthState(t),
   healthReasons |-> HealthReasons(t),
   riskSummary   |-> OperationRiskSummary(t),
   pressureState |-> TaskPressureState(t),
   totalSeen     |-> executed[t] + dropped[t]]

\* degraded_workers and constrained_workers.
WorkersIn(state) == {t \in Task : WorkerHealth(t).healthState = state}

-----------------------------------------------------------------------------
(***************************************************************************)
(* _runtime_event_summary and _operation_risk_rollup.                      *)
(***************************************************************************)
\* Mutated form: leaves the shortest delay out.
DelaysBeyondOne ==
  {i \in DOMAIN resultEvents :
     resultEvents[i].delay # NoDelay /\ resultEvents[i].delay > 1}

SchedulerDelayEvents ==
  {i \in DOMAIN resultEvents :
     resultEvents[i].delay # NoDelay /\ resultEvents[i].delay > 0}

TasksWithSchedulerDelay ==
  {resultEvents[i].frame.task : i \in SchedulerDelayEvents}

\* The reasons of _operation_risk_reasons that ask for a review.
ReviewReasons ==
  \/ QueuePressureState = "overloaded"
  \/ DeadlineMissedCount > 0
  \/ FallbackCount > 0
  \/ SchedulerDelayEvents # {}
  \/ WorkersIn("degraded") # {}

WatchReasons ==
  \/ policyDecisions # <<>>
  \/ WorkersIn("constrained") # {}
  \/ DroppedCount > 0

RiskLevel ==
  IF ReviewReasons THEN "review" ELSE IF WatchReasons THEN "watch"
                                      ELSE "nominal"

=============================================================================
