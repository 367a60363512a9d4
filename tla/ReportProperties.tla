--------------------------- MODULE ReportProperties ---------------------------
(***************************************************************************)
(* The properties of the report OrchestratorRuntime.run returns.           *)
(***************************************************************************)
EXTENDS RuntimeProperties, TelemetryReport

Reported == pc = "done"

(* A risk_level that is not "review" means that every frame executed was   *)
(* executed in the cycle of its arrival and that none was shed; "nominal", *)
(* for a run that drained, that every frame was executed and within its    *)
(* budget, and that a worker's health, whose rates are taken over the      *)
(* frames it has seen, covers every frame of its task and names no risk    *)
(* but the pressure on its queue.  (The sources are those that write the   *)
(* cycle.)                                                                 *)
RiskLevelIsHonest ==
  Reported /\ ~ config.fileBacked =>
    /\ RiskLevel # "review" =>
         /\ \A i \in DOMAIN resultEvents : resultEvents[i].delay = 0
         /\ \A t \in Task : LoadSheds(t) = {} /\ deadlineMissed[t] = 0
    /\ RiskLevel = "nominal" /\ config.drain =>
         /\ Executed = 1 .. sequence
         /\ \A t \in Task :
              /\ WorkerHealth(t).totalSeen =
                     Cardinality({c \in 0 .. config.frames - 1 : Emits(t, c)})
              /\ WorkerHealth(t).totalSeen > 0 =>
                   WorkerHealth(t).riskSummary \in
                     {"without_runtime_risk", "queue_pressure_watch"}

(* A task that lost a frame to a full queue is reported with the reason    *)
(* queue_reached_capacity: the sample after the arrivals still shows the   *)
(* queue full.                                                             *)
OverflowShowsCapacity ==
  Reported => \A t \in Task :
    {i \in DOMAIN dropEvents : dropEvents[i].frame.task = t} # LoadSheds(t)
      => "queue_reached_capacity" \in WorkerHealth(t).healthReasons

(* "final queue depth" (docs/agent_orchestration_summary_contract.md): the *)
(* final_queue_depth of a report is what the queues hold when run returns. *)
FinalDepthIsFinal == Reported => FinalQueueDepth = SnapshotBacklog

=============================================================================
