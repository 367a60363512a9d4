------------------------------ MODULE Telemetry ------------------------------
(***************************************************************************)
(* What TelemetryCollector keeps while a run lasts (telemetry.py): the     *)
(* counters of each task and the ordered logs of the report.               *)
(*                                                                         *)
(* Only the fields of an event that a property reads are kept.             *)
(* overload_events is left out: its entries are those of policy_decisions. *)
(***************************************************************************)
EXTENDS TaskQueues

CONSTANT NoDelay    \* None, where scheduler_delay_cycles has no value

ASSUME NoDelayAssumption == NoDelay \notin Int

VARIABLES
  executed, dropped, deadlineMissed, fallbackUsed, maxQueueBacklog,
  queueDepthTimeline, dropEvents, resultEvents, scheduleDecisions,
  policyDecisions

telemetryVars ==
  <<executed, dropped, deadlineMissed, fallbackUsed, maxQueueBacklog,
    queueDepthTimeline, dropEvents, resultEvents, scheduleDecisions,
    policyDecisions>>

Stages == {"cycle_before_policy", "cycle_after_policy",
           "drain_before_policy", "drain_after_policy"}

DropReasons == {"queue_overflow_drop_oldest", "queue_overflow_drop_newest",
                "load_shedding_backlog_threshold_exceeded"}

DepthSample == [cycle : Nat, stage : Stages, depth : [Task -> Nat]]
DropEvent   == [frame : Frame, reason : DropReasons]
ResultEvent == [frame : Frame, delay : Nat \cup {NoDelay}]
Decision    == [protected : SUBSET Task, limited : Task, totalBefore : Nat,
                depth : [Task -> Nat], fallbackUsed : BOOLEAN]

TelemetryTypeOK ==
  /\ executed \in [Task -> Nat]
  /\ dropped \in [Task -> Nat]
  /\ deadlineMissed \in [Task -> Nat]
  /\ fallbackUsed \in [Task -> Nat]
  /\ maxQueueBacklog \in [Task -> Nat]
  /\ queueDepthTimeline \in Seq(DepthSample)
  /\ dropEvents \in Seq(DropEvent)
  /\ resultEvents \in Seq(ResultEvent)
  /\ scheduleDecisions \in Seq(Task)
  /\ policyDecisions \in Seq(Decision)

TelemetryInit ==
  /\ executed = [t \in Task |-> 0]
  /\ dropped = [t \in Task |-> 0]
  /\ deadlineMissed = [t \in Task |-> 0]
  /\ fallbackUsed = [t \in Task |-> 0]
  /\ maxQueueBacklog = [t \in Task |-> 0]
  /\ queueDepthTimeline = <<>>
  /\ dropEvents = <<>>
  /\ resultEvents = <<>>
  /\ scheduleDecisions = <<>>
  /\ policyDecisions = <<>>

AtLeast(a, b) == IF a >= b THEN a ELSE b

-----------------------------------------------------------------------------
\* Mutated form: keeps the latest depth.
RecordLatestBacklog(cycle, stage) ==
  /\ maxQueueBacklog' = SnapshotBacklog
  /\ queueDepthTimeline' =
       Append(queueDepthTimeline,
              [cycle |-> cycle, stage |-> stage, depth |-> SnapshotBacklog])

\* record_backlog, of a snapshot of the queues as they are.
RecordBacklog(cycle, stage) ==
  /\ maxQueueBacklog' =
       [t \in Task |-> AtLeast(maxQueueBacklog[t], Backlog(t))]
  /\ queueDepthTimeline' =
       Append(queueDepthTimeline,
              [cycle |-> cycle, stage |-> stage, depth |-> SnapshotBacklog])

RecordDrop(f, reason) ==
  /\ dropped' = [dropped EXCEPT ![f.task] = @ + 1]
  /\ dropEvents' = Append(dropEvents, [frame |-> f, reason |-> reason])

\* Mutated form: counts a fallback for a task that has none.
RecordPolicyFallback(t, protectedTask) ==
  /\ policyDecisions' =
       Append(policyDecisions,
              [protected |-> protectedTask, limited |-> t,
               totalBefore |-> TotalBacklog, depth |-> SnapshotBacklog,
               fallbackUsed |-> config.fallback[t]])
  /\ fallbackUsed' = [fallbackUsed EXCEPT ![t] = @ + 1]

\* record_policy_decision, of a frame taken from the queue of t.
RecordPolicyDecision(t, protectedTask) ==
  /\ policyDecisions' =
       Append(policyDecisions,
              [protected |-> protectedTask, limited |-> t,
               totalBefore |-> TotalBacklog, depth |-> SnapshotBacklog,
               fallbackUsed |-> config.fallback[t]])
  /\ fallbackUsed' =
       [fallbackUsed EXCEPT ![t] = IF config.fallback[t] THEN @ + 1 ELSE @]

RecordSchedule(t) == scheduleDecisions' = Append(scheduleDecisions, t)

\* _scheduler_delay_cycles.  The payload of a file-backed frame carries
\* frame_index and no cycle, so that _frame_cycle returns None for it.
SchedulerDelayCycles(f, cycle) ==
  IF config.fileBacked THEN NoDelay ELSE AtLeast(0, cycle - f.cycle)

RecordExecution(f, latency, cycle) ==
  LET t == f.task
  IN  /\ executed' = [executed EXCEPT ![t] = @ + 1]
      /\ deadlineMissed' =
           [deadlineMissed EXCEPT
              ![t] = IF latency > config.budget[t] THEN @ + 1 ELSE @]
      /\ maxQueueBacklog' =
           [maxQueueBacklog EXCEPT ![t] = AtLeast(@, Backlog(t))]
      /\ resultEvents' =
           Append(resultEvents,
                  [frame |-> f, delay |-> SchedulerDelayCycles(f, cycle)])

=============================================================================
