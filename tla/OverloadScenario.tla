--------------------------- MODULE OverloadScenario ---------------------------
(***************************************************************************)
(* run_overload_comparison (scenarios.py): the frames of the dummy source  *)
(* are executed in the order of their arrival (the FIFO baseline), then    *)
(* again through the queues, the load-shedding policy and the scheduler.   *)
(*                                                                         *)
(* Unlike OrchestratorRuntime, the second pass executes nothing until the  *)
(* last frame has arrived: every walk of the policy finds the backlog that *)
(* the walk before it left.                                                *)
(***************************************************************************)
EXTENDS PriorityScheduler, LoadShedding

VARIABLES
  pc, cycle, sequence,
  availableAt,        \* worker_available_ms
  baseline,           \* the executions of the baseline
  records,            \* the executions of the second pass
  drops,              \* the frames the second pass drops
  walkFrom            \* ghost: the depth of the queues as the walk began

vars == <<config, queue, toVisit, protected, pc, cycle, sequence,
          availableAt, baseline, records, drops, walkFrom>>

Record == [frame : Frame, latency : Nat]

TypeOK ==
  /\ ValidConfig(config)
  /\ queue \in Queues
  /\ toVisit \in SUBSET Task /\ protected \in SUBSET Task
  /\ pc \in {"baseline", "arrivals", "shed", "execute", "done"}
  /\ cycle \in Nat /\ sequence \in Nat /\ availableAt \in Nat
  /\ baseline \in Seq(Record)
  /\ records \in Seq(Record)
  /\ drops \in Seq(Frame)
  /\ walkFrom \in [Task -> Nat]

Init ==
  /\ config \in Configs
  /\ QueuesInit
  /\ toVisit = Task /\ protected = {}
  /\ pc = "baseline"
  /\ cycle = 0 /\ sequence = 0 /\ availableAt = 0
  /\ baseline = <<>> /\ records = <<>> /\ drops = <<>>
  /\ walkFrom = SnapshotBacklog

\* Mutated form: the number is taken before it is counted up.
NewFrameUncounted(t) == [task |-> t, sequence |-> sequence, cycle |-> cycle]

NewFrame(t) == [task |-> t, sequence |-> sequence + 1, cycle |-> cycle]

\* started_ms = max(worker_available_ms, frame.created_at_ms)
FinishedAt(f) ==
  (IF availableAt > CreatedAt(f) THEN availableAt ELSE CreatedAt(f))
    + config.latency[f.task]

Execution(f) == [frame |-> f, latency |-> FinishedAt(f) - CreatedAt(f)]

-----------------------------------------------------------------------------
\* _run_fifo_baseline.  All frames are built before the first is executed;
\* they are executed in the order they are built in, one step for each.
ExecuteBaseline(t) ==
  /\ pc = "baseline" /\ cycle < config.frames
  /\ NextInOrder(t)
  /\ toVisit' = toVisit \ {t}
  /\ IF Emits(t, cycle)
       THEN /\ sequence' = sequence + 1
            /\ availableAt' = FinishedAt(NewFrame(t))
            /\ baseline' = Append(baseline, Execution(NewFrame(t)))
       ELSE UNCHANGED <<sequence, availableAt, baseline>>
  /\ UNCHANGED <<config, queue, protected, pc, cycle, records, drops,
                 walkFrom>>

NextBaselineCycle ==
  /\ pc = "baseline" /\ cycle < config.frames /\ toVisit = {}
  /\ cycle' = cycle + 1 /\ toVisit' = Task
  /\ UNCHANGED <<config, queue, protected, pc, sequence, availableAt,
                 baseline, records, drops, walkFrom>>

\* _run_scheduled_policy starts over with a new source.
BeginScheduled ==
  /\ pc = "baseline" /\ cycle >= config.frames
  /\ pc' = IF config.frames > 0 THEN "arrivals" ELSE "execute"
  /\ cycle' = 0 /\ sequence' = 0 /\ availableAt' = 0
  /\ UNCHANGED <<config, queue, toVisit, protected, baseline,
                 records, drops, walkFrom>>

-----------------------------------------------------------------------------
\* Mutated form: the drop of a full queue is not counted.
EnqueueUncounted(t) ==
  /\ pc = "arrivals"
  /\ NextInOrder(t)
  /\ toVisit' = toVisit \ {t}
  /\ IF Emits(t, cycle)
       THEN /\ sequence' = sequence + 1
            /\ \/ Accept(NewFrame(t))
               \/ AcceptEvictingOldest(NewFrame(t))
               \/ RejectNewest(NewFrame(t))
       ELSE UNCHANGED <<queue, sequence>>
  /\ UNCHANGED <<config, protected, pc, cycle, availableAt, baseline,
                 records, drops, walkFrom>>

\* _run_scheduled_policy, its loop over the cycles.
Enqueue(t) ==
  /\ pc = "arrivals"
  /\ NextInOrder(t)
  /\ toVisit' = toVisit \ {t}
  /\ IF Emits(t, cycle)
       THEN /\ sequence' = sequence + 1
            /\ \/ /\ Accept(NewFrame(t))
                  /\ UNCHANGED drops
               \/ /\ AcceptEvictingOldest(NewFrame(t))
                  /\ drops' = Append(drops, Head(queue[t]))
               \/ /\ RejectNewest(NewFrame(t))
                  /\ drops' = Append(drops, NewFrame(t))
       ELSE UNCHANGED <<queue, sequence, drops>>
  /\ UNCHANGED <<config, protected, pc, cycle, availableAt, baseline,
                 records, walkFrom>>

BeginShedding ==
  /\ pc = "arrivals" /\ toVisit = {}
  /\ BeginWalk
  /\ walkFrom' = SnapshotBacklog
  /\ pc' = "shed"
  /\ UNCHANGED <<config, cycle, sequence, availableAt, baseline,
                 records, drops>>

PassByTask(t) ==
  /\ pc = "shed"
  /\ PassBy(t)
  /\ UNCHANGED <<config, pc, cycle, sequence, availableAt, baseline,
                 records, drops, walkFrom>>

ShedTask(t) ==
  /\ pc = "shed"
  /\ Shed(t)
  /\ drops' = Append(drops, Head(queue[t]))
  /\ UNCHANGED <<config, pc, cycle, sequence, availableAt, baseline,
                 records, walkFrom>>

EndShedding ==
  /\ pc = "shed" /\ WalkEnded
  /\ cycle' = cycle + 1
  /\ IF cycle' < config.frames
       THEN pc' = "arrivals" /\ toVisit' = Task
       ELSE pc' = "execute" /\ UNCHANGED toVisit
  /\ UNCHANGED <<config, queue, protected, sequence, availableAt,
                 baseline, records, drops, walkFrom>>

\* The loop that executes what is queued when the arrivals have ended.
Execute(t) ==
  /\ pc = "execute"
  /\ ChosenNext(t)
  /\ RemoveOldest(t)
  /\ availableAt' = FinishedAt(Head(queue[t]))
  /\ records' = Append(records, Execution(Head(queue[t])))
  /\ UNCHANGED <<config, toVisit, protected, pc, cycle, sequence,
                 baseline, drops, walkFrom>>

Finish ==
  /\ pc = "execute" /\ TotalBacklog = 0
  /\ pc' = "done"
  /\ UNCHANGED <<config, queue, toVisit, protected, cycle, sequence,
                 availableAt, baseline, records, drops, walkFrom>>

Next ==
  \/ \E t \in Task : ExecuteBaseline(t)
  \/ NextBaselineCycle
  \/ BeginScheduled
  \/ \E t \in Task : Enqueue(t)
  \/ BeginShedding
  \/ \E t \in Task : PassByTask(t)
  \/ \E t \in Task : ShedTask(t)
  \/ EndShedding
  \/ \E t \in Task : Execute(t)
  \/ Finish

Spec == Init /\ [][Next]_vars

-----------------------------------------------------------------------------
(***************************************************************************)
(* The summaries that run_overload_comparison returns.                     *)
(***************************************************************************)
Of(rs, t) == {i \in DOMAIN rs : rs[i].frame.task = t}

\* ordered[max(0, ceil(0.95 * n) - 1)]: the latency of that rank.
P95Latency(rs, t) ==
  LET n    == Cardinality(Of(rs, t))
      Rank == (19 * n + 19) \div 20
  IN  CHOOSE v \in {rs[i].latency : i \in Of(rs, t)} :
        /\ Cardinality({i \in Of(rs, t) : rs[i].latency < v}) < Rank
        /\ Cardinality({i \in Of(rs, t) : rs[i].latency <= v}) >= Rank

ExecutedCount(rs, t) == Cardinality(Of(rs, t))
DroppedCount(t)      == Cardinality({i \in DOMAIN drops : drops[i].task = t})

\* sorted_tasks_by_priority(config.tasks)[0]
ProtectedTask == CHOOSE t \in Task : \A s \in Task \ {t} : HighFirst(t, s)

Improvement ==
  P95Latency(baseline, ProtectedTask) - P95Latency(records, ProtectedTask)

-----------------------------------------------------------------------------
(* The two passes account for the same frames of every task: what the      *)
(* second does not execute it drops, so that "executed" and "dropped" of   *)
(* the two summaries can be compared.                                      *)
SameFrames ==
  pc = "done" => \A t \in Task :
    ExecutedCount(records, t) + DroppedCount(t) = ExecutedCount(baseline, t)

Alone(t) == \A s \in Task \ {t} : config.priority[s] < config.priority[t]

(* The protected task of the comparison gains frame by frame: when a task  *)
(* is alone at the highest priority, none of its frames takes longer from  *)
(* its arrival to its end in the second pass than in the baseline.  So     *)
(* p95_end_to_end_improvement_ms is never negative for it, although the    *)
(* two percentiles are taken over different frames: those the second pass  *)
(* lost to a full queue are in the baseline only.                          *)
ProtectedNotSlower ==
  /\ \A i \in DOMAIN records :
       LET f == records[i].frame
       IN  Alone(f.task) => records[i].latency <= baseline[f.sequence].latency
  /\ pc = "done" /\ Alone(ProtectedTask) /\ Of(records, ProtectedTask) # {}
       => Improvement >= 0

(* A walk takes at most one frame of each task, however far the backlog is *)
(* over the threshold, and it is still over at the end only if every task  *)
(* but the protected one has given the frame it had.                       *)
WalkTakesOneOfEach ==
  [][pc = "shed" =>
       /\ \A t \in Task : Len(queue'[t]) >= walkFrom[t] - 1
       /\ pc' # "shed" =>
            \/ TotalBacklog <= config.threshold
            \/ \A t \in Task \ protected :
                 walkFrom[t] = 0 \/ Backlog(t) = walkFrom[t] - 1]_vars

(* What docs/architecture.md says of LoadSheddingPolicy.apply: it drops    *)
(* "one oldest frame at a time from lower-priority queues until backlog is *)
(* back under the threshold or no eligible frames remain".                 *)
ShedsUntilThreshold ==
  [][pc = "shed" /\ pc' # "shed"
       => \/ TotalBacklog <= config.threshold
          \/ \A t \in Task, p \in protected :
               config.priority[t] < config.priority[p]
                 => queue[t] = <<>>]_vars

=============================================================================
