--------------------------- MODULE RuntimeProofs ----------------------------
(***************************************************************************)
(* Proofs about OrchestratorRuntime, for every set of tasks and every set  *)
(* of valid configurations: the types; the queues keep within their        *)
(* queue_size; the policy keeps the backlog within its threshold, although *)
(* one walk takes at most one frame of each queue; and a task alone at the *)
(* highest priority never waits and never loses a frame.                   *)
(***************************************************************************)
EXTENDS RuntimeProperties, QueueLemmas

-----------------------------------------------------------------------------
(***************************************************************************)
(* Types.                                                                  *)
(***************************************************************************)
(* The frame a source builds for a task is a frame of that task.           *)
LEMMA NewFrameTyped ==
  ASSUME TypeOK, NEW t \in Task
  PROVE  NewFrame(t) \in Frame /\ NewFrame(t).task = t
BY DEF TypeOK, NewFrame, Frame, PositiveNat

(* Recording a drop keeps the types of the counters and of the log.        *)
LEMMA RecordDropTyped ==
  ASSUME TypeOK, NEW f \in Frame, NEW r \in DropReasons, RecordDrop(f, r)
  PROVE  dropped' \in [Task -> Nat] /\ dropEvents' \in Seq(DropEvent)
<1>1. f.task \in Task
  BY DEF Frame
<1>2. [frame |-> f, reason |-> r] \in DropEvent
  BY DEF DropEvent
<1>3. dropped' \in [Task -> Nat]
  <2>1. dropped \in [Task -> Nat]
    BY DEF TypeOK, TelemetryTypeOK
  <2>2. dropped' = [dropped EXCEPT ![f.task] = dropped[f.task] + 1]
    BY DEF RecordDrop
  <2>3. QED
    BY <1>1, <2>1, <2>2
<1>4. dropEvents' \in Seq(DropEvent)
  <2>1. dropEvents \in Seq(DropEvent)
    BY DEF TypeOK, TelemetryTypeOK
  <2>2. dropEvents' = Append(dropEvents, [frame |-> f, reason |-> r])
    BY DEF RecordDrop
  <2>3. QED
    BY <1>2, <2>1, <2>2, AppendProperties
<1>5. QED
  BY <1>3, <1>4

(* A sample of the queues keeps the types of the peaks and of the timeline. *)
LEMMA RecordBacklogTyped ==
  ASSUME TypeOK, NEW stage \in Stages, RecordBacklog(cycle, stage)
  PROVE  /\ maxQueueBacklog' \in [Task -> Nat]
         /\ queueDepthTimeline' \in Seq(DepthSample)
<1>1. \A t \in Task : Backlog(t) \in Nat
  BY LenProperties DEF TypeOK, Queues, Backlog
<1>2. maxQueueBacklog' \in [Task -> Nat]
  BY <1>1 DEF RecordBacklog, AtLeast, TypeOK, TelemetryTypeOK
<1>3. SnapshotBacklog \in [Task -> Nat]
  BY <1>1 DEF SnapshotBacklog
<1>4. [cycle |-> cycle, stage |-> stage, depth |-> SnapshotBacklog]
        \in DepthSample
  BY <1>3 DEF DepthSample, TypeOK
<1>5. queueDepthTimeline' \in Seq(DepthSample)
  BY <1>4, AppendProperties DEF RecordBacklog, TypeOK, TelemetryTypeOK
<1>6. QED
  BY <1>2, <1>5

-----------------------------------------------------------------------------
(***************************************************************************)
(* The type invariant.                                                     *)
(***************************************************************************)
(* The sequence numbers, the cycle and the configuration of an enqueued    *)
(* frame, and its drop, have their types.                                  *)
LEMMA EnqueueTyped ==
  ASSUME TypeOK, NEW t \in Task, Enqueue(t)
  PROVE  TypeOK'
<1>1. NewFrame(t) \in Frame /\ NewFrame(t).task = t
  BY NewFrameTyped
<1>2. sequence' \in Nat /\ toVisit' \in SUBSET Task
  BY DEF TypeOK, Enqueue, NextToEmit
<1>3. /\ queue' \in Queues
      /\ dropped' \in [Task -> Nat] /\ dropEvents' \in Seq(DropEvent)
  <2>1. CASE Accept(NewFrame(t)) /\ UNCHANGED <<dropped, dropEvents>>
    BY <2>1, <1>1, AcceptEffect DEF TypeOK, TelemetryTypeOK
  <2>2. CASE /\ AcceptEvictingOldest(NewFrame(t))
             /\ RecordDrop(Head(queue[t]), "queue_overflow_drop_oldest")
    <3>1. queue' \in Queues /\ queue[t] # <<>>
      BY <2>2, <1>1, EvictEffect DEF TypeOK
    <3>2. Head(queue[t]) \in Frame
      BY <3>1, HeadIsFrame DEF TypeOK
    <3>3. QED
      BY <2>2, <3>1, <3>2, RecordDropTyped DEF DropReasons
  <2>3. CASE /\ RejectNewest(NewFrame(t))
             /\ RecordDrop(NewFrame(t), "queue_overflow_drop_newest")
    <3>1. queue' \in Queues
      BY <2>3 DEF RejectNewest, TypeOK
    <3>2. QED
      BY <2>3, <1>1, <3>1, RecordDropTyped DEF DropReasons
  <2>4. QED
    BY <2>1, <2>2, <2>3 DEF Enqueue
<1>4. UNCHANGED <<config, protected, pc, cycle, inFlight, executed,
                  deadlineMissed, fallbackUsed, maxQueueBacklog,
                  queueDepthTimeline, resultEvents, scheduleDecisions,
                  policyDecisions>>
  BY DEF Enqueue, controlVars
<1>5. QED
  BY <1>2, <1>3, <1>4 DEF TypeOK, TelemetryTypeOK

(* The sample before the walk has its type.                                *)
LEMMA BeginSheddingTyped ==
  ASSUME TypeOK, BeginShedding
  PROVE  TypeOK'
<1>1. PICK stage \in Stages : RecordBacklog(cycle, stage)
  BY DEF BeginShedding, Stages
<1>2. /\ maxQueueBacklog' \in [Task -> Nat]
      /\ queueDepthTimeline' \in Seq(DepthSample)
  BY <1>1, RecordBacklogTyped
<1>3. /\ toVisit' \in SUBSET Task /\ protected' \in SUBSET Task
      /\ queue' = queue
  BY DEF BeginShedding, BeginWalk, HighestBacklogged, NonEmptyTasks
<1>4. pc' \in PCs
  BY DEF BeginShedding, PCs
<1>5. UNCHANGED <<config, cycle, sequence, inFlight, executed, dropped,
                  deadlineMissed, fallbackUsed, dropEvents, resultEvents,
                  scheduleDecisions, policyDecisions>>
  BY DEF BeginShedding
<1>6. QED
  BY <1>2, <1>3, <1>4, <1>5 DEF TypeOK, TelemetryTypeOK

(* The sample after the walk has its type.                                 *)
LEMMA EndSheddingTyped ==
  ASSUME TypeOK, EndShedding
  PROVE  TypeOK'
<1>1. PICK stage \in Stages : RecordBacklog(cycle, stage)
  BY DEF EndShedding, Stages
<1>2. /\ maxQueueBacklog' \in [Task -> Nat]
      /\ queueDepthTimeline' \in Seq(DepthSample)
  BY <1>1, RecordBacklogTyped
<1>3. pc' \in PCs
  BY DEF EndShedding, PCs
<1>4. UNCHANGED <<config, queue, toVisit, protected, cycle, sequence,
                  inFlight, executed, dropped, deadlineMissed, fallbackUsed,
                  dropEvents, resultEvents, scheduleDecisions,
                  policyDecisions>>
  BY DEF EndShedding, sheddingVars
<1>5. QED
  BY <1>2, <1>3, <1>4 DEF TypeOK, TelemetryTypeOK

(* A frame that is shed leaves a drop and a decision of their types.       *)
LEMMA ShedTaskTyped ==
  ASSUME TypeOK, NEW t \in Task, ShedTask(t)
  PROVE  TypeOK'
<1>1. queue[t] # <<>> /\ queue' \in Queues
  BY RemoveOldestEffect DEF ShedTask, Shed, RemoveOldest, TypeOK
<1>2. Head(queue[t]) \in Frame
  BY <1>1, HeadIsFrame DEF TypeOK
<1>3. dropped' \in [Task -> Nat] /\ dropEvents' \in Seq(DropEvent)
  BY <1>2, RecordDropTyped DEF ShedTask, DropReasons
<1>4. policyDecisions' \in Seq(Decision) /\ fallbackUsed' \in [Task -> Nat]
  <2>1. \A s \in Task : Backlog(s) \in Nat
    BY LenProperties DEF TypeOK, Queues, Backlog
  <2>2. TotalBacklog \in Nat /\ SnapshotBacklog \in [Task -> Nat]
    BY <2>1, SlotsFinite DEF SnapshotBacklog, TypeOK
  <2>3. config.fallback[t] \in BOOLEAN
    BY ConfigTyped DEF TypeOK
  <2>4. [protected |-> protected, limited |-> t,
         totalBefore |-> TotalBacklog, depth |-> SnapshotBacklog,
         fallbackUsed |-> config.fallback[t]] \in Decision
    BY <2>2, <2>3 DEF Decision, TypeOK
  <2>5. policyDecisions' \in Seq(Decision)
    BY <2>4, AppendProperties
       DEF ShedTask, RecordPolicyDecision, TypeOK, TelemetryTypeOK
  <2>6. fallbackUsed' \in [Task -> Nat]
    BY DEF ShedTask, RecordPolicyDecision, TypeOK, TelemetryTypeOK
  <2>7. QED
    BY <2>5, <2>6
<1>5. toVisit' \in SUBSET Task
  BY DEF ShedTask, Shed, TypeOK
<1>6. UNCHANGED <<config, pc, cycle, inFlight, protected, sequence, executed,
                  deadlineMissed, maxQueueBacklog, queueDepthTimeline,
                  resultEvents, scheduleDecisions>>
  BY DEF ShedTask, Shed, controlVars
<1>7. QED
  BY <1>1, <1>3, <1>4, <1>5, <1>6 DEF TypeOK, TelemetryTypeOK

(* The scheduler hands the worker a frame, and logs its task.              *)
LEMMA ScheduleTyped ==
  ASSUME TypeOK, NEW t \in Task, Schedule(t)
  PROVE  TypeOK'
<1>1. queue[t] # <<>> /\ queue' \in Queues
  BY RemoveOldestEffect DEF Schedule, RemoveOldest, TypeOK
<1>2. inFlight' \in SUBSET Frame
  BY <1>1, HeadIsFrame DEF TypeOK, Schedule
<1>3. scheduleDecisions' \in Seq(Task)
  BY AppendProperties
     DEF Schedule, RecordSchedule, TypeOK, TelemetryTypeOK
<1>4. pc' \in PCs
  BY DEF Schedule, PCs
<1>5. UNCHANGED <<config, toVisit, protected, cycle, sequence, executed,
                  dropped, deadlineMissed, fallbackUsed, maxQueueBacklog,
                  queueDepthTimeline, dropEvents, resultEvents,
                  policyDecisions>>
  BY DEF Schedule
<1>6. QED
  BY <1>1, <1>2, <1>3, <1>4, <1>5 DEF TypeOK, TelemetryTypeOK

(* The next turn of either loop starts in one of the known places.         *)
LEMMA ContinueTyped ==
  ASSUME TypeOK, Continue
  PROVE  cycle' \in Nat /\ pc' \in PCs /\ toVisit' \in SUBSET Task
BY DEF TypeOK, Continue, PCs

(* A result that is recorded has its type, whatever the latency.           *)
LEMMA WorkerReturnsTyped ==
  ASSUME TypeOK, NEW latency \in Latencies, WorkerReturns(latency)
  PROVE  TypeOK'
<1>1. PICK f \in inFlight : RecordExecution(f, latency, cycle)
  BY DEF WorkerReturns
<1>2. f \in Frame /\ f.task \in Task /\ f.cycle \in Nat
  BY DEF TypeOK, Frame
<1>3. executed' \in [Task -> Nat] /\ deadlineMissed' \in [Task -> Nat]
  <2> DEFINE late == latency > config.budget[f.task]
  <2>1. executed \in [Task -> Nat] /\ deadlineMissed \in [Task -> Nat]
    BY DEF TypeOK, TelemetryTypeOK
  <2>2. /\ executed' = [executed EXCEPT ![f.task] = executed[f.task] + 1]
        /\ deadlineMissed' = [deadlineMissed EXCEPT ![f.task] =
                                IF late THEN deadlineMissed[f.task] + 1
                                        ELSE deadlineMissed[f.task]]
    BY <1>1 DEF RecordExecution
  <2> HIDE DEF late
  <2>3. QED
    BY <1>2, <2>1, <2>2
<1>4. maxQueueBacklog' \in [Task -> Nat]
  <2>1. Backlog(f.task) \in Nat
    BY <1>2, LenProperties DEF TypeOK, Queues, Backlog
  <2>2. QED
    BY <1>1, <1>2, <2>1
       DEF RecordExecution, AtLeast, TypeOK, TelemetryTypeOK
<1>5. resultEvents' \in Seq(ResultEvent)
  <2>1. SchedulerDelayCycles(f, cycle) \in Nat \cup {NoDelay}
    BY <1>2 DEF SchedulerDelayCycles, AtLeast, TypeOK
  <2>2. [frame |-> f, delay |-> SchedulerDelayCycles(f, cycle)]
          \in ResultEvent
    BY <1>2, <2>1 DEF ResultEvent
  <2>3. QED
    BY <1>1, <2>2, AppendProperties
       DEF RecordExecution, TypeOK, TelemetryTypeOK
<1>6. cycle' \in Nat /\ pc' \in PCs /\ toVisit' \in SUBSET Task
  BY ContinueTyped DEF WorkerReturns
<1>7. inFlight' \in SUBSET Frame
  BY DEF WorkerReturns
<1>8. UNCHANGED <<config, queue, protected, sequence, dropped, fallbackUsed,
                  queueDepthTimeline, dropEvents, scheduleDecisions,
                  policyDecisions>>
  BY DEF WorkerReturns
<1>9. QED
  BY <1>3, <1>4, <1>5, <1>6, <1>7, <1>8 DEF TypeOK, TelemetryTypeOK

(* Every step of the runtime keeps the types.                              *)
LEMMA TypeStep == TypeOK /\ [Next]_vars => TypeOK'
<1> SUFFICES ASSUME TypeOK, [Next]_vars PROVE TypeOK'
  OBVIOUS
<1>1. ASSUME NEW t \in Task, SkipTask(t) PROVE TypeOK'
  BY <1>1 DEF SkipTask, NextToEmit, TypeOK, TelemetryTypeOK, controlVars,
              telemetryVars
<1>2. ASSUME NEW t \in Task, PassByTask(t) PROVE TypeOK'
  BY <1>2 DEF PassByTask, PassBy, TypeOK, TelemetryTypeOK, controlVars,
              telemetryVars
<1>3. CASE WorkerRaises
  BY <1>3 DEF WorkerRaises, PCs, TypeOK, TelemetryTypeOK, telemetryVars
<1>4. CASE NothingToExecute
  <2>1. cycle' \in Nat /\ pc' \in PCs /\ toVisit' \in SUBSET Task
    BY <1>4, ContinueTyped DEF NothingToExecute, PCs, TypeOK
  <2>2. UNCHANGED <<config, queue, protected, sequence, inFlight,
                    telemetryVars>>
    BY <1>4 DEF NothingToExecute
  <2>3. QED
    BY <2>1, <2>2 DEF TypeOK, TelemetryTypeOK, telemetryVars
<1>5. CASE UNCHANGED vars
  BY <1>5 DEF vars, TypeOK, TelemetryTypeOK, telemetryVars
<1>6. QED
  BY <1>1, <1>2, <1>3, <1>4, <1>5, EnqueueTyped, BeginSheddingTyped,
     ShedTaskTyped, EndSheddingTyped, ScheduleTyped, WorkerReturnsTyped
     DEF Next

\* Init, of whatever configuration validate lets through.
Started ==
  /\ ValidConfig(config)
  /\ QueuesInit /\ TelemetryInit
  /\ toVisit = Task /\ protected = {}
  /\ pc = IF config.frames > 0 THEN "arrivals" ELSE "done"
  /\ cycle = 0 /\ sequence = 0
  /\ inFlight = {}

(* A run starts so.                                                        *)
LEMMA StartedInit == Init => Started
BY ConfigsAssumption DEF Init, Started

(* A run starts with empty queues and logs.                                *)
LEMMA TypeInit == Started => TypeOK
<1> SUFFICES ASSUME Started PROVE TypeOK
  OBVIOUS
<1>1. queue \in Queues
  BY EmptySeq DEF Started, QueuesInit, Queues
<1>2. TelemetryTypeOK
  BY EmptySeq DEF Started, TelemetryInit, TelemetryTypeOK
<1>3. QED
  BY <1>1, <1>2 DEF Started, TypeOK, PCs

(* Every variable of the runtime keeps its type: the queues hold frames,   *)
(* the counters are numbers, the logs of telemetry.py are sequences of     *)
(* their events.                                                           *)
THEOREM RuntimeTypeOK == Spec => []TypeOK
  BY StartedInit, TypeInit, TypeStep, PTL DEF Spec

-----------------------------------------------------------------------------
(* Every step is one that leaves the queues alone, one that takes the head *)
(* of one queue, or one that puts a new frame of a task into its queue.    *)
QueueStep ==
  \/ UNCHANGED queue
  \/ \E t \in Task : RemoveOldest(t)
  \/ \E t \in Task : \/ Accept(NewFrame(t))
                     \/ AcceptEvictingOldest(NewFrame(t))

(* What the actions of the runtime do to the queues.                       *)
LEMMA StepsOfQueues ==
  ASSUME [Next]_vars
  PROVE  QueueStep /\ UNCHANGED config
<1>1. ASSUME NEW t \in Task, SkipTask(t) PROVE QueueStep /\ UNCHANGED config
  BY <1>1 DEF SkipTask, controlVars, QueueStep
<1>2. ASSUME NEW t \in Task, Enqueue(t) PROVE QueueStep /\ UNCHANGED config
  BY <1>2 DEF Enqueue, controlVars, QueueStep, RejectNewest
<1>3. CASE BeginShedding
  BY <1>3 DEF BeginShedding, BeginWalk, QueueStep
<1>4. ASSUME NEW t \in Task, PassByTask(t)
      PROVE  QueueStep /\ UNCHANGED config
  BY <1>4 DEF PassByTask, PassBy, controlVars, QueueStep
<1>5. ASSUME NEW t \in Task, ShedTask(t) PROVE QueueStep /\ UNCHANGED config
  BY <1>5 DEF ShedTask, Shed, controlVars, QueueStep
<1>6. CASE EndShedding
  BY <1>6 DEF EndShedding, sheddingVars, QueueStep
<1>7. ASSUME NEW t \in Task, Schedule(t) PROVE QueueStep /\ UNCHANGED config
  BY <1>7 DEF Schedule, QueueStep
<1>8. ASSUME NEW latency \in Latencies, WorkerReturns(latency)
      PROVE  QueueStep /\ UNCHANGED config
  BY <1>8 DEF WorkerReturns, QueueStep
<1>9. CASE WorkerRaises
  BY <1>9 DEF WorkerRaises, QueueStep
<1>10. CASE NothingToExecute
  BY <1>10 DEF NothingToExecute, QueueStep
<1>11. CASE UNCHANGED vars
  BY <1>11 DEF vars, QueueStep
<1>12. QED
  BY <1>1, <1>2, <1>3, <1>4, <1>5, <1>6, <1>7, <1>8, <1>9, <1>10, <1>11
     DEF Next

-----------------------------------------------------------------------------
(***************************************************************************)
(* The bound of the queues.                                                *)
(***************************************************************************)
(* A new frame is put into a queue with room, or for one that is taken     *)
(* out of it.                                                              *)
LEMMA QueueBoundStep ==
  TypeOK /\ QueueBound /\ [Next]_vars => QueueBound'
<1> SUFFICES ASSUME TypeOK, QueueBound, [Next]_vars, NEW s \in Task
             PROVE  Backlog(s)' <= config.queueSize[s]
  BY StepsOfQueues DEF QueueBound
<1>1. /\ ValidConfig(config) /\ queue \in Queues
      /\ config.queueSize[s] \in Nat
      /\ Backlog(s) \in Nat /\ Backlog(s) <= config.queueSize[s]
  BY ConfigTyped, LenProperties
     DEF TypeOK, QueueBound, PositiveNat, Queues, Backlog
<1>2. CASE UNCHANGED queue
  BY <1>1, <1>2 DEF Backlog
<1>3. ASSUME NEW t \in Task, RemoveOldest(t)
      PROVE  Backlog(s)' <= config.queueSize[s]
  BY <1>1, <1>3, RemoveOldestEffect DEF Backlog
<1>4. ASSUME NEW t \in Task, Accept(NewFrame(t))
      PROVE  Backlog(s)' <= config.queueSize[s]
  <2>1. NewFrame(t) \in Frame /\ NewFrame(t).task = t
    BY NewFrameTyped
  <2>2. /\ Backlog(t)' = Backlog(t) + 1
        /\ \A r \in Task \ {t} : queue'[r] = queue[r]
    BY <1>1, <1>4, <2>1, AcceptEffect
  <2>3. Backlog(t) < config.queueSize[t]
    BY <1>4, <2>1 DEF Accept, HasRoom
  <2>4. QED
    BY <1>1, <2>2, <2>3 DEF Backlog
<1>5. ASSUME NEW t \in Task, AcceptEvictingOldest(NewFrame(t))
      PROVE  Backlog(s)' <= config.queueSize[s]
  <2>1. NewFrame(t) \in Frame /\ NewFrame(t).task = t
    BY NewFrameTyped
  <2>2. /\ Backlog(t)' = Backlog(t)
        /\ \A r \in Task \ {t} : queue'[r] = queue[r]
    BY <1>1, <1>5, <2>1, EvictEffect
  <2>3. QED
    BY <1>1, <2>2 DEF Backlog
<1>6. QED
  BY <1>2, <1>3, <1>4, <1>5, StepsOfQueues DEF QueueStep

(* No sequence of arrivals, evictions, sheds and pops makes a queue longer *)
(* than its queue_size (BoundedTaskQueues.enqueue).                        *)
THEOREM RuntimeQueueBound == Spec => []QueueBound
<1>1. Started => QueueBound
  <2> SUFFICES ASSUME Started, NEW t \in Task
               PROVE  Backlog(t) <= config.queueSize[t]
    BY DEF QueueBound
  <2>1. Backlog(t) = 0
    BY EmptySeq DEF Started, QueuesInit, Backlog
  <2>2. config.queueSize[t] \in Nat
    BY TypeInit, ConfigTyped DEF TypeOK, PositiveNat
  <2>3. QED
    BY <2>1, <2>2
<1>2. QED
  BY StartedInit, TypeInit, TypeStep, <1>1, QueueBoundStep, PTL DEF Spec

-----------------------------------------------------------------------------
(***************************************************************************)
(* Each queue holds frames of its own task.                                *)
(***************************************************************************)
OwnFrames == \A t \in Task : \A i \in DOMAIN queue[t] : queue[t][i].task = t

(* What is in a queue was in it before, or is the frame just built.        *)
LEMMA QueuedFrames ==
  ASSUME TypeOK, [Next]_vars, NEW s \in Task, NEW i \in DOMAIN queue'[s]
  PROVE  \/ \E j \in DOMAIN queue[s] : queue'[s][i] = queue[s][j]
         \/ queue'[s][i] = NewFrame(s)
<1>1. queue \in [Task -> Seq(Frame)] /\ queue[s] \in Seq(Frame)
  BY DEF TypeOK, Queues
<1> DEFINE Known == \/ \E j \in DOMAIN queue[s] : queue'[s][i] = queue[s][j]
                    \/ queue'[s][i] = NewFrame(s)
<1>2. CASE queue'[s] = queue[s]
  BY <1>2
<1>3. ASSUME NEW t \in Task, RemoveOldest(t), s = t PROVE Known
  <2>1. queue[s] # <<>> /\ queue'[s] = Tail(queue[s])
    BY <1>1, <1>3 DEF RemoveOldest
  <2>2. QED
    BY <1>1, <2>1, TailElements
<1>4. ASSUME NEW t \in Task, Accept(NewFrame(t)), s = t PROVE Known
  <2>1. NewFrame(s) \in Frame /\ NewFrame(s).task = s
    BY NewFrameTyped
  <2>2. queue'[s] = Append(queue[s], NewFrame(s))
    BY <1>1, <1>4, <2>1 DEF Accept
  <2>3. QED
    BY <1>1, <2>1, <2>2, AppendElements
<1>5. ASSUME NEW t \in Task, AcceptEvictingOldest(NewFrame(t)), s = t
      PROVE  Known
  <2>1. NewFrame(s) \in Frame /\ NewFrame(s).task = s
    BY NewFrameTyped
  <2>2. queue[s] # <<>>
    BY <1>5, <2>1, EvictEffect DEF TypeOK
  <2>3. queue'[s] = Append(Tail(queue[s]), NewFrame(s))
    BY <1>1, <1>5, <2>1 DEF AcceptEvictingOldest
  <2>4. Tail(queue[s]) \in Seq(Frame)
    BY <1>1, <2>2, HeadTailProperties
  <2>5. \A j \in DOMAIN Tail(queue[s]) :
          \E k \in DOMAIN queue[s] : Tail(queue[s])[j] = queue[s][k]
    BY <1>1, <2>2, TailElements
  <2>6. QED
    BY <2>1, <2>3, <2>4, <2>5, AppendElements
<1>6. ASSUME NEW t \in Task, s # t,
             \/ RemoveOldest(t)
             \/ Accept(NewFrame(t))
             \/ AcceptEvictingOldest(NewFrame(t))
      PROVE  queue'[s] = queue[s]
  <2>1. NewFrame(t).task = t
    BY NewFrameTyped
  <2>2. QED
    BY <1>1, <1>6, <2>1 DEF RemoveOldest, Accept, AcceptEvictingOldest
<1>7. QED
  BY <1>2, <1>3, <1>4, <1>5, <1>6, StepsOfQueues DEF QueueStep

(* No operation moves a frame to the queue of another task.                *)
LEMMA OwnFramesStep ==
  TypeOK /\ OwnFrames /\ [Next]_vars => OwnFrames'
BY QueuedFrames, NewFrameTyped DEF OwnFrames

-----------------------------------------------------------------------------
(***************************************************************************)
(* The total backlog.                                                      *)
(***************************************************************************)
(* total_backlog is a number, and 0 only when no queue has a frame.        *)
BacklogIsNumber ==
  /\ TotalBacklog \in Nat
  /\ TotalBacklog = 0 <=> NonEmptyTasks = {}

(* BacklogIsNumber follows from the types, in a state,                     *)
LEMMA BacklogNumber == TypeOK => BacklogIsNumber
  BY SlotsFinite, TotalIsZero DEF TypeOK, BacklogIsNumber

(* and in the state after it.                                              *)
LEMMA BacklogNumberNext == TypeOK' => BacklogIsNumber'
  BY BacklogNumber, PTL

(* Finitely many tasks owe a frame.                                        *)
LEMMA OwingFinite ==
  /\ IsFiniteSet(Owing)
  /\ Cardinality(Owing) \in Nat
<1>1. Owing \in SUBSET Task
  BY DEF Owing, Emitting
<1>2. QED
  BY <1>1, TaskAssumption, FS_Subset, FS_CardinalityType

-----------------------------------------------------------------------------
(***************************************************************************)
(* Every action preserves BacklogInv.                                      *)
(***************************************************************************)
BacklogIInv == TypeOK /\ BacklogInv

(* A run starts with no backlog and no debt.                               *)
LEMMA BacklogInit == Started => BacklogIInv
<1> SUFFICES ASSUME Started PROVE BacklogIInv
  OBVIOUS
<1>1. TypeOK
  BY TypeInit
<1>2. TotalBacklog = 0
  <2>1. NonEmptyTasks = {}
    BY DEF Started, QueuesInit, NonEmptyTasks
  <2>2. QED
    BY <1>1, <2>1, TotalIsZero DEF TypeOK
<1>3. config.threshold \in Nat /\ config.threshold >= 1
      /\ config.frames \in Nat
  BY <1>1, ConfigTyped DEF TypeOK
<1>4. pc = "arrivals" => Owing = {} /\ Cardinality(Owing) = 0
  BY FS_EmptySet DEF Started, Owing, Emitting
<1>5. pc \in {"arrivals", "done"} /\ protected = {} /\ toVisit = Task
      /\ (pc = "arrivals" => ~ Draining)
  BY <1>3 DEF Started, Draining
<1>6. QED
  BY <1>1, <1>2, <1>3, <1>4, <1>5 DEF BacklogIInv, BacklogInv

(* A task that emits nothing owes nothing.                                 *)
LEMMA SkipTaskBacklog ==
  ASSUME BacklogIInv, NEW t \in Task, SkipTask(t)
  PROVE  BacklogInv'
<1>1. /\ pc = "arrivals" /\ t \in toVisit /\ toVisit' = toVisit \ {t}
      /\ ~ Emits(t, cycle)
      /\ UNCHANGED <<config, pc, cycle, queue, protected>>
  BY DEF SkipTask, NextToEmit, NextInOrder, controlVars
<1>2. Emitting' = Emitting /\ Draining' = Draining
  BY <1>1 DEF Emitting, Draining, Emits
<1>3. t \notin Emitting
  BY <1>1 DEF Emitting
<1>4. Owing' = Owing
  BY <1>1, <1>2, <1>3 DEF Owing
<1>5. TotalBacklog' = TotalBacklog /\ NonEmptyTasks' = NonEmptyTasks
  BY <1>1 DEF TotalBacklog, Slots, Backlog, NonEmptyTasks
<1>6. QED
  BY <1>1, <1>2, <1>4, <1>5 DEF BacklogIInv, BacklogInv

(* A task that emits owes a frame from then on, and has one.               *)
LEMMA EnqueueBacklog ==
  ASSUME BacklogIInv, TypeOK', NEW t \in Task, Enqueue(t)
  PROVE  BacklogInv'
<1>1. /\ pc = "arrivals" /\ t \in toVisit /\ toVisit' = toVisit \ {t}
      /\ Emits(t, cycle)
      /\ UNCHANGED <<config, pc, cycle, protected>>
  BY DEF Enqueue, NextToEmit, NextInOrder, controlVars
<1>2. ~ Draining /\ Emitting' = Emitting /\ Draining' = Draining
  BY <1>1 DEF BacklogIInv, BacklogInv, Emitting, Draining, Emits
<1>3. Owing' = Owing \cup {t} /\ t \notin Owing
  BY <1>1, <1>2 DEF Owing, Emitting
<1>4. Cardinality(Owing') = Cardinality(Owing) + 1
  BY <1>3, OwingFinite, FS_AddElement
<1>5. NewFrame(t) \in Frame /\ NewFrame(t).task = t
  BY NewFrameTyped DEF BacklogIInv
<1>6. queue \in Queues /\ queue' \in Queues /\ ValidConfig(config)
  BY DEF BacklogIInv, TypeOK
<1>7. /\ TotalBacklog' <= TotalBacklog + 1
      /\ queue'[t] # <<>>
      /\ \A s \in Task \ {t} : queue'[s] = queue[s]
  <2>1. Backlog(t) \in Nat /\ (queue[t] # <<>> => Backlog(t) # 0)
        /\ TotalBacklog \in Nat
    BY <1>6, BacklogTyped, SlotsFinite
  <2>2. (Backlog(t)' = 0) <=> (queue'[t] = <<>>)
    BY <1>6, LenProperties, EmptySeq DEF Queues, Backlog
  <2>3. CASE Accept(NewFrame(t))
    <3>1. /\ Backlog(t)' = Backlog(t) + 1
          /\ \A s \in Task \ {t} : queue'[s] = queue[s]
      BY <1>5, <1>6, <2>3, AcceptEffect
    <3>2. TotalBacklog' = TotalBacklog + 1
      BY <1>6, <3>1, TotalPlusOne
    <3>3. QED
      BY <2>1, <2>2, <3>1, <3>2
  <2>4. CASE AcceptEvictingOldest(NewFrame(t))
    <3>1. /\ Backlog(t)' = Backlog(t) /\ queue[t] # <<>>
          /\ \A s \in Task \ {t} : queue'[s] = queue[s]
      BY <1>5, <1>6, <2>4, EvictEffect
    <3>2. TotalBacklog' = TotalBacklog
      BY <3>1, TotalSame DEF Backlog
    <3>3. QED
      BY <2>1, <2>2, <3>1, <3>2
  <2>5. CASE RejectNewest(NewFrame(t))
    <3>1. queue' = queue /\ queue[t] # <<>>
      BY <1>5, <1>6, <2>5, FullIsNotEmpty DEF RejectNewest
    <3>2. TotalBacklog' = TotalBacklog
      BY <3>1, TotalSame DEF Backlog
    <3>3. QED
      BY <2>1, <3>1, <3>2
  <2>6. QED
    BY <2>3, <2>4, <2>5 DEF Enqueue
<1>8. /\ TotalBacklog \in Nat /\ TotalBacklog' \in Nat
      /\ config.threshold \in Nat /\ Cardinality(Owing) \in Nat
  BY <1>6, BacklogNumber, BacklogNumberNext, ConfigTyped, OwingFinite
     DEF BacklogIInv, BacklogIsNumber
<1>9. TotalBacklog <= config.threshold - 1 + Cardinality(Owing)
  BY <1>1 DEF BacklogIInv, BacklogInv
<1>10. TotalBacklog' <= config'.threshold - 1 + Cardinality(Owing')
  BY <1>1, <1>4, <1>7, <1>8, <1>9
<1>11. \A s \in Owing' : queue'[s] # <<>>
  <2>1. \A s \in Owing : s \in Task /\ queue[s] # <<>>
    BY <1>1 DEF BacklogIInv, BacklogInv, Owing, Emitting
  <2>2. QED
    BY <1>3, <1>7, <2>1
<1>12. QED
  BY <1>1, <1>2, <1>10, <1>11 DEF BacklogIInv, BacklogInv

(* The walk begins with every task that emitted in debt.                   *)
LEMMA BeginSheddingBacklog ==
  ASSUME BacklogIInv, BeginShedding
  PROVE  BacklogInv'
<1>1. /\ pc = "arrivals" /\ toVisit = {} /\ pc' = "shed" /\ toVisit' = Task
      /\ UNCHANGED <<config, cycle, queue>>
  BY DEF BeginShedding, BeginWalk
<1>2. Emitting' = Emitting /\ Draining' = Draining
  BY <1>1 DEF Emitting, Draining, Emits
<1>3. Owing = Emitting /\ Owing' = Emitting
  BY <1>1, <1>2 DEF Owing, Emitting
<1>4. \A s, t \in protected' : s = t
  BY HighestIsUnique DEF BeginShedding, BeginWalk, BacklogIInv, TypeOK
<1>5. TotalBacklog' = TotalBacklog /\ NonEmptyTasks' = NonEmptyTasks
  BY <1>1 DEF TotalBacklog, Slots, Backlog, NonEmptyTasks
<1>6. QED
  BY <1>1, <1>2, <1>3, <1>4, <1>5 DEF BacklogIInv, BacklogInv

(* The walk passes a task by that is protected, and so stays in debt, or   *)
(* has no frame, and so owed none.                                         *)
LEMMA PassByTaskBacklog ==
  ASSUME BacklogIInv, NEW t \in Task, PassByTask(t)
  PROVE  BacklogInv'
<1>1. /\ pc = "shed" /\ t \in toVisit /\ toVisit' = toVisit \ {t}
      /\ t \in protected \/ queue[t] = <<>>
      /\ UNCHANGED <<config, pc, cycle, queue, protected>>
  BY DEF PassByTask, PassBy, NextLowFirst, controlVars
<1>2. Emitting' = Emitting /\ Draining' = Draining
  BY <1>1 DEF Emitting, Draining, Emits
<1>3. t \in protected \/ t \notin Emitting
  BY <1>1 DEF BacklogIInv, BacklogInv, Owing
<1>4. Owing' = Owing
  BY <1>1, <1>2, <1>3 DEF Owing
<1>5. TotalBacklog' = TotalBacklog /\ NonEmptyTasks' = NonEmptyTasks
  BY <1>1 DEF TotalBacklog, Slots, Backlog, NonEmptyTasks
<1>6. QED
  BY <1>1, <1>2, <1>4, <1>5 DEF BacklogIInv, BacklogInv

(* A frame that is shed settles one debt.                                  *)
LEMMA ShedTaskBacklog ==
  ASSUME BacklogIInv, TypeOK', NEW t \in Task, ShedTask(t)
  PROVE  BacklogInv'
<1>1. /\ pc = "shed" /\ t \in toVisit /\ toVisit' = toVisit \ {t}
      /\ t \notin protected /\ OverThreshold /\ RemoveOldest(t)
      /\ UNCHANGED <<config, pc, cycle, protected>>
  BY DEF ShedTask, Shed, NextLowFirst, controlVars
<1>2. queue \in Queues /\ queue' \in Queues /\ ValidConfig(config)
  BY DEF BacklogIInv, TypeOK
<1>3. Emitting' = Emitting /\ Draining' = Draining
  BY <1>1 DEF Emitting, Draining, Emits
<1>4. Owing' = Owing \ {t}
  BY <1>1, <1>3 DEF Owing
<1>5. Cardinality(Owing') >= Cardinality(Owing) - 1
  BY <1>4, OwingFinite, FS_RemoveElement
<1>6. /\ TotalBacklog' = TotalBacklog - 1
      /\ \A s \in Task \ {t} : queue'[s] = queue[s]
  BY <1>1, <1>2, RemoveOldestEffect, TotalMinusOne
<1>7. /\ TotalBacklog \in Nat /\ TotalBacklog' \in Nat
      /\ config.threshold \in Nat /\ config.threshold >= 1
      /\ Cardinality(Owing) \in Nat /\ Cardinality(Owing') \in Nat
  <2>1. Cardinality(Owing') \in Nat
    BY <1>4, OwingFinite, FS_RemoveElement, FS_CardinalityType
  <2>2. QED
    BY <1>2, <2>1, BacklogNumber, BacklogNumberNext, ConfigTyped, OwingFinite
       DEF BacklogIInv, BacklogIsNumber
<1>8. TotalBacklog' <= config'.threshold - 1 + Cardinality(Owing')
  <2>1. TotalBacklog <= config.threshold - 1 + Cardinality(Owing)
    BY <1>1 DEF BacklogIInv, BacklogInv
  <2>2. QED
    BY <1>1, <1>5, <1>6, <1>7, <2>1
<1>9. \A s \in Owing' \cap toVisit' : queue'[s] # <<>>
  BY <1>1, <1>4, <1>6 DEF BacklogIInv, BacklogInv, Owing, Emitting
<1>10. NonEmptyTasks' # {}
  <2>1. TotalBacklog' # 0
    BY <1>1, <1>6, <1>7 DEF OverThreshold
  <2>2. QED
    BY <2>1, BacklogNumberNext DEF BacklogIsNumber
<1>11. QED
  BY <1>1, <1>3, <1>8, <1>9, <1>10 DEF BacklogIInv, BacklogInv

(* The walk ends at the threshold, or with no debt but that of the one     *)
(* protected task.                                                         *)
LEMMA EndSheddingBacklog ==
  ASSUME BacklogIInv, EndShedding
  PROVE  BacklogInv'
<1>1. /\ pc = "shed" /\ pc' = "execute" /\ WalkEnded
      /\ UNCHANGED <<config, cycle, queue, toVisit, protected>>
  BY DEF EndShedding, sheddingVars
<1>2. TotalBacklog' = TotalBacklog /\ NonEmptyTasks' = NonEmptyTasks
      /\ Draining' = Draining
  BY <1>1 DEF TotalBacklog, Slots, Backlog, NonEmptyTasks, Draining
<1>3. TotalBacklog \in Nat /\ config.threshold \in Nat
  BY BacklogNumber, ConfigTyped DEF BacklogIInv, BacklogIsNumber, TypeOK
<1>4. TotalBacklog <= config.threshold
  <2>1. CASE ~ OverThreshold
    BY <2>1, <1>3 DEF OverThreshold
  <2>2. CASE toVisit = {}
    <3>1. \A s, t \in Owing : s = t
      BY <1>1, <2>2 DEF BacklogIInv, BacklogInv, Owing
    <3>2. ASSUME NEW t \in Owing PROVE Owing = {t}
      BY <3>1
    <3>3. Cardinality(Owing) <= 1
      <4>1. Owing = {} => Cardinality(Owing) = 0
        BY FS_EmptySet
      <4>2. ASSUME NEW t \in Owing PROVE Cardinality(Owing) = 1
        <5>1. Cardinality({t}) = 1
          BY FS_Singleton
        <5>2. QED
          BY <3>2, <4>2, <5>1
      <4>3. QED
        BY <4>1, <4>2
    <3>4. TotalBacklog <= config.threshold - 1 + Cardinality(Owing)
      BY <1>1 DEF BacklogIInv, BacklogInv
    <3>5. QED
      BY <1>3, <3>3, <3>4, OwingFinite
  <2>3. QED
    BY <1>1, <2>1, <2>2 DEF WalkEnded
<1>5. QED
  BY <1>1, <1>2, <1>4 DEF BacklogIInv, BacklogInv

(* The scheduler takes a frame.                                            *)
LEMMA ScheduleBacklog ==
  ASSUME BacklogIInv, TypeOK', NEW t \in Task, Schedule(t)
  PROVE  BacklogInv'
<1>1. /\ pc = "execute" /\ pc' = "work" /\ RemoveOldest(t)
      /\ UNCHANGED <<config, toVisit, protected, cycle>>
  BY DEF Schedule
<1>2. queue \in Queues /\ queue' \in Queues /\ ValidConfig(config)
  BY DEF BacklogIInv, TypeOK
<1>3. TotalBacklog' = TotalBacklog - 1
  BY <1>1, <1>2, RemoveOldestEffect, TotalMinusOne
<1>4. TotalBacklog \in Nat /\ config.threshold \in Nat
  BY <1>2, BacklogNumber, ConfigTyped DEF BacklogIInv, BacklogIsNumber
<1>5. TotalBacklog <= config.threshold
  BY <1>1 DEF BacklogIInv, BacklogInv
<1>6. TotalBacklog' <= config'.threshold - 1
  BY <1>1, <1>3, <1>4, <1>5
<1>7. QED
  BY <1>1, <1>6 DEF BacklogIInv, BacklogInv

(* The next turn of either loop starts below the threshold, with no debt.  *)
LEMMA ContinueBacklog ==
  ASSUME BacklogIInv, Continue, UNCHANGED <<config, queue, protected>>,
         TotalBacklog <= config.threshold - 1
  PROVE  BacklogInv'
<1>1. TotalBacklog' = TotalBacklog /\ NonEmptyTasks' = NonEmptyTasks
  BY DEF TotalBacklog, Slots, Backlog, NonEmptyTasks
<1>2. BacklogIsNumber
  BY BacklogNumber DEF BacklogIInv
<1>3. /\ config.threshold \in Nat /\ config.frames \in Nat /\ cycle \in Nat
      /\ cycle' = cycle + 1
  BY ConfigTyped DEF BacklogIInv, TypeOK, Continue
<1>4. \A s, t \in protected' : s = t
  BY DEF BacklogIInv, BacklogInv
<1>5. CASE cycle' < config.frames /\ pc' = "arrivals" /\ toVisit' = Task
  <2>1. Owing' = {} /\ ~ Draining'
    BY <1>3, <1>5 DEF Owing, Emitting, Draining
  <2>2. Cardinality(Owing') = 0
    BY <2>1, FS_EmptySet
  <2>3. QED
    BY <1>1, <1>2, <1>3, <1>4, <1>5, <2>1, <2>2
       DEF BacklogInv, BacklogIsNumber
<1>6. CASE /\ cycle' >= config.frames /\ TotalBacklog > 0
           /\ pc' = "arrivals" /\ toVisit' = {}
  <2>1. Owing' = {}
    BY <1>3, <1>6 DEF Owing, Emitting, Draining
  <2>2. Cardinality(Owing') = 0
    BY <2>1, FS_EmptySet
  <2>3. NonEmptyTasks # {}
    BY <1>2, <1>6 DEF BacklogIsNumber
  <2>4. QED
    BY <1>1, <1>2, <1>3, <1>4, <1>6, <2>1, <2>2, <2>3
       DEF BacklogInv, BacklogIsNumber
<1>7. CASE pc' = "done"
  BY <1>1, <1>4, <1>7 DEF BacklogInv
<1>8. QED
  BY <1>5, <1>6, <1>7 DEF Continue

(* A cycle that executes nothing leaves the queues empty.                  *)
LEMMA NothingToExecuteBacklog ==
  ASSUME BacklogIInv, NothingToExecute
  PROVE  BacklogInv'
<1>1. /\ pc = "execute" /\ NonEmptyTasks = {}
      /\ UNCHANGED <<config, queue, protected>>
  BY DEF NothingToExecute
<1>2. TotalBacklog = 0
  BY <1>1, BacklogNumber DEF BacklogIInv, BacklogIsNumber
<1>3. config.threshold \in Nat /\ config.threshold >= 1
  BY ConfigTyped DEF BacklogIInv, TypeOK
<1>4. ~ Draining
  BY <1>1 DEF BacklogIInv, BacklogInv
<1>5. Continue
  BY <1>4 DEF NothingToExecute
<1>6. QED
  BY <1>1, <1>2, <1>3, <1>5, ContinueBacklog

(* Every step keeps the backlog within its debts.                          *)
LEMMA BacklogStep == BacklogIInv /\ [Next]_vars => BacklogIInv'
<1> SUFFICES ASSUME BacklogIInv, [Next]_vars PROVE BacklogIInv'
  OBVIOUS
<1>1. TypeOK'
  BY TypeStep DEF BacklogIInv
<1>2. BacklogInv'
  <2>1. ASSUME NEW latency \in Latencies, WorkerReturns(latency)
        PROVE  BacklogInv'
    BY <2>1, ContinueBacklog DEF WorkerReturns, BacklogIInv, BacklogInv
  <2>2. CASE WorkerRaises
    <3>1. /\ pc = "work" /\ pc' = "failed"
          /\ UNCHANGED <<config, queue, protected>>
      BY <2>2 DEF WorkerRaises
    <3>2. TotalBacklog' = TotalBacklog
      BY <3>1 DEF TotalBacklog, Slots, Backlog
    <3>3. QED
      BY <3>1, <3>2 DEF BacklogIInv, BacklogInv
  <2>3. CASE UNCHANGED vars
    BY <2>3 DEF vars, BacklogIInv, BacklogInv, TotalBacklog, Slots, Backlog,
                NonEmptyTasks, Owing, Emitting, Emits, Draining
  <2>4. QED
    BY <1>1, <2>1, <2>2, <2>3, SkipTaskBacklog, EnqueueBacklog,
       BeginSheddingBacklog, PassByTaskBacklog, ShedTaskBacklog,
       EndSheddingBacklog, ScheduleBacklog, NothingToExecuteBacklog DEF Next
<1>3. QED
  BY <1>1, <1>2 DEF BacklogIInv

-----------------------------------------------------------------------------
(***************************************************************************)
(* The theorems.                                                           *)
(***************************************************************************)
(* The invariant the walk of LoadSheddingPolicy.apply maintains with the   *)
(* cycle and drain loops of OrchestratorRuntime.run: the excess over the   *)
(* threshold is covered by the frames the tasks of this cycle owe.         *)
THEOREM RuntimeBacklogInv == Spec => []BacklogInv
<1>1. BacklogIInv => BacklogInv
  BY DEF BacklogIInv
<1>2. QED
  BY StartedInit, BacklogInit, BacklogStep, <1>1, PTL DEF Spec

(* What the invariant says of the total backlog.                           *)
LEMMA BacklogKept ==
  BacklogIInv =>
    BacklogWithinThreshold /\ NoSheddingInDrain /\ DrainNeverStalls
<1> SUFFICES ASSUME BacklogIInv
             PROVE  BacklogWithinThreshold /\ NoSheddingInDrain
                      /\ DrainNeverStalls
  OBVIOUS
<1>1. TotalBacklog \in Nat /\ config.threshold \in Nat
  BY BacklogNumber, ConfigTyped DEF BacklogIInv, BacklogIsNumber, TypeOK
<1>2. BacklogWithinThreshold
  BY <1>1 DEF BacklogIInv, BacklogInv, BacklogWithinThreshold
<1>3. ASSUME Draining PROVE ~ OverThreshold
  <2>1. Cardinality(Owing) = 0
    BY <1>3, FS_EmptySet DEF Owing, Emitting
  <2>2. pc \in {"arrivals", "shed"} \/ pc = "execute"
        \/ pc \in {"work", "done", "failed"}
    BY DEF BacklogIInv, TypeOK, PCs
  <2>3. TotalBacklog <= config.threshold
    BY <1>1, <2>1, <2>2 DEF BacklogIInv, BacklogInv
  <2>4. QED
    BY <1>1, <2>3 DEF OverThreshold
<1>4. DrainNeverStalls
  BY DEF BacklogIInv, BacklogInv, DrainNeverStalls
<1>5. QED
  BY <1>2, <1>3, <1>4 DEF NoSheddingInDrain

(* After every walk of the policy the backlog is within the threshold:     *)
(* one frame of each queue is always enough in OrchestratorRuntime.run.    *)
THEOREM RuntimeBacklogWithinThreshold == Spec => []BacklogWithinThreshold
BY StartedInit, BacklogInit, BacklogStep, BacklogKept, PTL DEF Spec

(* The drain loop sheds nothing: every frame queued when the arrivals end  *)
(* gets its turn with the worker.                                          *)
THEOREM RuntimeNoSheddingInDrain == Spec => []NoSheddingInDrain
BY StartedInit, BacklogInit, BacklogStep, BacklogKept, PTL DEF Spec

(* _execute_one always finds a frame in the drain loop: its break is never *)
(* taken, and the loop ends with empty queues.                             *)
THEOREM RuntimeDrainNeverStalls == Spec => []DrainNeverStalls
BY StartedInit, BacklogInit, BacklogStep, BacklogKept, PTL DEF Spec

-----------------------------------------------------------------------------
(***************************************************************************)
(* The inductive invariant.                                                *)
(***************************************************************************)
\* The worker has a frame only while it is called.
WorkerIdle == pc \notin {"work", "failed"} => inFlight = {}

\* From the choice of the protected task until the scheduler's, it has a
\* frame, and no task with a frame outranks it.
ProtectedIsHighest ==
  pc \in {"shed", "execute"} =>
    \A p \in protected :
      /\ queue[p] # <<>>
      /\ \A s \in NonEmptyTasks : config.priority[s] <= config.priority[p]

\* A task alone at the top has at most the frame of this cycle, which the
\* policy protects and the scheduler chooses.
NeverWaits(t) ==
  /\ dropped[t] = 0
  /\ Backlog(t) <= 1
  /\ \A i \in DOMAIN queue[t] : queue[t][i].cycle = cycle
  /\ \A f \in inFlight : f.task = t => f.cycle = cycle
  /\ \A i \in DOMAIN resultEvents :
       resultEvents[i].frame.task = t
         => resultEvents[i].delay \in {0, NoDelay}
  /\ pc = "arrivals" /\ t \in toVisit => queue[t] = <<>>
  /\ pc = "shed" /\ queue[t] # <<>> /\ OverThreshold => t \in protected
  /\ pc \in {"work", "done", "failed"} => queue[t] = <<>>

PriorityIInv ==
  /\ TypeOK /\ OwnFrames /\ WorkerIdle /\ ProtectedIsHighest
  /\ \A t \in Task : TopPriority(t) => NeverWaits(t)

-----------------------------------------------------------------------------
(* The worker is handed a frame by Schedule and gives it back by           *)
(* WorkerReturns.                                                          *)
LEMMA WorkerIdleStep ==
  TypeOK /\ WorkerIdle /\ [Next]_vars => WorkerIdle'
<1> SUFFICES ASSUME TypeOK, WorkerIdle, [Next]_vars PROVE WorkerIdle'
  OBVIOUS
<1>1. ASSUME NEW t \in Task,
             SkipTask(t) \/ Enqueue(t) \/ PassByTask(t) \/ ShedTask(t)
      PROVE  WorkerIdle'
  BY <1>1 DEF SkipTask, Enqueue, PassByTask, ShedTask, controlVars,
              WorkerIdle
<1>2. CASE BeginShedding \/ EndShedding
  BY <1>2 DEF BeginShedding, EndShedding, WorkerIdle
<1>3. ASSUME NEW t \in Task, Schedule(t) PROVE WorkerIdle'
  BY <1>3 DEF Schedule, WorkerIdle
<1>4. ASSUME NEW latency \in Latencies, WorkerReturns(latency)
      PROVE  WorkerIdle'
  BY <1>4 DEF WorkerReturns, WorkerIdle
<1>5. CASE WorkerRaises \/ NothingToExecute
  BY <1>5 DEF WorkerRaises, NothingToExecute, WorkerIdle
<1>6. CASE UNCHANGED vars
  BY <1>6 DEF vars, WorkerIdle
<1>7. QED
  BY <1>1, <1>2, <1>3, <1>4, <1>5, <1>6 DEF Next

(* The walk takes nothing from the protected task, and takes from the      *)
(* others only, so that none comes to outrank it.                          *)
LEMMA ProtectedIsHighestStep ==
  TypeOK /\ ProtectedIsHighest /\ [Next]_vars => ProtectedIsHighest'
<1> SUFFICES ASSUME TypeOK, ProtectedIsHighest, [Next]_vars
             PROVE  ProtectedIsHighest'
  OBVIOUS
<1> USE DEF ProtectedIsHighest, NonEmptyTasks
<1>1. config.priority \in [Task -> Nat] /\ protected \subseteq Task
  BY ConfigTyped DEF TypeOK
<1>2. ASSUME NEW t \in Task, SkipTask(t) \/ Enqueue(t)
      PROVE  ProtectedIsHighest'
  BY <1>2 DEF SkipTask, Enqueue, NextToEmit, controlVars
<1>3. CASE BeginShedding
  <2>1. /\ queue' = queue /\ config' = config
        /\ protected' \subseteq HighestBacklogged
    BY <1>3 DEF BeginShedding, BeginWalk
  <2>2. \A p \in HighestBacklogged :
          /\ queue[p] # <<>>
          /\ \A s \in NonEmptyTasks : config.priority[s] <= config.priority[p]
    BY <1>1 DEF HighestBacklogged, HighFirst
  <2>3. QED
    BY <2>1, <2>2
<1>4. ASSUME NEW t \in Task, PassByTask(t) PROVE ProtectedIsHighest'
  BY <1>4 DEF PassByTask, PassBy, controlVars
<1>5. ASSUME NEW t \in Task, ShedTask(t) PROVE ProtectedIsHighest'
  <2>1. /\ pc = "shed" /\ config' = config
        /\ protected' = protected /\ t \notin protected
        /\ RemoveOldest(t)
    BY <1>5 DEF ShedTask, Shed, controlVars
  <2>2. queue[t] # <<>> /\ \A s \in Task \ {t} : queue'[s] = queue[s]
    BY <2>1, RemoveOldestEffect DEF TypeOK, RemoveOldest
  <2>3. QED
    BY <1>1, <2>1, <2>2
<1>6. CASE EndShedding
  BY <1>6 DEF EndShedding, sheddingVars
<1>7. ASSUME NEW t \in Task, Schedule(t) PROVE ProtectedIsHighest'
  BY <1>7 DEF Schedule
<1>8. ASSUME NEW latency \in Latencies, WorkerReturns(latency)
      PROVE  ProtectedIsHighest'
  BY <1>8 DEF WorkerReturns, Continue
<1>9. CASE WorkerRaises
  BY <1>9 DEF WorkerRaises
<1>10. CASE NothingToExecute
  BY <1>10 DEF NothingToExecute, Continue
<1>11. CASE UNCHANGED vars
  BY <1>11 DEF vars
<1>12. QED
  BY <1>2, <1>3, <1>4, <1>5, <1>6, <1>7, <1>8, <1>9, <1>10, <1>11 DEF Next

-----------------------------------------------------------------------------
(***************************************************************************)
(* A task alone at the highest priority.                                   *)
(***************************************************************************)
(* The configuration, and with it the priorities, does not change.         *)
LEMMA TopPriorityStep ==
  ASSUME [Next]_vars, NEW t \in Task
  PROVE  TopPriority(t)' <=> TopPriority(t)
BY StepsOfQueues DEF TopPriority

(* A drop is counted for the task of its frame alone.                      *)
LEMMA DropOfAnother ==
  ASSUME TypeOK, NEW t \in Task, NEW f, NEW reason,
         f.task # t, RecordDrop(f, reason)
  PROVE  dropped'[t] = dropped[t]
BY DEF RecordDrop, TypeOK, TelemetryTypeOK

(* A frame of another task, queued or dropped, is no concern of t; a frame *)
(* of t finds its queue empty.                                             *)
LEMMA EnqueueNeverWaits ==
  ASSUME PriorityIInv, NEW t \in Task, TopPriority(t), NEW s \in Task,
         Enqueue(s)
  PROVE  NeverWaits(t)'
<1>1. /\ queue \in Queues /\ ValidConfig(config) /\ NeverWaits(t)
      /\ queue[s] \in Seq(Frame) /\ Backlog(t) \in Nat
      /\ config.queueSize[s] \in Nat /\ config.queueSize[s] >= 1
  BY ConfigTyped, LenProperties
     DEF PriorityIInv, TypeOK, Queues, Backlog, PositiveNat
<1>2. NewFrame(s) \in Frame /\ NewFrame(s).task = s
      /\ NewFrame(s).cycle = cycle
  BY NewFrameTyped DEF PriorityIInv, NewFrame
<1>3. /\ pc = "arrivals" /\ s \in toVisit /\ toVisit' = toVisit \ {s}
      /\ UNCHANGED <<config, pc, cycle, inFlight, resultEvents>>
  BY DEF Enqueue, NextToEmit, NextInOrder, controlVars
<1>4. CASE s = t
  <2>1. queue[t] = <<>> /\ HasRoom(t)
    BY <1>1, <1>3, <1>4, EmptySeq DEF NeverWaits, HasRoom, Backlog
  <2>2. Accept(NewFrame(t)) /\ UNCHANGED dropped
    BY <1>2, <1>4, <2>1
       DEF Enqueue, AcceptEvictingOldest, RejectNewest
  <2>3. queue'[t] = Append(queue[t], NewFrame(t))
    BY <1>1, <1>2, <1>4, <2>2 DEF Accept, Queues
  <2>4. Backlog(t)' = 1
    <3>1. Backlog(t) = 0
      BY <2>1, EmptySeq DEF Backlog
    <3>2. Backlog(t)' = Backlog(t) + 1
      BY <1>1, <1>2, <1>4, <2>2, AcceptEffect
    <3>3. QED
      BY <3>1, <3>2
  <2>5. \A i \in DOMAIN queue'[t] : queue'[t][i].cycle = cycle'
    BY <1>1, <1>2, <1>3, <1>4, <2>1, <2>3, AppendElements DEF NeverWaits
  <2>6. QED
    BY <1>1, <1>3, <1>4, <2>2, <2>4, <2>5 DEF NeverWaits
<1>5. CASE s # t
  <2>1. queue'[t] = queue[t]
    BY <1>1, <1>2, <1>5
       DEF Enqueue, Accept, AcceptEvictingOldest, RejectNewest, Queues
  <2>2. dropped'[t] = dropped[t]
    <3>1. CASE UNCHANGED dropped
      BY <3>1
    <3>2. CASE /\ AcceptEvictingOldest(NewFrame(s))
               /\ RecordDrop(Head(queue[s]), "queue_overflow_drop_oldest")
      <4>1. queue[s] # <<>>
        BY <3>2, <1>1, <1>2, EvictEffect
      <4>2. Head(queue[s]).task = s
        BY <4>1, <1>1, HeadElement DEF PriorityIInv, OwnFrames
      <4>3. QED
        BY <3>2, <4>2, <1>5, DropOfAnother DEF PriorityIInv
    <3>3. CASE RecordDrop(NewFrame(s), "queue_overflow_drop_newest")
      BY <3>3, <1>2, <1>5, DropOfAnother DEF PriorityIInv
    <3>4. QED
      BY <3>1, <3>2, <3>3 DEF Enqueue
  <2>3. QED
    BY <1>1, <1>3, <2>1, <2>2 DEF NeverWaits, Backlog
<1>6. QED
  BY <1>4, <1>5

(* If the policy has work to do it protects t, should t have a frame.      *)
LEMMA BeginSheddingNeverWaits ==
  ASSUME PriorityIInv, NEW t \in Task, TopPriority(t), BeginShedding
  PROVE  NeverWaits(t)'
<1>1. NeverWaits(t) /\ config.priority \in [Task -> Nat]
  BY ConfigTyped DEF PriorityIInv, TypeOK
<1>2. /\ pc' = "shed" /\ queue' = queue
      /\ protected' = IF OverThreshold THEN HighestBacklogged ELSE {}
      /\ UNCHANGED <<config, cycle, inFlight, dropped, resultEvents>>
  BY DEF BeginShedding, BeginWalk
<1>3. OverThreshold' <=> OverThreshold
  BY <1>2 DEF OverThreshold, TotalBacklog, Slots, Backlog
<1>4. queue[t] # <<>> => t \in HighestBacklogged
  BY <1>1 DEF HighestBacklogged, NonEmptyTasks, HighFirst, TopPriority
<1>5. QED
  BY <1>1, <1>2, <1>3, <1>4 DEF NeverWaits, Backlog

(* The walk takes a frame above the threshold only, where t is protected.  *)
LEMMA ShedTaskNeverWaits ==
  ASSUME PriorityIInv, NEW t \in Task, TopPriority(t), NEW s \in Task,
         ShedTask(s)
  PROVE  NeverWaits(t)'
<1>1. NeverWaits(t) /\ queue \in Queues /\ queue[s] \in Seq(Frame)
  BY DEF PriorityIInv, TypeOK, Queues
<1>2. /\ pc = "shed" /\ OverThreshold /\ s \notin protected
      /\ RemoveOldest(s)
      /\ UNCHANGED <<config, pc, cycle, inFlight, protected, resultEvents>>
      /\ RecordDrop(Head(queue[s]), "load_shedding_backlog_threshold_exceeded")
  BY DEF ShedTask, Shed, controlVars
<1>3. queue[s] # <<>> /\ s # t
  BY <1>1, <1>2 DEF NeverWaits, RemoveOldest
<1>4. queue'[t] = queue[t]
  BY <1>1, <1>2, <1>3, RemoveOldestEffect
<1>5. Head(queue[s]).task = s
  BY <1>1, <1>3, HeadElement DEF PriorityIInv, OwnFrames
<1>6. dropped'[t] = dropped[t]
  BY <1>2, <1>3, <1>5, DropOfAnother DEF PriorityIInv
<1>7. QED
  BY <1>1, <1>2, <1>3, <1>4, <1>6 DEF NeverWaits, Backlog

(* The scheduler chooses t if t has a frame, and takes the one it has.     *)
LEMMA ScheduleNeverWaits ==
  ASSUME PriorityIInv, NEW t \in Task, TopPriority(t), NEW s \in Task,
         Schedule(s)
  PROVE  NeverWaits(t)'
<1>1. /\ NeverWaits(t) /\ queue \in Queues /\ queue[s] \in Seq(Frame)
      /\ queue[t] \in Seq(Frame) /\ Backlog(t) \in Nat
      /\ config.priority \in [Task -> Nat]
  BY ConfigTyped, LenProperties DEF PriorityIInv, TypeOK, Queues, Backlog
<1>2. /\ pc' = "work" /\ ChosenNext(s) /\ RemoveOldest(s)
      /\ inFlight' = {Head(queue[s])}
      /\ UNCHANGED <<config, cycle, dropped, resultEvents>>
  BY DEF Schedule
<1>3. queue[s] # <<>> /\ Head(queue[s]) = queue[s][1]
      /\ 1 \in DOMAIN queue[s] /\ Head(queue[s]).task = s
  BY <1>1, <1>2, HeadElement DEF RemoveOldest, PriorityIInv, OwnFrames
<1>4. CASE s = t
  <2>1. Backlog(t) >= 1 /\ Backlog(t)' = Backlog(t) - 1 /\ queue' \in Queues
    BY <1>1, <1>2, <1>4, RemoveOldestEffect
  <2>2. Backlog(t) <= 1
    BY <1>1 DEF NeverWaits
  <2>3. Backlog(t)' = 0
    BY <1>1, <2>1, <2>2
  <2>4. queue'[t] = <<>>
    BY <2>1, <2>3, EmptySeq DEF Queues, Backlog
  <2>5. Head(queue[s]).cycle = cycle
    BY <1>1, <1>3, <1>4 DEF NeverWaits
  <2>6. DOMAIN queue'[t] = {}
    BY <2>4, EmptySeq
  <2>7. \A f \in inFlight' : f.task = t => f.cycle = cycle'
    BY <1>2, <2>5
  <2>8. \A i \in DOMAIN queue'[t] : queue'[t][i].cycle = cycle'
    BY <2>6
  <2>9. QED
    BY <1>1, <1>2, <2>3, <2>4, <2>7, <2>8 DEF NeverWaits
<1>5. CASE s # t
  <2>1. queue'[t] = queue[t]
    BY <1>1, <1>2, <1>5, RemoveOldestEffect
  <2>2. queue[t] = <<>>
    <3>1. config.priority[s] < config.priority[t]
      BY <1>5 DEF TopPriority
    <3>2. ~ ServedBefore(s, t)
      BY <1>1, <3>1 DEF ServedBefore
    <3>3. QED
      BY <1>2, <1>5, <3>2 DEF ChosenNext, NonEmptyTasks
  <2>3. QED
    BY <1>1, <1>2, <1>3, <1>5, <2>1, <2>2 DEF NeverWaits, Backlog
<1>6. QED
  BY <1>4, <1>5

(* With t's queue empty a new cycle, and the end of the run, are safe.     *)
LEMMA ContinueNeverWaits ==
  ASSUME TypeOK, NEW t \in Task, NeverWaits(t), Continue, queue[t] = <<>>,
         queue' = queue, inFlight' = {}, dropped' = dropped,
         \A i \in DOMAIN resultEvents' :
           resultEvents'[i].frame.task = t
             => resultEvents'[i].delay \in {0, NoDelay}
  PROVE  NeverWaits(t)'
<1>1. pc' \in {"arrivals", "done"}
  BY DEF Continue
<1>2. \A i \in DOMAIN queue'[t] : FALSE
  BY EmptySeq
<1>3. QED
  BY <1>1, <1>2 DEF NeverWaits, Backlog

(* A frame of t is executed in the cycle of its arrival.                   *)
LEMMA WorkerReturnsNeverWaits ==
  ASSUME PriorityIInv, NEW t \in Task, TopPriority(t),
         NEW latency \in Latencies, WorkerReturns(latency)
  PROVE  NeverWaits(t)'
<1>1. /\ TypeOK /\ NeverWaits(t) /\ pc = "work"
      /\ resultEvents \in Seq(ResultEvent) /\ cycle \in Nat
      /\ queue' = queue /\ inFlight' = {} /\ dropped' = dropped /\ Continue
  BY DEF PriorityIInv, TypeOK, TelemetryTypeOK, WorkerReturns
<1>2. PICK f \in inFlight : RecordExecution(f, latency, cycle)
  BY DEF WorkerReturns
<1>3. f \in Frame
  BY <1>1 DEF TypeOK
<1> DEFINE delay == SchedulerDelayCycles(f, cycle)
           e == [frame |-> f, delay |-> delay]
<1>4. /\ delay \in Nat \cup {NoDelay}
      /\ f.cycle = cycle => delay \in {0, NoDelay}
  BY <1>1, <1>3 DEF SchedulerDelayCycles, AtLeast, Frame
<1>5. e \in ResultEvent /\ resultEvents' = Append(resultEvents, e)
  BY <1>2, <1>3, <1>4 DEF ResultEvent, RecordExecution
<1>6. e.frame.task = t => e.delay \in {0, NoDelay}
  BY <1>1, <1>4 DEF NeverWaits
<1>7. \A i \in DOMAIN resultEvents' :
        resultEvents'[i].frame.task = t
          => resultEvents'[i].delay \in {0, NoDelay}
  <2> SUFFICES ASSUME NEW i \in DOMAIN resultEvents',
                      resultEvents'[i].frame.task = t
               PROVE  resultEvents'[i].delay \in {0, NoDelay}
    OBVIOUS
  <2>1. \/ resultEvents'[i] = e
        \/ i \in DOMAIN resultEvents /\ resultEvents'[i] = resultEvents[i]
    BY <1>1, <1>5, AppendElements
  <2>2. QED
    BY <1>1, <1>6, <2>1 DEF NeverWaits
<1>8. queue[t] = <<>>
  BY <1>1 DEF NeverWaits
<1>9. QED
  BY <1>1, <1>7, <1>8, ContinueNeverWaits

(* Every step keeps what a task alone at the top is promised.              *)
LEMMA NeverWaitsStep ==
  ASSUME PriorityIInv, [Next]_vars, NEW t \in Task, TopPriority(t)
  PROVE  NeverWaits(t)'
<1>1. NeverWaits(t)
  BY DEF PriorityIInv
<1>2. ASSUME NEW s \in Task, SkipTask(s) PROVE NeverWaits(t)'
  BY <1>1, <1>2 DEF SkipTask, NextToEmit, controlVars, telemetryVars,
                    NeverWaits, Backlog
<1>3. ASSUME NEW s \in Task, PassByTask(s) PROVE NeverWaits(t)'
  <2>1. /\ pc = "shed" /\ OverThreshold
        /\ UNCHANGED <<queue, protected, controlVars, telemetryVars>>
    BY <1>3 DEF PassByTask, PassBy
  <2>2. QED
    BY <1>1, <2>1 DEF NeverWaits, Backlog, controlVars, telemetryVars
<1>4. CASE EndShedding
  BY <1>1, <1>4 DEF EndShedding, sheddingVars, NeverWaits, Backlog
<1>5. CASE WorkerRaises
  BY <1>1, <1>5 DEF WorkerRaises, telemetryVars, NeverWaits, Backlog
<1>6. CASE NothingToExecute
  <2>1. /\ pc = "execute" /\ queue[t] = <<>>
        /\ UNCHANGED <<queue, inFlight, dropped, resultEvents>>
    BY <1>6 DEF NothingToExecute, NonEmptyTasks, telemetryVars
  <2>2. inFlight' = {}
    BY <2>1 DEF PriorityIInv, WorkerIdle
  <2>3. CASE Draining
    BY <1>1, <1>6, <2>1, <2>3 DEF NothingToExecute, NeverWaits, Backlog
  <2>4. CASE ~ Draining
    <3>1. Continue
      BY <1>6, <2>4 DEF NothingToExecute
    <3>2. QED
      BY <1>1, <2>1, <2>2, <3>1, ContinueNeverWaits
         DEF PriorityIInv, NeverWaits
  <2>5. QED
    BY <2>3, <2>4
<1>7. CASE UNCHANGED vars
  <2>1. OverThreshold' <=> OverThreshold
    BY <1>7 DEF vars, OverThreshold, TotalBacklog, Slots, Backlog
  <2>2. QED
    BY <1>1, <1>7, <2>1 DEF vars, telemetryVars, NeverWaits, Backlog
<1>8. QED
  BY <1>2, <1>3, <1>4, <1>5, <1>6, <1>7, EnqueueNeverWaits,
     BeginSheddingNeverWaits, ShedTaskNeverWaits, ScheduleNeverWaits,
     WorkerReturnsNeverWaits DEF Next

(* The invariant holds of every reachable state.                           *)
LEMMA PriorityInvariant == Spec => []PriorityIInv
<1>1. Started => PriorityIInv
  <2> SUFFICES ASSUME Started PROVE PriorityIInv
    OBVIOUS
  <2>1. TypeOK /\ WorkerIdle
    BY TypeInit DEF Started, WorkerIdle
  <2>2. \A t \in Task : queue[t] = <<>> /\ DOMAIN queue[t] = {}
    BY EmptySeq DEF Started, QueuesInit
  <2>3. OwnFrames
    BY <2>2 DEF OwnFrames
  <2>4. ProtectedIsHighest
    BY DEF Started, ProtectedIsHighest
  <2>5. ASSUME NEW t \in Task PROVE NeverWaits(t)
    BY <2>2, EmptySeq DEF Started, TelemetryInit, NeverWaits, Backlog
  <2>6. QED
    BY <2>1, <2>3, <2>4, <2>5 DEF PriorityIInv
<1>2. PriorityIInv /\ [Next]_vars => PriorityIInv'
  <2> SUFFICES ASSUME PriorityIInv, [Next]_vars PROVE PriorityIInv'
    OBVIOUS
  <2>1. TypeOK' /\ OwnFrames' /\ WorkerIdle' /\ ProtectedIsHighest'
    BY TypeStep, OwnFramesStep, WorkerIdleStep, ProtectedIsHighestStep
       DEF PriorityIInv
  <2>2. \A t \in Task : TopPriority(t)' => NeverWaits(t)'
    BY NeverWaitsStep, TopPriorityStep
  <2>3. QED
    BY <2>1, <2>2 DEF PriorityIInv
<1>3. QED
  BY StartedInit, <1>1, <1>2, PTL DEF Spec

(* "High-priority workloads stay responsive" (README): a task alone at the *)
(* highest priority loses no frame to the policy or to a full queue, and   *)
(* each of its frames is executed in the cycle of its arrival.             *)
THEOREM RuntimeTopPriorityNeverWaits == Spec => []TopPriorityNeverWaits
<1>1. PriorityIInv => TopPriorityNeverWaits
  BY DEF PriorityIInv, NeverWaits, TopPriorityNeverWaits
<1>2. QED
  BY PriorityInvariant, <1>1, PTL

(* The scheduler serves the highest priority there is, which is that of    *)
(* the task the policy has protected in the same cycle.                    *)
THEOREM RuntimeNoPriorityInversion == Spec => NoPriorityInversion
<1> DEFINE Serves(f) ==
             /\ \A s \in NonEmptyTasks :
                  config.priority[s] <= config.priority[f.task]
             /\ \A p \in protected :
                  config.priority[p] = config.priority[f.task]
<1>1. ASSUME PriorityIInv, [Next]_vars, NEW f \in inFlight' \ inFlight
      PROVE  Serves(f)
  <2>1. \E t \in Task : Schedule(t)
    BY <1>1 DEF Next, SkipTask, Enqueue, BeginShedding, PassByTask, ShedTask,
                EndShedding, WorkerReturns, WorkerRaises, NothingToExecute,
                controlVars, vars
  <2>2. PICK t \in Task : Schedule(t)
    BY <2>1
  <2>3. /\ config.priority \in [Task -> Nat] /\ protected \subseteq Task
        /\ queue[t] \in Seq(Frame) /\ queue[t] # <<>>
    BY <1>1, <2>2, ConfigTyped
       DEF PriorityIInv, TypeOK, Queues, Schedule, RemoveOldest
  <2>4. f = Head(queue[t]) /\ f.task = t
    BY <1>1, <2>2, <2>3, HeadElement DEF Schedule, PriorityIInv, OwnFrames
  <2>5. \A s \in NonEmptyTasks : config.priority[s] <= config.priority[t]
    BY <2>2, <2>3 DEF Schedule, ChosenNext, ServedBefore, NonEmptyTasks
  <2>6. \A p \in protected :
          /\ p \in NonEmptyTasks
          /\ config.priority[t] <= config.priority[p]
    BY <1>1, <2>2, <2>3
       DEF Schedule, ChosenNext, PriorityIInv, ProtectedIsHighest,
           NonEmptyTasks
  <2>7. QED
    BY <2>3, <2>4, <2>5, <2>6
<1>2. PriorityIInv /\ [Next]_vars
        => [\A f \in inFlight' \ inFlight : Serves(f)]_vars
  BY <1>1
<1>3. QED
  BY PriorityInvariant, <1>2, PTL DEF Spec, NoPriorityInversion

=============================================================================
