--------------------------- MODULE EvidenceProofs ---------------------------
(***************************************************************************)
(* Proofs of what the report of an OrchestratorRuntime is evidence of: the *)
(* counters agree with the logs, every drop of the policy has a decision   *)
(* that justifies it, the peaks are those of the samples, a walk takes     *)
(* from the lowest priorities first, and the summaries of the report       *)
(* contradict neither one another nor the run.                             *)
(***************************************************************************)
EXTENDS AccountProofs, SustainedProperties

-----------------------------------------------------------------------------
(***************************************************************************)
(* The policy above the threshold has a task to protect.                   *)
(***************************************************************************)
\* A walk above the threshold has a task to protect.
ProtectedExists == pc = "shed" /\ OverThreshold => protected # {}

(* The walk starts with one when it is above the threshold, and does not   *)
(* come above it on the way.                                               *)
LEMMA ProtectedExistsStep ==
  TypeOK /\ ProtectedExists /\ [Next]_vars => ProtectedExists'
<1> SUFFICES ASSUME TypeOK, ProtectedExists, [Next]_vars,
                    pc' = "shed", OverThreshold'
             PROVE  protected' # {}
  BY DEF ProtectedExists
<1> USE DEF OverThreshold
<1>1. TypeOK'
  BY TypeStep
<1>2. ASSUME pc = "shed", UNCHANGED <<config, queue, protected>>
      PROVE  protected' # {}
  BY <1>2 DEF ProtectedExists, TotalBacklog, Slots, Backlog
<1>3. CASE BeginShedding
  <2>1. /\ queue' = queue /\ config' = config
        /\ protected' = IF OverThreshold THEN HighestBacklogged ELSE {}
    BY <1>3 DEF BeginShedding, BeginWalk
  <2>2. OverThreshold
    BY <2>1 DEF TotalBacklog, Slots, Backlog
  <2>3. NonEmptyTasks # {}
    BY <2>2, BacklogNumber, ConfigTyped DEF TypeOK, BacklogIsNumber
  <2>4. QED
    BY <2>1, <2>2, <2>3, HighestExists DEF TypeOK
<1>4. ASSUME NEW t \in Task, PassByTask(t) PROVE protected' # {}
  BY <1>2, <1>4 DEF PassByTask, PassBy, controlVars
<1>5. ASSUME NEW t \in Task, ShedTask(t) PROVE protected' # {}
  BY <1>5 DEF ShedTask, Shed, ProtectedExists
<1>6. ASSUME NEW t \in Task, SkipTask(t) \/ Enqueue(t)
      PROVE  protected' # {}
  BY <1>6 DEF SkipTask, Enqueue, NextToEmit, controlVars
<1>7. CASE EndShedding
  BY <1>7 DEF EndShedding
<1>8. ASSUME NEW t \in Task, Schedule(t) PROVE protected' # {}
  BY <1>8 DEF Schedule
<1>9. ASSUME NEW latency \in Latencies, WorkerReturns(latency)
      PROVE  protected' # {}
  BY <1>9 DEF WorkerReturns, Continue
<1>10. CASE WorkerRaises \/ NothingToExecute
  BY <1>10 DEF WorkerRaises, NothingToExecute, Continue
<1>11. CASE UNCHANGED vars
  BY <1>2, <1>11 DEF vars
<1>12. QED
  BY <1>3, <1>4, <1>5, <1>6, <1>7, <1>8, <1>9, <1>10, <1>11 DEF Next

-----------------------------------------------------------------------------
(***************************************************************************)
(* The samples of the queues.                                              *)
(***************************************************************************)
(* A sample is the depths of the queues, appended to the timeline.         *)
LEMMA SampleAppended ==
  ASSUME TypeOK, NEW stage \in Stages, RecordBacklog(cycle, stage)
  PROVE  LET n == Len(queueDepthTimeline)
         IN  /\ n \in Nat
             /\ DOMAIN queueDepthTimeline = 1 .. n
             /\ DOMAIN queueDepthTimeline' = 1 .. n + 1
             /\ Len(queueDepthTimeline') = n + 1
             /\ \A i \in 1 .. n :
                  queueDepthTimeline'[i] = queueDepthTimeline[i]
             /\ queueDepthTimeline'[n + 1]
                  = [cycle |-> cycle, stage |-> stage,
                     depth |-> SnapshotBacklog]
             /\ queueDepthTimeline'[n + 1].depth = SnapshotBacklog
<1> DEFINE e == [cycle |-> cycle, stage |-> stage, depth |-> SnapshotBacklog]
<1>1. queueDepthTimeline \in Seq(DepthSample)
      /\ queueDepthTimeline' = Append(queueDepthTimeline, e)
  BY DEF TypeOK, TelemetryTypeOK, RecordBacklog
<1>2. e \in DepthSample
  <2>1. \A t \in Task : Backlog(t) \in Nat
    BY BacklogTyped DEF TypeOK
  <2>2. QED
    BY <2>1 DEF DepthSample, SnapshotBacklog, TypeOK
<1> HIDE DEF e
<1>3. /\ Len(queueDepthTimeline) \in Nat
      /\ DOMAIN queueDepthTimeline = 1 .. Len(queueDepthTimeline)
      /\ queueDepthTimeline' \in Seq(DepthSample)
  BY <1>1, <1>2, LenProperties, AppendProperties
<1>4. /\ Len(queueDepthTimeline') = Len(queueDepthTimeline) + 1
      /\ DOMAIN queueDepthTimeline' = 1 .. Len(queueDepthTimeline')
      /\ \A i \in 1 .. Len(queueDepthTimeline) :
           queueDepthTimeline'[i] = queueDepthTimeline[i]
      /\ queueDepthTimeline'[Len(queueDepthTimeline) + 1] = e
  BY <1>1, <1>2, <1>3, LenProperties, AppendProperties
<1>5. QED
  BY <1>3, <1>4 DEF e

(* A sample raises the peaks to what it shows.                             *)
LEMMA SamplePeaks ==
  ASSUME TypeOK, PeakRecorded, queue' = queue,
         NEW stage \in Stages, RecordBacklog(cycle, stage)
  PROVE  PeakRecorded'
<1> DEFINE n == Len(queueDepthTimeline)
<1>1. /\ n \in Nat
      /\ DOMAIN queueDepthTimeline = 1 .. n
      /\ DOMAIN queueDepthTimeline' = 1 .. n + 1
      /\ \A i \in 1 .. n : queueDepthTimeline'[i] = queueDepthTimeline[i]
      /\ queueDepthTimeline'[n + 1].depth = SnapshotBacklog
  BY SampleAppended
<1>2. \A i \in 1 .. n : queueDepthTimeline[i].depth \in [Task -> Nat]
  <2>1. \A i \in 1 .. n : queueDepthTimeline[i] \in DepthSample
    BY <1>1 DEF TypeOK, TelemetryTypeOK
  <2>2. QED
    BY <2>1 DEF DepthSample
<1> HIDE DEF n
<1> SUFFICES ASSUME NEW t \in Task
             PROVE  /\ \A i \in 1 .. n + 1 :
                         queueDepthTimeline'[i].depth[t]
                           <= maxQueueBacklog'[t]
                    /\ \/ maxQueueBacklog'[t] = 0
                       \/ \E i \in 1 .. n + 1 :
                            queueDepthTimeline'[i].depth[t]
                              = maxQueueBacklog'[t]
                    /\ Backlog(t)' <= maxQueueBacklog'[t]
  BY <1>1 DEF PeakRecorded
<1>3. /\ Backlog(t) \in Nat /\ maxQueueBacklog[t] \in Nat
      /\ Backlog(t)' = Backlog(t)
      /\ SnapshotBacklog[t] = Backlog(t)
      /\ maxQueueBacklog'[t] = AtLeast(maxQueueBacklog[t], Backlog(t))
  BY BacklogTyped
     DEF TypeOK, TelemetryTypeOK, Backlog, SnapshotBacklog, RecordBacklog
<1>4. /\ \A i \in 1 .. n :
           queueDepthTimeline[i].depth[t] <= maxQueueBacklog[t]
      /\ \/ maxQueueBacklog[t] = 0
         \/ \E i \in 1 .. n :
              queueDepthTimeline[i].depth[t] = maxQueueBacklog[t]
  BY <1>1 DEF PeakRecorded
<1>5. \A i \in 1 .. n + 1 : i \in 1 .. n \/ i = n + 1
  BY <1>1, LogGrows
<1>6. \A i \in 1 .. n + 1 :
        queueDepthTimeline'[i].depth[t] <= maxQueueBacklog'[t]
  BY <1>1, <1>2, <1>3, <1>4, <1>5 DEF AtLeast
<1>7. \/ maxQueueBacklog'[t] = 0
      \/ \E i \in 1 .. n + 1 :
           queueDepthTimeline'[i].depth[t] = maxQueueBacklog'[t]
  <2>1. CASE maxQueueBacklog'[t] = maxQueueBacklog[t]
    <3>1. \A i \in 1 .. n : i \in 1 .. n + 1
      BY <1>1
    <3>2. QED
      BY <1>1, <1>4, <2>1, <3>1
  <2>2. CASE maxQueueBacklog'[t] = Backlog(t)
    <3>1. n + 1 \in 1 .. n + 1
      BY <1>1
    <3>2. QED
      BY <1>1, <1>3, <2>2, <3>1
  <2>3. QED
    BY <1>3, <2>1, <2>2 DEF AtLeast
<1>8. QED
  BY <1>3, <1>6, <1>7 DEF AtLeast

(* Where no sample is taken the peaks stay, and the queues grow only among *)
(* the arrivals.                                                           *)
LEMMA PeakStep == TypeOK /\ PeakRecorded /\ [Next]_vars => PeakRecorded'
<1> SUFFICES ASSUME TypeOK, PeakRecorded, [Next]_vars PROVE PeakRecorded'
  OBVIOUS
<1>1. ASSUME UNCHANGED <<queueDepthTimeline, maxQueueBacklog>>,
             \A t \in Task :
               pc' # "arrivals"
                 => pc # "arrivals" /\ Backlog(t)' <= Backlog(t)
      PROVE  PeakRecorded'
  <2>1. \A t \in Task : /\ Backlog(t) \in Nat /\ maxQueueBacklog[t] \in Nat
                        /\ Backlog(t)' \in Nat
    BY TypeStep, BacklogTyped DEF TypeOK, TelemetryTypeOK, Queues, Backlog
  <2>2. QED
    BY <1>1, <2>1 DEF PeakRecorded
<1>2. ASSUME NEW t \in Task, SkipTask(t) \/ Enqueue(t)
      PROVE  PeakRecorded'
  BY <1>1, <1>2
     DEF SkipTask, Enqueue, NextToEmit, controlVars, telemetryVars
<1>3. CASE BeginShedding
  <2>1. PICK stage \in Stages : RecordBacklog(cycle, stage)
    BY <1>3 DEF BeginShedding, Stages
  <2>2. QED
    BY <1>3, <2>1, SamplePeaks DEF BeginShedding, BeginWalk
<1>4. CASE EndShedding
  <2>1. PICK stage \in Stages : RecordBacklog(cycle, stage)
    BY <1>4 DEF EndShedding, Stages
  <2>2. QED
    BY <1>4, <2>1, SamplePeaks DEF EndShedding, sheddingVars
<1>5. ASSUME UNCHANGED <<queueDepthTimeline, maxQueueBacklog>>,
             pc # "arrivals", UNCHANGED queue
      PROVE  PeakRecorded'
  <2>1. \A t \in Task : Backlog(t)' <= Backlog(t)
    BY <1>5, BacklogTyped DEF TypeOK, Backlog
  <2>2. QED
    BY <1>1, <1>5, <2>1
<1>6. ASSUME UNCHANGED <<queueDepthTimeline, maxQueueBacklog>>,
             pc # "arrivals", NEW t \in Task, RemoveOldest(t)
      PROVE  PeakRecorded'
  <2>1. \A s \in Task : Backlog(s) \in Nat
    BY BacklogTyped DEF TypeOK
  <2>2. \A s \in Task : Backlog(s)' <= Backlog(s)
    BY <1>6, <2>1, RemoveOldestEffect DEF TypeOK, Backlog
  <2>3. QED
    BY <1>1, <1>6, <2>2
<1>7. ASSUME NEW t \in Task, PassByTask(t) PROVE PeakRecorded'
  BY <1>5, <1>7 DEF PassByTask, PassBy, telemetryVars
<1>8. ASSUME NEW t \in Task, ShedTask(t) PROVE PeakRecorded'
  BY <1>6, <1>8 DEF ShedTask, Shed
<1>9. ASSUME NEW t \in Task, Schedule(t) PROVE PeakRecorded'
  BY <1>6, <1>9 DEF Schedule
<1>10. ASSUME NEW latency \in Latencies, WorkerReturns(latency)
       PROVE  PeakRecorded'
  <2>1. PICK f \in inFlight : RecordExecution(f, latency, cycle)
    BY <1>10 DEF WorkerReturns
  <2>2. f.task \in Task
    BY DEF TypeOK, Frame
  <2>3. /\ pc # "arrivals" /\ maxQueueBacklog \in [Task -> Nat]
        /\ Backlog(f.task) \in Nat
        /\ Backlog(f.task) <= maxQueueBacklog[f.task]
    BY <1>10, <2>2, BacklogTyped
       DEF WorkerReturns, PeakRecorded, TypeOK, TelemetryTypeOK
  <2>4. AtLeast(maxQueueBacklog[f.task], Backlog(f.task))
          = maxQueueBacklog[f.task]
    BY <2>2, <2>3 DEF AtLeast
  <2>5. maxQueueBacklog' = maxQueueBacklog
    BY <2>1, <2>2, <2>3, <2>4 DEF RecordExecution
  <2>6. QED
    BY <1>5, <1>10, <2>3, <2>5 DEF WorkerReturns
<1>11. CASE WorkerRaises \/ NothingToExecute
  BY <1>5, <1>11 DEF WorkerRaises, NothingToExecute, telemetryVars
<1>12. CASE UNCHANGED vars
  BY <1>12 DEF vars, telemetryVars, PeakRecorded, Backlog
<1>13. QED
  BY <1>2, <1>3, <1>4, <1>7, <1>8, <1>9, <1>10, <1>11, <1>12 DEF Next

(* The max_queue_backlog of the report is the deepest sample of its queue, *)
(* and no queue is deeper outside the arrivals of a cycle.                 *)
THEOREM RuntimePeakRecorded == Spec => []PeakRecorded
<1>1. Started => TypeOK /\ PeakRecorded
  <2> SUFFICES ASSUME Started PROVE TypeOK /\ PeakRecorded
    OBVIOUS
  <2>1. \A t \in Task : Backlog(t) = 0
    BY EmptySeq DEF Started, QueuesInit, Backlog
  <2>2. DOMAIN queueDepthTimeline = {}
    BY EmptySeq DEF Started, TelemetryInit
  <2>3. QED
    BY TypeInit, <2>1, <2>2 DEF Started, TelemetryInit, PeakRecorded
<1>2. QED
  BY StartedInit, <1>1, TypeStep, PeakStep, PTL DEF Spec

-----------------------------------------------------------------------------
(***************************************************************************)
(* The order of shedding.                                                  *)
(***************************************************************************)
\* During a walk, the queues against the sample taken before it: what the
\* walk has passed has lost a frame if it had one, the rest nothing.
WalkInv ==
  pc = "shed" =>
    LET n == Len(queueDepthTimeline)
        before == queueDepthTimeline[n].depth
    IN  \A s \in Task :
          /\ before[s] \in Nat
          /\ s \in toVisit \cup protected => Backlog(s) = before[s]
          /\ s \notin toVisit \cup protected
               => Backlog(s) = AtLeast(0, before[s] - 1)

(* Every step of the walk takes one frame, or finds none to take.          *)
LEMMA WalkStep == TypeOK /\ WalkInv /\ [Next]_vars => WalkInv'
<1> SUFFICES ASSUME TypeOK, WalkInv, [Next]_vars PROVE WalkInv'
  OBVIOUS
<1> USE DEF WalkInv
<1>1. \A s \in Task : Backlog(s) \in Nat
  BY BacklogTyped DEF TypeOK
<1>2. CASE BeginShedding
  <2>1. PICK stage \in Stages : RecordBacklog(cycle, stage)
    BY <1>2 DEF BeginShedding, Stages
  <2>2. queueDepthTimeline'[Len(queueDepthTimeline')].depth = SnapshotBacklog
    BY <2>1, SampleAppended
  <2>3. \A s \in Task : /\ s \in toVisit' /\ Backlog(s)' = Backlog(s)
                        /\ SnapshotBacklog[s] = Backlog(s)
    BY <1>2 DEF BeginShedding, BeginWalk, Backlog, SnapshotBacklog
  <2>4. QED
    BY <1>1, <2>2, <2>3
<1>3. ASSUME NEW t \in Task, PassByTask(t) PROVE WalkInv'
  <2>1. /\ pc = "shed" /\ t \in toVisit /\ toVisit' = toVisit \ {t}
        /\ t \in protected \/ queue[t] = <<>>
        /\ UNCHANGED <<pc, queue, protected, queueDepthTimeline>>
    BY <1>3 DEF PassByTask, PassBy, NextLowFirst, controlVars, telemetryVars
  <2>2. /\ \A s \in Task : Backlog(s)' = Backlog(s)
        /\ t \in protected \/ Backlog(t) = 0
    BY <2>1, BacklogTyped DEF TypeOK, Backlog
  <2>3. QED
    BY <1>1, <2>1, <2>2 DEF AtLeast
<1>4. ASSUME NEW t \in Task, ShedTask(t) PROVE WalkInv'
  <2>1. /\ pc = "shed" /\ t \in toVisit /\ toVisit' = toVisit \ {t}
        /\ t \notin protected /\ RemoveOldest(t)
        /\ UNCHANGED <<pc, protected, queueDepthTimeline>>
    BY <1>4 DEF ShedTask, Shed, NextLowFirst, controlVars
  <2>2. /\ Backlog(t) >= 1 /\ Backlog(t)' = Backlog(t) - 1
        /\ \A s \in Task \ {t} : Backlog(s)' = Backlog(s)
    BY <2>1, RemoveOldestEffect DEF TypeOK, Backlog
  <2>3. QED
    BY <1>1, <2>1, <2>2 DEF AtLeast
<1>5. ASSUME NEW t \in Task, SkipTask(t) \/ Enqueue(t) PROVE WalkInv'
  BY <1>5 DEF SkipTask, Enqueue, NextToEmit, controlVars
<1>6. CASE EndShedding
  BY <1>6 DEF EndShedding
<1>7. ASSUME NEW t \in Task, Schedule(t) PROVE WalkInv'
  BY <1>7 DEF Schedule
<1>8. ASSUME NEW latency \in Latencies, WorkerReturns(latency)
      PROVE  WalkInv'
  BY <1>8 DEF WorkerReturns, Continue
<1>9. CASE WorkerRaises \/ NothingToExecute
  BY <1>9 DEF WorkerRaises, NothingToExecute, Continue
<1>10. CASE UNCHANGED vars
  BY <1>10 DEF vars, telemetryVars, Backlog
<1>11. QED
  BY <1>2, <1>3, <1>4, <1>5, <1>6, <1>7, <1>8, <1>9, <1>10 DEF Next

SheddingIInv ==
  TypeOK /\ ProtectedIsHighest /\ ProtectedExists /\ WalkInv

(* What a walk relies on holds from the start                              *)
LEMMA SheddingInit == Started => SheddingIInv
BY TypeInit
   DEF Started, SheddingIInv, ProtectedIsHighest, ProtectedExists, WalkInv

(* and after every step.                                                   *)
LEMMA SheddingStep == SheddingIInv /\ [Next]_vars => SheddingIInv'
BY TypeStep, ProtectedIsHighestStep, ProtectedExistsStep, WalkStep
   DEF SheddingIInv

(* So it holds throughout a run.                                           *)
LEMMA SheddingInvariant == Spec => []SheddingIInv
BY StartedInit, SheddingInit, SheddingStep, PTL DEF Spec

(* What the policy takes of t leaves a task that t does not outrank with   *)
(* all its frames, and comes after one frame of every task ranked below t. *)
LEMMA ShedTakesLowest ==
  ASSUME SheddingIInv, NEW t \in Task, ShedTask(t)
  PROVE  LET n == Len(queueDepthTimeline)
             before == queueDepthTimeline[n].depth
         IN  /\ \E p \in NonEmptyTasks \ {t} :
                  /\ config.priority[p] >= config.priority[t]
                  /\ Backlog(p) = before[p]
             /\ \A s \in Task :
                  config.priority[s] < config.priority[t]
                    => Backlog(s) = AtLeast(0, before[s] - 1)
<1>1. /\ pc = "shed" /\ OverThreshold /\ NextLowFirst(t)
      /\ t \notin protected /\ queue[t] # <<>>
      /\ config.priority \in [Task -> Nat] /\ protected \subseteq Task
      /\ toVisit \subseteq Task
  BY ConfigTyped DEF ShedTask, Shed, RemoveOldest, SheddingIInv, TypeOK
<1>2. PICK p \in protected : p \in Task
  BY <1>1 DEF SheddingIInv, ProtectedExists
<1>3. /\ p \in NonEmptyTasks \ {t}
      /\ config.priority[t] <= config.priority[p]
  BY <1>1, <1>2 DEF SheddingIInv, ProtectedIsHighest, NonEmptyTasks
<1>4. ASSUME NEW s \in Task, config.priority[s] < config.priority[t]
      PROVE  s \notin toVisit \cup protected
  <2>1. s \notin toVisit
    BY <1>1, <1>4 DEF NextLowFirst, LowFirst
  <2>2. s \notin protected
    BY <1>1, <1>4 DEF SheddingIInv, ProtectedIsHighest, NonEmptyTasks
  <2>3. QED
    BY <2>1, <2>2
<1>5. QED
  BY <1>1, <1>2, <1>3, <1>4 DEF SheddingIInv, WalkInv

(* A walk of the policy sheds from the lowest priorities first, and never  *)
(* from the task with the most urgent backlog.                             *)
THEOREM RuntimeShedsLowestFirst == Spec => ShedsLowestFirst
<1> DEFINE Lowest ==
      pc = "shed" /\ dropEvents' # dropEvents
        => LET before == queueDepthTimeline[Len(queueDepthTimeline)].depth
           IN  \A t \in Task : queue'[t] # queue[t]
                 => /\ \E p \in NonEmptyTasks \ {t} :
                         /\ config.priority[p] >= config.priority[t]
                         /\ Backlog(p) = before[p]
                    /\ \A s \in Task :
                         config.priority[s] < config.priority[t]
                           => Backlog(s) = AtLeast(0, before[s] - 1)
<1>1. ASSUME SheddingIInv, [Next]_vars PROVE Lowest
  <2> SUFFICES ASSUME pc = "shed", dropEvents' # dropEvents,
                      NEW t \in Task, queue'[t] # queue[t]
               PROVE  ShedTask(t)
    BY <1>1, ShedTakesLowest
  <2>1. \E s \in Task : ShedTask(s)
    BY <1>1 DEF Next, SkipTask, Enqueue, NextToEmit, BeginShedding,
                PassByTask, EndShedding, Schedule, WorkerReturns,
                WorkerRaises, NothingToExecute, telemetryVars, vars
  <2>2. PICK s \in Task : ShedTask(s)
    BY <2>1
  <2>3. \A r \in Task \ {s} : queue'[r] = queue[r]
    BY <1>1, <2>2, RemoveOldestEffect
       DEF ShedTask, Shed, SheddingIInv, TypeOK
  <2>4. QED
    BY <2>2, <2>3
<1>2. SheddingIInv /\ [Next]_vars => [Lowest]_vars
  BY <1>1
<1>3. QED
  BY SheddingInvariant, <1>2, PTL DEF Spec, ShedsLowestFirst

\* The places of the entries of t in each log.
Results(t) == {i \in DOMAIN resultEvents : resultEvents[i].frame.task = t}
Drops(t) == {i \in DOMAIN dropEvents : dropEvents[i].frame.task = t}
Limitings(t) == {i \in DOMAIN policyDecisions : policyDecisions[i].limited = t}

\* Where a decision is justified, with the configuration as it is.
Justified(d, t) ==
  /\ d.totalBefore > config.threshold
  /\ d.depth[t] > 0
  /\ \E p \in d.protected \ {t} :
       /\ d.depth[p] > 0
       /\ config.priority[p] >= config.priority[t]

\* EvidenceConsistent, one part for each log.
ResultsCounted == \A t \in Task : executed[t] = Cardinality(Results(t))
DropsCounted == \A t \in Task : dropped[t] = Cardinality(Drops(t))
DecisionsCounted ==
  \A t \in Task :
    /\ Cardinality(LoadSheds(t)) = Cardinality(Limitings(t))
    /\ fallbackUsed[t] = IF config.fallback[t]
                           THEN Cardinality(Limitings(t)) ELSE 0
    /\ \A i \in Limitings(t) : Justified(policyDecisions[i], t)

(* The parts are EvidenceConsistent.                                       *)
LEMMA EvidenceParts ==
  ResultsCounted /\ DropsCounted /\ DecisionsCounted => EvidenceConsistent
BY DEF ResultsCounted, DropsCounted, DecisionsCounted, EvidenceConsistent,
       Results, Drops, Limitings, Justified

(* A result is counted for the task of its frame.                          *)
LEMMA ExecutionCounted ==
  ASSUME TypeOK, ResultsCounted, NEW f \in Frame, NEW latency,
         RecordExecution(f, latency, cycle)
  PROVE  ResultsCounted'
<1> DEFINE e == [frame |-> f, delay |-> SchedulerDelayCycles(f, cycle)]
           n == Len(resultEvents)
<1>1. /\ resultEvents \in Seq(ResultEvent)
      /\ resultEvents' = Append(resultEvents, e)
      /\ executed \in [Task -> Nat] /\ f.task \in Task
      /\ executed' = [executed EXCEPT ![f.task] = @ + 1]
  BY DEF TypeOK, TelemetryTypeOK, RecordExecution, Frame
<1>2. e \in ResultEvent /\ e.frame.task = f.task
  BY DEF ResultEvent, SchedulerDelayCycles, AtLeast, TypeOK, Frame
<1> HIDE DEF e
<1>3. /\ n \in Nat /\ DOMAIN resultEvents = 1 .. n
      /\ DOMAIN resultEvents' = 1 .. n + 1
      /\ \A i \in 1 .. n : resultEvents'[i] = resultEvents[i]
      /\ resultEvents'[n + 1] = e
  BY <1>1, <1>2, LenProperties, AppendProperties
<1> HIDE DEF n
<1> SUFFICES ASSUME NEW t \in Task
             PROVE  executed'[t] = Cardinality(Results(t)')
  BY DEF ResultsCounted
<1>4. /\ Results(t) \in SUBSET (1 .. n)
      /\ Results(t)' \in SUBSET (1 .. n + 1)
      /\ \A i \in 1 .. n : i \in Results(t)' <=> i \in Results(t)
      /\ n + 1 \in Results(t)' <=> t = f.task
  BY <1>2, <1>3 DEF Results
<1>5. /\ t = f.task => Cardinality(Results(t)') = Cardinality(Results(t)) + 1
      /\ t # f.task => Cardinality(Results(t)') = Cardinality(Results(t))
  BY <1>3, <1>4, CountAppended
<1>6. executed[t] = Cardinality(Results(t))
  BY DEF ResultsCounted
<1>7. QED
  BY <1>1, <1>5, <1>6

(* A drop is counted for the task of its frame, and among the load sheds   *)
(* of the task by its reason.                                              *)
LEMMA DropCounted ==
  ASSUME TypeOK, DropsCounted, NEW f \in Frame, NEW r \in DropReasons,
         RecordDrop(f, r)
  PROVE  /\ DropsCounted'
         /\ \A t \in Task :
              Cardinality(LoadSheds(t)') =
                IF /\ t = f.task
                   /\ r = "load_shedding_backlog_threshold_exceeded"
                  THEN Cardinality(LoadSheds(t)) + 1
                  ELSE Cardinality(LoadSheds(t))
<1> DEFINE e == [frame |-> f, reason |-> r]
           n == Len(dropEvents)
<1>1. /\ dropEvents \in Seq(DropEvent)
      /\ dropEvents' = Append(dropEvents, e)
      /\ dropped \in [Task -> Nat] /\ f.task \in Task
      /\ dropped' = [dropped EXCEPT ![f.task] = @ + 1]
  BY DEF TypeOK, TelemetryTypeOK, RecordDrop, Frame
<1>2. e \in DropEvent /\ e.frame.task = f.task /\ e.reason = r
  BY DEF DropEvent
<1> HIDE DEF e
<1>3. /\ n \in Nat /\ DOMAIN dropEvents = 1 .. n
      /\ DOMAIN dropEvents' = 1 .. n + 1
      /\ \A i \in 1 .. n : dropEvents'[i] = dropEvents[i]
      /\ dropEvents'[n + 1] = e
  BY <1>1, <1>2, LenProperties, AppendProperties
<1> HIDE DEF n
<1>4. ASSUME NEW t \in Task PROVE dropped'[t] = Cardinality(Drops(t)')
  <2>1. /\ Drops(t) \in SUBSET (1 .. n)
        /\ Drops(t)' \in SUBSET (1 .. n + 1)
        /\ \A i \in 1 .. n : i \in Drops(t)' <=> i \in Drops(t)
        /\ n + 1 \in Drops(t)' <=> t = f.task
    BY <1>2, <1>3 DEF Drops
  <2>2. /\ t = f.task => Cardinality(Drops(t)') = Cardinality(Drops(t)) + 1
        /\ t # f.task => Cardinality(Drops(t)') = Cardinality(Drops(t))
    BY <1>3, <2>1, CountAppended
  <2>3. dropped[t] = Cardinality(Drops(t))
    BY DEF DropsCounted
  <2>4. QED
    BY <1>1, <2>2, <2>3
<1>5. ASSUME NEW t \in Task
      PROVE  Cardinality(LoadSheds(t)') =
               IF /\ t = f.task
                  /\ r = "load_shedding_backlog_threshold_exceeded"
                 THEN Cardinality(LoadSheds(t)) + 1
                 ELSE Cardinality(LoadSheds(t))
  <2>1. /\ LoadSheds(t) \in SUBSET (1 .. n)
        /\ LoadSheds(t)' \in SUBSET (1 .. n + 1)
        /\ \A i \in 1 .. n : i \in LoadSheds(t)' <=> i \in LoadSheds(t)
        /\ n + 1 \in LoadSheds(t)'
             <=> t = f.task /\ r = "load_shedding_backlog_threshold_exceeded"
    BY <1>2, <1>3 DEF LoadSheds
  <2>2. QED
    BY <1>3, <2>1, CountAppended
<1>6. QED
  BY <1>4, <1>5 DEF DropsCounted

(* The policy's decision is recorded at its drop, and is justified by the  *)
(* queues as they were.                                                    *)
LEMMA ShedEvidence ==
  ASSUME SheddingIInv, OwnFrames, DropsCounted, DecisionsCounted,
         NEW t \in Task, ShedTask(t)
  PROVE  DropsCounted' /\ DecisionsCounted'
<1> DEFINE d == [protected |-> protected, limited |-> t,
                 totalBefore |-> TotalBacklog, depth |-> SnapshotBacklog,
                 fallbackUsed |-> config.fallback[t]]
           n == Len(policyDecisions)
           f == Head(queue[t])
           shed == "load_shedding_backlog_threshold_exceeded"
<1>1. /\ TypeOK /\ config' = config /\ OverThreshold
      /\ queue[t] \in Seq(Frame) /\ queue[t] # <<>>
      /\ f \in Frame /\ shed \in DropReasons /\ RecordDrop(f, shed)
  BY HeadIsFrame
     DEF SheddingIInv, ShedTask, Shed, RemoveOldest, controlVars, TypeOK,
         Queues, DropReasons
<1>2. f.task = t
  BY <1>1, HeadElement DEF OwnFrames
<1>3. /\ DropsCounted'
      /\ \A s \in Task : Cardinality(LoadSheds(s)') =
                           IF s = t THEN Cardinality(LoadSheds(s)) + 1
                                    ELSE Cardinality(LoadSheds(s))
  BY <1>1, <1>2, DropCounted
<1>4. /\ policyDecisions \in Seq(Decision)
      /\ policyDecisions' = Append(policyDecisions, d)
      /\ fallbackUsed \in [Task -> Nat]
      /\ fallbackUsed' =
           [fallbackUsed EXCEPT ![t] = IF config.fallback[t] THEN @ + 1
                                                             ELSE @]
  BY <1>1 DEF TypeOK, TelemetryTypeOK, ShedTask, RecordPolicyDecision
<1>5. d \in Decision
  <2>1. \A s \in Task : Backlog(s) \in Nat
    BY <1>1, BacklogTyped DEF TypeOK
  <2>2. TotalBacklog \in Nat /\ config.fallback[t] \in BOOLEAN
    BY <1>1, EntriesTyped, ConfigTyped DEF TypeOK
  <2>3. QED
    BY <1>1, <2>1, <2>2 DEF Decision, SnapshotBacklog, TypeOK
<1>6. d.limited = t /\ Justified(d, t)
  <2>1. /\ d.totalBefore > config.threshold
        /\ d.depth[t] > 0
    BY <1>1, BacklogTyped
       DEF OverThreshold, SnapshotBacklog, TypeOK, Backlog
  <2>2. PICK p \in protected : p \in Task
    BY <1>1 DEF SheddingIInv, ProtectedExists, ShedTask, TypeOK
  <2>3. /\ queue[p] # <<>> /\ p # t
        /\ config.priority[t] <= config.priority[p]
    BY <1>1, <2>2
       DEF SheddingIInv, ProtectedIsHighest, NonEmptyTasks, ShedTask, Shed
  <2>4. d.depth[p] > 0 /\ config.priority[p] >= config.priority[t]
    BY <1>1, <2>2, <2>3, BacklogTyped, ConfigTyped
       DEF SnapshotBacklog, TypeOK, Backlog
  <2>5. QED
    BY <2>1, <2>2, <2>3, <2>4 DEF Justified
<1> HIDE DEF d
<1>7. /\ n \in Nat /\ DOMAIN policyDecisions = 1 .. n
      /\ DOMAIN policyDecisions' = 1 .. n + 1
      /\ \A i \in 1 .. n : policyDecisions'[i] = policyDecisions[i]
      /\ policyDecisions'[n + 1] = d
  BY <1>4, <1>5, LenProperties, AppendProperties
<1> HIDE DEF n
<1>8. ASSUME NEW s \in Task
      PROVE  /\ Cardinality(LoadSheds(s)') = Cardinality(Limitings(s)')
             /\ fallbackUsed'[s] = IF config.fallback[s]
                                     THEN Cardinality(Limitings(s)') ELSE 0
             /\ \A i \in Limitings(s)' : Justified(policyDecisions'[i], s)
  <2>1. /\ Limitings(s) \in SUBSET (1 .. n)
        /\ Limitings(s)' \in SUBSET (1 .. n + 1)
        /\ \A i \in 1 .. n : i \in Limitings(s)' <=> i \in Limitings(s)
        /\ n + 1 \in Limitings(s)' <=> s = t
    BY <1>6, <1>7 DEF Limitings
  <2>2. /\ s = t => Cardinality(Limitings(s)')
                      = Cardinality(Limitings(s)) + 1
        /\ s # t => Cardinality(Limitings(s)') = Cardinality(Limitings(s))
    BY <1>7, <2>1, CountAppended
  <2>3. /\ Cardinality(LoadSheds(s)) = Cardinality(Limitings(s))
        /\ fallbackUsed[s] = IF config.fallback[s]
                               THEN Cardinality(Limitings(s)) ELSE 0
        /\ \A i \in Limitings(s) : Justified(policyDecisions[i], s)
    BY DEF DecisionsCounted
  <2>4. \A i \in Limitings(s)' : Justified(policyDecisions'[i], s)
    <3>1. \A i \in Limitings(s)' :
            \/ i \in Limitings(s) /\ policyDecisions'[i] = policyDecisions[i]
            \/ s = t /\ policyDecisions'[i] = d
      BY <1>7, <2>1, LogGrows
    <3>2. QED
      BY <1>6, <2>3, <3>1
  <2>5. QED
    BY <1>3, <1>4, <2>2, <2>3, <2>4
<1>9. QED
  BY <1>1, <1>3, <1>8 DEF DecisionsCounted, Justified

(* An overflow is a drop, and no load shed.                                *)
LEMMA EnqueueEvidence ==
  ASSUME AccountIInv, ResultsCounted, DropsCounted, DecisionsCounted,
         NEW t \in Task, Enqueue(t)
  PROVE  ResultsCounted' /\ DropsCounted' /\ DecisionsCounted'
<1>1. /\ TypeOK
      /\ UNCHANGED <<config, executed, resultEvents, fallbackUsed,
                     policyDecisions>>
  BY DEF AccountIInv, Enqueue, controlVars
<1>2. ResultsCounted'
  BY <1>1 DEF ResultsCounted, Results
<1>3. ASSUME DropsCounted',
             \A s \in Task :
               Cardinality(LoadSheds(s)') = Cardinality(LoadSheds(s))
      PROVE  DropsCounted' /\ DecisionsCounted'
  BY <1>1, <1>3 DEF DecisionsCounted, Limitings, Justified
<1>4. ASSUME UNCHANGED <<dropped, dropEvents>>
      PROVE  DropsCounted' /\ DecisionsCounted'
  BY <1>3, <1>4 DEF DropsCounted, Drops, LoadSheds
<1>5. ASSUME NEW f \in Frame, NEW r \in DropReasons, RecordDrop(f, r),
             r # "load_shedding_backlog_threshold_exceeded"
      PROVE  DropsCounted' /\ DecisionsCounted'
  BY <1>1, <1>3, <1>5, DropCounted
<1>6. QED
  <2>1. \/ UNCHANGED <<dropped, dropEvents>>
        \/ /\ Head(queue[t]) \in Frame
           /\ RecordDrop(Head(queue[t]), "queue_overflow_drop_oldest")
        \/ /\ NewFrame(t) \in Frame
           /\ RecordDrop(NewFrame(t), "queue_overflow_drop_newest")
    <3>1. AcceptEvictingOldest(NewFrame(t)) => Head(queue[t]) \in Frame
      BY <1>1, NewFrameTyped, EvictEffect, HeadIsFrame DEF TypeOK
    <3>2. QED
      BY <1>1, <3>1, NewFrameTyped DEF Enqueue
  <2>2. /\ "queue_overflow_drop_oldest" \in DropReasons
        /\ "queue_overflow_drop_newest" \in DropReasons
    BY DEF DropReasons
  <2>3. QED
    BY <1>2, <1>4, <1>5, <2>1, <2>2

EvidenceIInv ==
  AccountIInv /\ SheddingIInv /\ ResultsCounted /\ DropsCounted
    /\ DecisionsCounted

(* Every step keeps the counters and the logs together.                    *)
LEMMA EvidenceStep ==
  EvidenceIInv /\ [Next]_vars
    => ResultsCounted' /\ DropsCounted' /\ DecisionsCounted'
<1> SUFFICES ASSUME EvidenceIInv, [Next]_vars
             PROVE  ResultsCounted' /\ DropsCounted' /\ DecisionsCounted'
  OBVIOUS
<1>1. ASSUME UNCHANGED <<config, dropped, fallbackUsed, dropEvents,
                         policyDecisions>>
      PROVE  DropsCounted' /\ DecisionsCounted'
  BY <1>1 DEF EvidenceIInv, DropsCounted, DecisionsCounted, Drops, LoadSheds,
              Limitings, Justified
<1>2. ASSUME UNCHANGED <<executed, resultEvents>> PROVE ResultsCounted'
  BY <1>2 DEF EvidenceIInv, ResultsCounted, Results
<1>3. ASSUME NEW t \in Task,
             SkipTask(t) \/ PassByTask(t) \/ Schedule(t)
      PROVE  ResultsCounted' /\ DropsCounted' /\ DecisionsCounted'
  BY <1>1, <1>2, <1>3
     DEF SkipTask, PassByTask, Schedule, controlVars, telemetryVars
<1>4. CASE BeginShedding \/ EndShedding \/ WorkerRaises \/ NothingToExecute
  BY <1>1, <1>2, <1>4
     DEF BeginShedding, EndShedding, WorkerRaises, NothingToExecute,
         telemetryVars
<1>5. CASE UNCHANGED vars
  BY <1>1, <1>2, <1>5 DEF vars, telemetryVars
<1>6. ASSUME NEW t \in Task, Enqueue(t)
      PROVE  ResultsCounted' /\ DropsCounted' /\ DecisionsCounted'
  BY <1>6, EnqueueEvidence DEF EvidenceIInv
<1>7. ASSUME NEW t \in Task, ShedTask(t)
      PROVE  ResultsCounted' /\ DropsCounted' /\ DecisionsCounted'
  <2>1. DropsCounted' /\ DecisionsCounted'
    BY <1>7, ShedEvidence DEF EvidenceIInv, AccountIInv
  <2>2. QED
    BY <1>2, <1>7, <2>1 DEF ShedTask
<1>8. ASSUME NEW latency \in Latencies, WorkerReturns(latency)
      PROVE  ResultsCounted' /\ DropsCounted' /\ DecisionsCounted'
  <2>1. PICK f \in Frame : RecordExecution(f, latency, cycle)
    BY <1>8, FrameOfWorker DEF EvidenceIInv, AccountIInv
  <2>2. ResultsCounted'
    BY <2>1, ExecutionCounted DEF EvidenceIInv, AccountIInv
  <2>3. QED
    BY <1>1, <1>8, <2>2 DEF WorkerReturns
<1>9. QED
  BY <1>3, <1>4, <1>5, <1>6, <1>7, <1>8 DEF Next

(* Nothing is counted at the start.                                        *)
LEMMA EvidenceInit == Started => EvidenceIInv
<1> SUFFICES ASSUME Started PROVE EvidenceIInv
  OBVIOUS
<1>1. /\ DOMAIN resultEvents = {} /\ DOMAIN dropEvents = {}
      /\ DOMAIN policyDecisions = {}
  BY EmptySeq DEF Started, TelemetryInit
<1>2. \A t \in Task : /\ Results(t) = {} /\ Drops(t) = {}
                      /\ LoadSheds(t) = {} /\ Limitings(t) = {}
  BY <1>1 DEF Results, Drops, LoadSheds, Limitings
<1>3. ResultsCounted /\ DropsCounted /\ DecisionsCounted
  BY <1>2, FS_EmptySet
     DEF Started, TelemetryInit, ResultsCounted, DropsCounted,
         DecisionsCounted
<1>4. QED
  BY <1>3, AccountInit, SheddingInit DEF EvidenceIInv

(* Every step keeps all that the evidence rests on.                        *)
LEMMA EvidenceKept == EvidenceIInv /\ [Next]_vars => EvidenceIInv'
BY AccountStep, SheddingStep, EvidenceStep DEF EvidenceIInv

(* The counters of the report agree with its logs, and each frame the      *)
(* policy drops has its own decision, taken above the threshold in favour  *)
(* of a backlogged task of no lower priority.                              *)
THEOREM RuntimeEvidenceConsistent == Spec => []EvidenceConsistent
<1>1. EvidenceIInv => EvidenceConsistent
  BY EvidenceParts DEF EvidenceIInv
<1>2. QED
  BY StartedInit, EvidenceInit, EvidenceKept, <1>1, PTL DEF Spec

-----------------------------------------------------------------------------
(***************************************************************************)
(* The pressure windows.                                                   *)
(***************************************************************************)
(* The total depth of a sample is a number.                                *)
LEMMA DepthTyped ==
  ASSUME TypeOK, NEW i \in DOMAIN queueDepthTimeline
  PROVE  /\ queueDepthTimeline[i] \in DepthSample
         /\ DepthAt(i) \in Nat
<1>1. queueDepthTimeline \in Seq(DepthSample)
  BY DEF TypeOK, TelemetryTypeOK
<1>2. queueDepthTimeline[i] \in DepthSample
  BY <1>1
<1>3. queueDepthTimeline[i].depth \in [Task -> Nat]
  BY <1>2 DEF DepthSample
<1>4. DepthAt(i) \in Nat
  BY <1>3, SumTyped, TaskAssumption DEF DepthAt
<1>5. QED
  BY <1>2, <1>4

(* A window spans the sample that opens it, and its peak is the first of   *)
(* its greatest depths.                                                    *)
LEMMA WindowPeak ==
  ASSUME TypeOK, NEW i \in DOMAIN queueDepthTimeline, Opens(i)
  PROVE  /\ Span(i) \in SUBSET DOMAIN queueDepthTimeline
         /\ i \in Span(i) /\ IsFiniteSet(Span(i))
         /\ \E k \in Span(i) : \A j \in Span(i) :
              /\ DepthAt(j) <= DepthAt(k)
              /\ j < k => DepthAt(j) < DepthAt(k)
<1>1. /\ Len(queueDepthTimeline) \in Nat
      /\ DOMAIN queueDepthTimeline = 1 .. Len(queueDepthTimeline)
      /\ \A s \in SUBSET DOMAIN queueDepthTimeline : IsFiniteSet(s)
  BY PlacesOfLog DEF TypeOK, TelemetryTypeOK
<1>2. i \in Nat /\ InWindow(i)
  BY <1>1 DEF Opens
<1>3. Span(i) \in SUBSET DOMAIN queueDepthTimeline
  BY <1>1 DEF Span
<1>4. i \in Span(i)
  BY <1>1, <1>2 DEF Span
<1>5. IsFiniteSet(Span(i)) /\ Span(i) \in SUBSET Nat /\ Span(i) # {}
  BY <1>1, <1>3, <1>4
<1> DEFINE f == [k \in Span(i) |-> DepthAt(k)]
<1>6. DOMAIN f = Span(i) /\ \A k \in Span(i) : f[k] = DepthAt(k)
  OBVIOUS
<1>7. \A k \in Span(i) : DepthAt(k) \in Nat
  BY <1>3, DepthTyped
<1>8. \A k \in Span(i) : f[k] \in Nat
  BY <1>6, <1>7
<1>9. \E k \in Span(i) : \A j \in Span(i) : /\ f[j] <= f[k]
                                            /\ j < k => f[j] < f[k]
  <2> HIDE DEF f
  <2>1. QED
    BY <1>5, <1>6, <1>8, FirstGreatest
<1>10. QED
  BY <1>3, <1>4, <1>5, <1>6, <1>9

(* The entries of a window are what its samples are.                       *)
LEMMA WindowTyped ==
  ASSUME TypeOK, NEW i \in DOMAIN queueDepthTimeline, Opens(i)
  PROVE  /\ \E k \in Span(i) :
              /\ Window(i).peak = DepthAt(k)
              /\ Window(i).peakStage = queueDepthTimeline[k].stage
         /\ \A j \in Span(i) : DepthAt(j) <= Window(i).peak
         /\ Window(i).peak \in Nat
         /\ CycleCount(Window(i)) \in Nat
<1>1. /\ Span(i) \in SUBSET DOMAIN queueDepthTimeline
      /\ IsFiniteSet(Span(i))
  BY WindowPeak
<1> DEFINE Peak(k) == \A j \in Span(i) : /\ DepthAt(j) <= DepthAt(k)
                                         /\ j < k => DepthAt(j) < DepthAt(k)
<1>2. \E k \in Span(i) : Peak(k)
  BY WindowPeak
<1>3. PICK at : at = CHOOSE k \in Span(i) : Peak(k)
  OBVIOUS
<1>4. at \in Span(i) /\ Peak(at)
  <2> HIDE DEF Peak
  <2>1. QED
    BY <1>2, <1>3
<1>5. /\ Window(i).peak = DepthAt(at)
      /\ Window(i).peakStage = queueDepthTimeline[at].stage
      /\ Window(i).cycles = {queueDepthTimeline[k].cycle : k \in Span(i)}
  BY <1>3 DEF Window
<1>6. Window(i).peak \in Nat
  BY <1>1, <1>4, <1>5, DepthTyped
<1>7. Cardinality(Window(i).cycles) \in Nat
  <2> DEFINE f == [k \in Span(i) |-> queueDepthTimeline[k].cycle]
  <2>1. DOMAIN f = Span(i) /\ Window(i).cycles = {f[k] : k \in Span(i)}
    BY <1>5
  <2> HIDE DEF f
  <2>2. QED
    BY <1>1, <2>1, FiniteImage
<1>8. QED
  BY <1>4, <1>5, <1>6, <1>7 DEF CycleCount

(* The windows are finitely many, and what is reported of them are         *)
(* numbers.                                                                *)
LEMMA WindowsTyped ==
  ASSUME TypeOK
  PROVE  /\ Cardinality(PressureWindows) \in Nat
         /\ PeakWindowDepth \in Nat
         /\ PeakWindowDepth \in {0} \cup {w.peak : w \in PressureWindows}
         /\ \A w \in PressureWindows : w.peak <= PeakWindowDepth
         /\ LongestWindowCycles \in Nat
<1> DEFINE P == {k \in DOMAIN queueDepthTimeline : Opens(k)}
           f == [k \in P |-> Window(k)]
<1>1. IsFiniteSet(P)
  BY PlacesOfLog DEF TypeOK, TelemetryTypeOK
<1>2. DOMAIN f = P /\ PressureWindows = {f[k] : k \in P}
  BY DEF PressureWindows
<1>3. IsFiniteSet(PressureWindows) /\ Cardinality(PressureWindows) \in Nat
  <2> HIDE DEF f, P
  <2>1. QED
    BY <1>1, <1>2, FiniteImage
<1>4. \A w \in PressureWindows : w.peak \in Nat /\ CycleCount(w) \in Nat
  BY WindowTyped DEF PressureWindows
<1>5. /\ PeakWindowDepth \in Nat
      /\ PeakWindowDepth \in {0} \cup {w.peak : w \in PressureWindows}
      /\ \A w \in PressureWindows : w.peak <= PeakWindowDepth
  <2>1. PICK g : g = [w \in PressureWindows |-> w.peak]
    OBVIOUS
  <2>2. PICK M : M = {w.peak : w \in PressureWindows}
    OBVIOUS
  <2>3. g \in [PressureWindows -> Nat]
    BY <1>4, <2>1
  <2>4. M = {g[w] : w \in PressureWindows}
    BY <2>1, <2>2
  <2>5. /\ Max({0} \cup M) \in {0} \cup M
        /\ Max({0} \cup M) \in Nat
        /\ \A w \in PressureWindows : g[w] <= Max({0} \cup M)
    BY <1>3, <2>3, <2>4, MaxOfPlaces
  <2>6. PeakWindowDepth = Max({0} \cup M)
    BY <2>2 DEF PeakWindowDepth
  <2>7. QED
    BY <2>1, <2>2, <2>5, <2>6
<1>6. LongestWindowCycles \in Nat
  <2>1. PICK g : g = [w \in PressureWindows |-> CycleCount(w)]
    OBVIOUS
  <2>2. PICK M : M = {CycleCount(w) : w \in PressureWindows}
    OBVIOUS
  <2>3. g \in [PressureWindows -> Nat]
    BY <1>4, <2>1
  <2>4. M = {g[w] : w \in PressureWindows}
    BY <2>1, <2>2
  <2>5. Max({0} \cup M) \in Nat
    BY <1>3, <2>3, <2>4, MaxOfPlaces
  <2>6. QED
    BY <2>2, <2>5 DEF LongestWindowCycles
<1>7. QED
  BY <1>3, <1>5, <1>6

-----------------------------------------------------------------------------
(***************************************************************************)
(* What the summaries count.                                               *)
(***************************************************************************)
(* The decisions show numbers.                                             *)
LEMMA PressureTyped ==
  ASSUME TypeOK
  PROVE  /\ MaxTotalBacklogBefore \in Nat
         /\ MaxTotalBacklogBefore
              \in {0} \cup {d.totalBefore : d \in Decisions}
         /\ \A d \in Decisions : d.totalBefore <= MaxTotalBacklogBefore
         /\ MaxBacklogOverThreshold \in Nat
<1>1. /\ IsFiniteSet(DOMAIN policyDecisions)
      /\ \A i \in DOMAIN policyDecisions : policyDecisions[i] \in Decision
  BY PlacesOfLog, ElementOfSeq DEF TypeOK, TelemetryTypeOK
<1>2. config.threshold \in Int
  BY ConfigTyped DEF TypeOK
<1>3. IsFiniteSet(Decisions)
  <2>1. Decisions = {policyDecisions[i] : i \in DOMAIN policyDecisions}
    BY DEF Decisions, ToSet
  <2>2. QED
    BY <1>1, <2>1, FiniteImage
<1>4. \A d \in Decisions : d.totalBefore \in Nat
  BY <1>1 DEF Decisions, ToSet, Decision
<1>5. /\ MaxTotalBacklogBefore \in Nat
      /\ MaxTotalBacklogBefore \in {0} \cup {d.totalBefore : d \in Decisions}
      /\ \A d \in Decisions : d.totalBefore <= MaxTotalBacklogBefore
  <2>1. PICK g : g = [d \in Decisions |-> d.totalBefore]
    OBVIOUS
  <2>2. PICK M : M = {d.totalBefore : d \in Decisions}
    OBVIOUS
  <2>3. g \in [Decisions -> Nat]
    BY <1>4, <2>1
  <2>4. M = {g[d] : d \in Decisions}
    BY <2>1, <2>2
  <2>5. /\ Max({0} \cup M) \in {0} \cup M
        /\ Max({0} \cup M) \in Nat
        /\ \A d \in Decisions : g[d] <= Max({0} \cup M)
    BY <1>3, <2>3, <2>4, MaxOfPlaces
  <2>6. MaxTotalBacklogBefore = Max({0} \cup M)
    BY <2>2 DEF MaxTotalBacklogBefore
  <2>7. QED
    BY <2>1, <2>2, <2>5, <2>6
<1>6. MaxBacklogOverThreshold \in Nat
  <2>1. PICK g : g = [d \in Decisions |->
                        AtLeast(d.totalBefore - config.threshold, 0)]
    OBVIOUS
  <2>2. PICK M : M = {AtLeast(d.totalBefore - config.threshold, 0) :
                        d \in Decisions}
    OBVIOUS
  <2>3. \A d \in Decisions :
          AtLeast(d.totalBefore - config.threshold, 0) \in Nat
    BY <1>2, <1>4 DEF AtLeast
  <2>4. g \in [Decisions -> Nat]
    BY <2>1, <2>3
  <2>5. M = {g[d] : d \in Decisions}
    BY <2>1, <2>2
  <2>6. Max({0} \cup M) \in Nat
    BY <1>3, <2>4, <2>5, MaxOfPlaces
  <2>7. QED
    BY <2>2, <2>6 DEF MaxBacklogOverThreshold
<1>7. QED
  BY <1>5, <1>6

(* The cycles observed are finitely many numbers.                          *)
LEMMA CyclesTyped ==
  ASSUME TypeOK
  PROVE  /\ IsFiniteSet(ObservedCycles) /\ ObservedCycles \in SUBSET Nat
         /\ Cardinality(ObservedCycles) \in Nat
         /\ Max({0} \cup ObservedCycles) \in Nat
<1>1. /\ IsFiniteSet(DOMAIN queueDepthTimeline)
      /\ \A i \in DOMAIN queueDepthTimeline :
           queueDepthTimeline[i] \in DepthSample
  BY PlacesOfLog, ElementOfSeq DEF TypeOK, TelemetryTypeOK
<1>2. PICK g : g = [i \in DOMAIN queueDepthTimeline |->
                      queueDepthTimeline[i].cycle]
  OBVIOUS
<1>3. /\ g \in [DOMAIN queueDepthTimeline -> Nat]
      /\ ObservedCycles = {g[i] : i \in DOMAIN queueDepthTimeline}
  BY <1>1, <1>2 DEF ObservedCycles, DepthSample
<1>4. IsFiniteSet(ObservedCycles) /\ Cardinality(ObservedCycles) \in Nat
  BY <1>1, <1>3, FiniteImage
<1>5. Max({0} \cup ObservedCycles) \in Nat
  BY <1>1, <1>3, MaxOfPlaces
<1>6. ObservedCycles \in SUBSET Nat
  BY <1>3
<1>7. QED
  BY <1>4, <1>5, <1>6

(* The totals are numbers.                                                 *)
LEMMA TotalsTyped ==
  ASSUME TypeOK
  PROVE  /\ FallbackCount \in Nat /\ DroppedCount \in Nat
         /\ DeadlineMissedCount \in Nat /\ SumFunction(executed) \in Nat
         /\ Cardinality(Task) \in Nat
         /\ FallbackCount = 0 <=> \A t \in Task : fallbackUsed[t] = 0
         /\ DroppedCount = 0 <=> \A t \in Task : dropped[t] = 0
         /\ DeadlineMissedCount = 0 <=> \A t \in Task : deadlineMissed[t] = 0
<1>1. /\ fallbackUsed \in [Task -> Nat] /\ dropped \in [Task -> Nat]
      /\ deadlineMissed \in [Task -> Nat] /\ executed \in [Task -> Nat]
  BY DEF TypeOK, TelemetryTypeOK
<1>2. Cardinality(Task) \in Nat
  BY TaskAssumption, FS_CardinalityType
<1>3. FallbackCount \in Nat
      /\ (FallbackCount = 0 <=> \A t \in Task : fallbackUsed[t] = 0)
  BY <1>1, SumTyped, TaskAssumption DEF FallbackCount
<1>4. DroppedCount \in Nat
      /\ (DroppedCount = 0 <=> \A t \in Task : dropped[t] = 0)
  BY <1>1, SumTyped, TaskAssumption DEF DroppedCount
<1>5. DeadlineMissedCount \in Nat
      /\ (DeadlineMissedCount = 0 <=> \A t \in Task : deadlineMissed[t] = 0)
  BY <1>1, SumTyped, TaskAssumption DEF DeadlineMissedCount
<1>6. SumFunction(executed) \in Nat
  BY <1>1, SumTyped, TaskAssumption
<1>7. QED
  BY <1>2, <1>3, <1>4, <1>5, <1>6

-----------------------------------------------------------------------------
(***************************************************************************)
(* The risk level and the hints.                                           *)
(***************************************************************************)
(* The max_total_queue_depth is the greatest total depth of a sample.      *)
LEMMA GreatestDepth ==
  ASSUME TypeOK
  PROVE  /\ MaxTotalQueueDepth \in Nat
         /\ \A i \in DOMAIN queueDepthTimeline :
              DepthAt(i) <= MaxTotalQueueDepth
         /\ MaxTotalQueueDepth > 0 =>
              \E i \in DOMAIN queueDepthTimeline :
                DepthAt(i) = MaxTotalQueueDepth
<1> DEFINE S == {SumFunction(d) : d \in Samples \cup {NoDepth}}
<1>1. IsFiniteSet(Samples \cup {NoDepth})
  <2>1. IsFiniteSet(DOMAIN queueDepthTimeline)
    BY PlacesOfLog DEF TypeOK, TelemetryTypeOK
  <2>2. PICK f : f = [i \in DOMAIN queueDepthTimeline |->
                        queueDepthTimeline[i].depth]
    OBVIOUS
  <2>3. Samples = {f[i] : i \in DOMAIN queueDepthTimeline}
    BY <2>2 DEF Samples
  <2>4. IsFiniteSet(Samples)
    BY <2>1, <2>2, <2>3, FiniteImage
  <2>5. QED
    BY <2>4, FS_Singleton, FS_Union
<1>2. \A d \in Samples \cup {NoDepth} : d \in [Task -> Nat]
  <2>1. \A i \in DOMAIN queueDepthTimeline :
          queueDepthTimeline[i].depth \in [Task -> Nat]
    BY DepthTyped DEF DepthSample
  <2>2. QED
    BY <2>1 DEF Samples, NoDepth
<1>3. \A d \in Samples \cup {NoDepth} : SumFunction(d) \in Nat
  BY <1>2, SumTyped, TaskAssumption
<1>4. SumFunction(NoDepth) = 0
  <2>1. NoDepth \in [Task -> Nat] /\ \A t \in Task : NoDepth[t] = 0
    BY DEF NoDepth
  <2>2. QED
    BY <2>1, SumTyped, TaskAssumption
<1>5. IsFiniteSet(S) /\ S \in SUBSET Nat /\ S # {}
  <2>1. PICK f : f = [d \in Samples \cup {NoDepth} |-> SumFunction(d)]
    OBVIOUS
  <2>2. PICK T : T = S
    OBVIOUS
  <2>3. T = {f[d] : d \in Samples \cup {NoDepth}}
    BY <2>1, <2>2
  <2>4. IsFiniteSet(T)
    BY <1>1, <2>1, <2>3, FiniteImage
  <2>5. QED
    BY <1>3, <2>2, <2>4
<1>6. PICK m \in S : m \in Nat /\ \A x \in S : x <= m
  <2> HIDE DEF S
  <2>1. QED
    BY <1>5, MaxOfNumbers
<1>7. \E n \in S : \A d \in Samples : SumFunction(d) <= n
  BY <1>6
<1>8. /\ MaxTotalQueueDepth \in S
      /\ \A d \in Samples : SumFunction(d) <= MaxTotalQueueDepth
  BY <1>7 DEF MaxTotalQueueDepth
<1>9. \A i \in DOMAIN queueDepthTimeline :
        queueDepthTimeline[i].depth \in Samples
  BY DEF Samples
<1>10. MaxTotalQueueDepth > 0 =>
         \E d \in Samples : SumFunction(d) = MaxTotalQueueDepth
  BY <1>4, <1>8
<1>11. QED
  BY <1>5, <1>8, <1>9, <1>10 DEF DepthAt, Samples

(* A worker is degraded if it has missed a deadline or used a fallback,    *)
(* and constrained if it has only lost frames.                             *)
LEMMA WorkerStates ==
  ASSUME TypeOK
  PROVE  /\ WorkersIn("degraded")
              = {t \in Task : fallbackUsed[t] > 0 \/ deadlineMissed[t] > 0}
         /\ \A t \in WorkersIn("constrained") : t \in Task /\ dropped[t] > 0
BY DEF WorkersIn, WorkerHealth, HealthState

(* What asks for a review, and what is reported beside it, in terms of the *)
(* counters of the tasks.                                                  *)
LEMMA RiskReasons ==
  ASSUME TypeOK
  PROVE  /\ ReviewReasons
              <=> \/ QueuePressureState = "overloaded"
                  \/ DeadlineMissedCount > 0 \/ FallbackCount > 0
                  \/ SchedulerDelayEvents # {}
         /\ ~ ReviewReasons =>
              \A t \in Task : fallbackUsed[t] = 0 /\ deadlineMissed[t] = 0
         /\ RiskLevel = "nominal" =>
              policyDecisions = <<>> /\ \A t \in Task : dropped[t] = 0
         /\ RiskLevel = "nominal" <=> LatencyBudgetRiskReasons = {}
<1>1. /\ fallbackUsed \in [Task -> Nat] /\ dropped \in [Task -> Nat]
      /\ deadlineMissed \in [Task -> Nat]
  BY DEF TypeOK, TelemetryTypeOK
<1>2. /\ FallbackCount \in Nat /\ DroppedCount \in Nat
      /\ DeadlineMissedCount \in Nat
      /\ FallbackCount = 0 <=> \A t \in Task : fallbackUsed[t] = 0
      /\ DroppedCount = 0 <=> \A t \in Task : dropped[t] = 0
      /\ DeadlineMissedCount = 0 <=> \A t \in Task : deadlineMissed[t] = 0
  BY TotalsTyped
<1>3. WorkersIn("degraded") # {}
        <=> DeadlineMissedCount > 0 \/ FallbackCount > 0
  BY <1>1, <1>2, WorkerStates
<1>4. /\ ReviewReasons
           <=> \/ QueuePressureState = "overloaded"
               \/ DeadlineMissedCount > 0 \/ FallbackCount > 0
               \/ SchedulerDelayEvents # {}
      /\ ~ ReviewReasons => FallbackCount = 0 /\ DeadlineMissedCount = 0
  BY <1>2, <1>3 DEF ReviewReasons
<1>5. WatchReasons <=> policyDecisions # <<>> \/ DroppedCount > 0
  BY <1>1, <1>2, WorkerStates DEF WatchReasons
<1>6. RiskLevel = "nominal" <=> ~ ReviewReasons /\ ~ WatchReasons
  BY DEF RiskLevel
<1>7. (\E t \in Task : dropped[t] > 0) <=> DroppedCount > 0
  BY <1>1, <1>2
<1>8. LatencyBudgetRiskReasons = {}
        <=> ~ ReviewReasons /\ policyDecisions = <<>> /\ DroppedCount = 0
  <2>1. LatencyBudgetRiskReasons = {}
          <=> /\ ~ (DeadlineMissedCount > 0) /\ SchedulerDelayEvents = {}
              /\ ~ (FallbackCount > 0)
              /\ QueuePressureState # "overloaded"
              /\ policyDecisions = <<>>
              /\ ~ \E t \in Task : dropped[t] > 0
    BY Zenon DEF LatencyBudgetRiskReasons, Hint
  <2>2. QED
    BY <1>2, <1>4, <1>7, <2>1
<1>9. QED
  BY <1>2, <1>4, <1>5, <1>6, <1>8

(* A run whose queues were not overloaded has no pressure window.          *)
LEMMA NoWindows ==
  ASSUME TypeOK, QueuePressureState # "overloaded"
  PROVE  /\ \A i \in DOMAIN queueDepthTimeline :
              DepthAt(i) <= config.threshold
         /\ PressureWindows = {}
<1>1. ~ (MaxTotalQueueDepth > config.threshold)
  BY DEF QueuePressureState
<1>2. config.threshold \in Nat
  BY ConfigTyped DEF TypeOK
<1>3. \A i \in DOMAIN queueDepthTimeline : DepthAt(i) <= config.threshold
  BY <1>1, <1>2, GreatestDepth, DepthTyped
<1>4. \A i \in DOMAIN queueDepthTimeline : ~ Opens(i)
  BY <1>2, <1>3, DepthTyped DEF Opens, InWindow
<1>5. QED
  BY <1>3, <1>4 DEF PressureWindows

(* The risk level, the reasons of the latency budgets and the hints of the *)
(* timeline do not contradict one another.                                 *)
THEOREM RuntimeHintsAgreeWithRisk == Spec => []HintsAgreeWithRisk
<1>1. EvidenceIInv => HintsAgreeWithRisk
  <2> SUFFICES ASSUME EvidenceIInv, Reported PROVE HintsAgreeWithRisk
    BY DEF HintsAgreeWithRisk
  <2>1. TypeOK /\ DropsCounted
    BY DEF EvidenceIInv, AccountIInv
  <2>2. ASSUME RiskLevel = "nominal"
        PROVE  /\ ReviewHints = {"operation_timeline_nominal"}
               /\ WorkerHealthHints = {"worker_health_nominal"}
    <3>1. /\ ~ ReviewReasons /\ policyDecisions = <<>>
          /\ \A t \in Task : dropped[t] = 0
      BY <2>1, <2>2, RiskReasons DEF RiskLevel
    <3>2. /\ QueuePressureState # "overloaded"
          /\ ~ (DeadlineMissedCount > 0) /\ ~ (FallbackCount > 0)
          /\ SchedulerDelayEvents = {}
          /\ \A t \in Task : fallbackUsed[t] = 0 /\ deadlineMissed[t] = 0
      BY <2>1, <3>1, RiskReasons
    <3>3. PressureWindows = {}
      BY <2>1, <3>2, NoWindows
    <3>4. StaleDrops = {}
      <4>1. ASSUME NEW i \in DOMAIN dropEvents PROVE FALSE
        <5>1. dropEvents[i].frame.task \in Task
          <6>1. dropEvents[i] \in DropEvent
            BY <2>1 DEF TypeOK, TelemetryTypeOK
          <6>2. QED
            BY <6>1 DEF DropEvent, Frame
        <5>2. PICK t \in Task : i \in Drops(t)
          BY <5>1 DEF Drops
        <5>3. Drops(t) \in SUBSET DOMAIN dropEvents
          BY DEF Drops
        <5>4. IsFiniteSet(Drops(t))
          BY <2>1, <5>3, PlacesOfLog DEF TypeOK, TelemetryTypeOK
        <5>5. Cardinality(Drops(t)) = 0
          BY <2>1, <3>1 DEF DropsCounted
        <5>6. QED
          BY <5>2, <5>4, <5>5, FS_EmptySet
      <4>2. QED
        BY <4>1 DEF StaleDrops
    <3>5. WorkersIn("degraded") = {} /\ WorkersIn("constrained") = {}
      BY <2>1, <3>1, <3>2, WorkerStates
    <3>6. \A t \in Task : ~ (fallbackUsed[t] > 0)
      BY <3>2
    <3>7. QED
      BY <3>1, <3>2, <3>3, <3>4, <3>5, <3>6, Zenon
         DEF ReviewHints, WorkerHealthHints, OrNominal, Hint
  <2>3. ASSUME ReviewHints = {"operation_timeline_nominal"}
        PROVE  RiskLevel # "review"
    <3>1. /\ QueuePressureState # "overloaded"
          /\ SchedulerDelayEvents = {}
          /\ ~ (DeadlineMissedCount > 0) /\ ~ (FallbackCount > 0)
      <4>1. /\ "review_queue_pressure" \notin ReviewHints
            /\ "review_scheduler_delay" \notin ReviewHints
            /\ "review_deadline_miss" \notin ReviewHints
            /\ "review_fallback_use" \notin ReviewHints
        BY <2>3
      <4>2. QED
        BY <4>1 DEF ReviewHints, OrNominal, Hint
    <3>2. QED
      BY <2>1, <3>1, RiskReasons DEF RiskLevel
  <2>4. TasksWithLatencyBudgetRisk \subseteq TasksWithStarvationRisk
    <3>1. ASSUME NEW t \in TasksWithLatencyBudgetRisk
          PROVE  t \in TasksWithStarvationRisk
      BY <3>1, Zenon DEF TasksWithLatencyBudgetRisk, TasksWithStarvationRisk,
                  StarvationReasons, Hint, HealthState
    <3>2. QED
      BY <3>1
  <2>5. QED
    BY <2>1, <2>2, <2>3, <2>4, RiskReasons DEF HintsAgreeWithRisk
<1>2. QED
  BY StartedInit, EvidenceInit, EvidenceKept, <1>1, PTL DEF Spec

-----------------------------------------------------------------------------
(***************************************************************************)
(* The places of the samples.                                              *)
(***************************************************************************)
\* Each cycle has two samples, and only the one before the policy of a cycle
\* with arrivals is above the threshold.
PlacesInv ==
  /\ Len(queueDepthTimeline)
       = 2 * cycle + (IF pc \in {"arrivals", "done"} THEN 0
                      ELSE IF pc = "shed" THEN 1 ELSE 2)
  /\ \A i \in DOMAIN queueDepthTimeline :
       LET e == queueDepthTimeline[i]
       IN  /\ i = 2 * e.cycle + 1 \/ i = 2 * e.cycle + 2
           /\ DepthAt(i) > config.threshold
                => i = 2 * e.cycle + 1 /\ e.stage = "cycle_before_policy"

(* A sample leaves the others as they are, and its depth is the backlog.   *)
LEMMA SampleDepths ==
  ASSUME TypeOK, NEW stage \in Stages, RecordBacklog(cycle, stage)
  PROVE  \E n \in Nat :
           /\ n = Len(queueDepthTimeline)
           /\ DOMAIN queueDepthTimeline = 1 .. n
           /\ DOMAIN queueDepthTimeline' = 1 .. n + 1
           /\ Len(queueDepthTimeline') = n + 1
           /\ \A i \in 1 .. n :
                /\ queueDepthTimeline'[i] = queueDepthTimeline[i]
                /\ DepthAt(i)' = DepthAt(i)
           /\ queueDepthTimeline'[n + 1]
                = [cycle |-> cycle, stage |-> stage, depth |-> SnapshotBacklog]
           /\ DepthAt(n + 1)' = TotalBacklog
<1>1. PICK n \in Nat : n = Len(queueDepthTimeline)
  BY PlacesOfLog DEF TypeOK, TelemetryTypeOK
<1>2. /\ DOMAIN queueDepthTimeline = 1 .. n
      /\ DOMAIN queueDepthTimeline' = 1 .. n + 1
      /\ Len(queueDepthTimeline') = n + 1
      /\ \A i \in 1 .. n : queueDepthTimeline'[i] = queueDepthTimeline[i]
      /\ queueDepthTimeline'[n + 1]
           = [cycle |-> cycle, stage |-> stage, depth |-> SnapshotBacklog]
  BY <1>1, SampleAppended
<1>3. /\ \A i \in 1 .. n : DepthAt(i)' = DepthAt(i)
      /\ DepthAt(n + 1)' = TotalBacklog
  BY <1>2, SumOfBacklog DEF DepthAt, TypeOK
<1>4. QED
  BY <1>1, <1>2, <1>3

(* A sample that is taken at its place keeps the others at theirs.         *)
LEMMA SamplePlaced ==
  ASSUME TypeOK, PlacesInv, config' = config, queue' = queue,
         NEW stage \in Stages, RecordBacklog(cycle, stage),
         LET n == Len(queueDepthTimeline)
         IN  /\ n = 2 * cycle \/ n = 2 * cycle + 1
             /\ TotalBacklog > config.threshold
                  => n = 2 * cycle /\ stage = "cycle_before_policy",
         Len(queueDepthTimeline) + 1
           = 2 * cycle' + (IF pc' \in {"arrivals", "done"} THEN 0
                           ELSE IF pc' = "shed" THEN 1 ELSE 2)
  PROVE  PlacesInv'
<1>1. PICK n \in Nat :
        /\ n = Len(queueDepthTimeline)
        /\ DOMAIN queueDepthTimeline = 1 .. n
        /\ DOMAIN queueDepthTimeline' = 1 .. n + 1
        /\ Len(queueDepthTimeline') = n + 1
        /\ \A i \in 1 .. n :
             /\ queueDepthTimeline'[i] = queueDepthTimeline[i]
             /\ DepthAt(i)' = DepthAt(i)
        /\ queueDepthTimeline'[n + 1]
             = [cycle |-> cycle, stage |-> stage, depth |-> SnapshotBacklog]
        /\ DepthAt(n + 1)' = TotalBacklog
  BY SampleDepths
<1>2. cycle \in Nat
  BY DEF TypeOK
<1>3. ASSUME NEW i \in 1 .. n + 1
      PROVE  LET e == queueDepthTimeline'[i]
             IN  /\ i = 2 * e.cycle + 1 \/ i = 2 * e.cycle + 2
                 /\ DepthAt(i)' > config.threshold
                      => i = 2 * e.cycle + 1 /\ e.stage = "cycle_before_policy"
  <2>1. CASE i \in 1 .. n
    BY <1>1, <2>1 DEF PlacesInv
  <2>2. CASE i = n + 1
    BY <1>1, <1>2, <2>2
  <2>3. QED
    BY <1>1, <2>1, <2>2, LogGrows
<1>4. QED
  BY <1>1, <1>3 DEF PlacesInv

(* The loops of run keep the samples at their places.                      *)
LEMMA PlacesStep == BacklogIInv /\ PlacesInv /\ [Next]_vars => PlacesInv'
<1> SUFFICES ASSUME BacklogIInv, PlacesInv, [Next]_vars PROVE PlacesInv'
  OBVIOUS
<1>1. /\ TypeOK /\ cycle \in Nat /\ config.threshold \in Nat
      /\ config.frames \in Nat /\ pc \in PCs
      /\ TotalBacklog \in Nat
  BY BacklogNumber, ConfigTyped DEF BacklogIInv, TypeOK, BacklogIsNumber
<1> DEFINE Place(c, p) ==
      2 * c + (IF p \in {"arrivals", "done"} THEN 0
               ELSE IF p = "shed" THEN 1 ELSE 2)
<1>2. Len(queueDepthTimeline) = Place(cycle, pc)
  BY DEF PlacesInv
<1>3. ASSUME UNCHANGED <<config, queueDepthTimeline>>,
             Place(cycle', pc') = Place(cycle, pc)
      PROVE  PlacesInv'
  <2>1. \A i \in DOMAIN queueDepthTimeline : DepthAt(i)' = DepthAt(i)
    BY <1>3 DEF DepthAt
  <2>2. QED
    BY <1>3, <2>1 DEF PlacesInv
<1> HIDE DEF Place
<1>4. ASSUME Continue, pc \in {"execute", "work"}
      PROVE  Place(cycle', pc') = Place(cycle, pc)
  BY <1>1, <1>4 DEF Continue, Place
<1>5. ASSUME NEW t \in Task,
             \/ SkipTask(t) \/ Enqueue(t) \/ PassByTask(t) \/ ShedTask(t)
      PROVE  PlacesInv'
  BY <1>3, <1>5 DEF SkipTask, Enqueue, PassByTask, ShedTask, controlVars,
                    telemetryVars
<1>6. ASSUME NEW t \in Task, Schedule(t) PROVE PlacesInv'
  <2>1. Place(cycle', pc') = Place(cycle, pc)
    BY <1>6 DEF Schedule, Place
  <2>2. QED
    BY <1>3, <1>6, <2>1 DEF Schedule
<1>7. ASSUME NEW latency \in Latencies, WorkerReturns(latency)
      PROVE  PlacesInv'
  BY <1>3, <1>4, <1>7 DEF WorkerReturns
<1>8. CASE WorkerRaises
  <2>1. Place(cycle', pc') = Place(cycle, pc)
    BY <1>8 DEF WorkerRaises, Place
  <2>2. QED
    BY <1>3, <1>8, <2>1 DEF WorkerRaises, telemetryVars
<1>9. CASE NothingToExecute
  <2>1. ~ Draining /\ pc = "execute"
    BY <1>9, BacklogKept DEF NothingToExecute, DrainNeverStalls
  <2>2. QED
    BY <1>3, <1>4, <1>9, <2>1 DEF NothingToExecute, telemetryVars
<1>10. CASE BeginShedding
  <2>1. PICK stage \in Stages :
          /\ RecordBacklog(cycle, stage)
          /\ ~ Draining => stage = "cycle_before_policy"
    BY <1>10 DEF BeginShedding, Stages
  <2>2. /\ pc = "arrivals" /\ pc' = "shed" /\ cycle' = cycle
        /\ config' = config /\ queue' = queue
    BY <1>10 DEF BeginShedding, BeginWalk
  <2>3. TotalBacklog > config.threshold => stage = "cycle_before_policy"
    BY <2>1, BacklogKept DEF NoSheddingInDrain, OverThreshold
  <2>4. Len(queueDepthTimeline) = 2 * cycle
    BY <1>1, <1>2, <2>2 DEF Place
  <2>5. QED
    BY <1>1, <2>1, <2>2, <2>3, <2>4, SamplePlaced
<1>11. CASE EndShedding
  <2>1. PICK stage \in Stages : RecordBacklog(cycle, stage)
    BY <1>11 DEF EndShedding, Stages
  <2>2. /\ pc = "shed" /\ pc' = "execute" /\ cycle' = cycle
        /\ config' = config /\ queue' = queue
    BY <1>11 DEF EndShedding, sheddingVars
  <2>3. ~ (TotalBacklog > config.threshold)
    <3>1. BacklogIInv'
      BY BacklogStep
    <3>2. BacklogWithinThreshold'
      BY <3>1, BacklogKept, PTL
    <3>3. TotalBacklog' = TotalBacklog
      BY <2>2 DEF TotalBacklog, Slots, Backlog
    <3>4. QED
      BY <1>1, <2>2, <3>2, <3>3 DEF BacklogWithinThreshold
  <2>4. Len(queueDepthTimeline) = 2 * cycle + 1
    BY <1>1, <1>2, <2>2 DEF Place
  <2>5. QED
    BY <1>1, <2>1, <2>2, <2>3, <2>4, SamplePlaced
<1>12. CASE UNCHANGED vars
  BY <1>3, <1>12 DEF vars, telemetryVars
<1>13. QED
  BY <1>5, <1>6, <1>7, <1>8, <1>9, <1>10, <1>11, <1>12 DEF Next

-----------------------------------------------------------------------------
(***************************************************************************)
(* What the policy has seen.                                               *)
(***************************************************************************)
\* A decision is taken above the threshold, on a backlog that a sample shows
\* or that has sunk since; and each sample above the threshold has a decision
\* taken on what it shows, once the walk that follows it has taken a frame.
DecisionInv ==
  /\ \A d \in DOMAIN policyDecisions :
       /\ policyDecisions[d].totalBefore > config.threshold
       /\ \E i \in DOMAIN queueDepthTimeline :
            policyDecisions[d].totalBefore <= DepthAt(i)
  /\ \A i \in DOMAIN queueDepthTimeline : DepthAt(i) > config.threshold =>
       \/ \E d \in DOMAIN policyDecisions :
            policyDecisions[d].totalBefore = DepthAt(i)
       \/ /\ pc = "shed" /\ i = Len(queueDepthTimeline)
          /\ TotalBacklog = DepthAt(i)
  /\ pc = "shed" => \E i \in DOMAIN queueDepthTimeline :
                      TotalBacklog <= DepthAt(i)

(* A sample before the policy shows the backlog it is about to see.        *)
LEMMA BeginSheddingDecisions ==
  ASSUME TypeOK, DecisionInv, BeginShedding
  PROVE  DecisionInv'
<1>1. PICK stage \in Stages : RecordBacklog(cycle, stage)
  BY DEF BeginShedding, Stages
<1>2. PICK n \in Nat :
        /\ n = Len(queueDepthTimeline)
        /\ DOMAIN queueDepthTimeline = 1 .. n
        /\ DOMAIN queueDepthTimeline' = 1 .. n + 1
        /\ Len(queueDepthTimeline') = n + 1
        /\ \A i \in 1 .. n : DepthAt(i)' = DepthAt(i)
        /\ DepthAt(n + 1)' = TotalBacklog
  BY <1>1, SampleDepths
<1>3. /\ pc = "arrivals" /\ pc' = "shed" /\ config' = config
      /\ policyDecisions' = policyDecisions /\ queue' = queue
  BY DEF BeginShedding, BeginWalk
<1>4. TotalBacklog \in Nat /\ TotalBacklog' = TotalBacklog
  BY <1>3, SlotsFinite DEF TypeOK, TotalBacklog, Slots, Backlog
<1>5. \A i \in 1 .. n + 1 : i \in 1 .. n \/ i = n + 1
  BY LogGrows
<1>6. n + 1 \in 1 .. n + 1 /\ \A i \in 1 .. n : i \in 1 .. n + 1
  BY <1>2
<1>7. QED
  BY <1>2, <1>3, <1>4, <1>5, <1>6 DEF DecisionInv

(* A frame shed adds a decision on the backlog it was shed from.           *)
LEMMA ShedTaskDecisions ==
  ASSUME TypeOK, TypeOK', DecisionInv, NEW t \in Task, ShedTask(t)
  PROVE  DecisionInv'
<1> DEFINE e == [protected |-> protected, limited |-> t,
                 totalBefore |-> TotalBacklog, depth |-> SnapshotBacklog,
                 fallbackUsed |-> config.fallback[t]]
<1>1. /\ policyDecisions' = Append(policyDecisions, e)
      /\ pc = "shed" /\ pc' = "shed" /\ config' = config
      /\ queueDepthTimeline' = queueDepthTimeline
      /\ RemoveOldest(t) /\ OverThreshold
  BY DEF ShedTask, Shed, RecordPolicyDecision, controlVars
<1>2. PICK m \in Nat : m = Len(policyDecisions)
  BY PlacesOfLog DEF TypeOK, TelemetryTypeOK
<1>3. /\ policyDecisions \in Seq(Decision)
      /\ policyDecisions' \in Seq(Decision)
  BY DEF TypeOK, TelemetryTypeOK
<1>4. /\ DOMAIN policyDecisions = 1 .. m
      /\ DOMAIN policyDecisions' = 1 .. m + 1
      /\ \A d \in 1 .. m : policyDecisions'[d] = policyDecisions[d]
      /\ policyDecisions'[m + 1] = e
  <2>1. Len(policyDecisions') = m + 1
    BY <1>1, <1>2, <1>3, LenProperties
  <2>2. QED
    BY <1>1, <1>2, <1>3, <2>1, LenProperties
<1>5. policyDecisions'[m + 1].totalBefore = TotalBacklog
  BY <1>4
<1> HIDE DEF e
<1>6. TotalBacklog \in Nat /\ TotalBacklog' = TotalBacklog - 1
  BY <1>1, RemoveOldestEffect, TotalMinusOne, SlotsFinite DEF TypeOK
<1>7. \A i \in DOMAIN queueDepthTimeline :
        DepthAt(i) \in Nat /\ DepthAt(i)' = DepthAt(i)
  BY <1>1, DepthTyped DEF DepthAt
<1>8. \A d \in 1 .. m + 1 : d \in 1 .. m \/ d = m + 1
  BY LogGrows
<1>9. m + 1 \in 1 .. m + 1 /\ \A d \in 1 .. m : d \in 1 .. m + 1
  BY <1>2
<1>10. TotalBacklog > config.threshold
  BY <1>1 DEF OverThreshold
<1>11. \A d \in DOMAIN policyDecisions' :
        /\ policyDecisions'[d].totalBefore > config.threshold
        /\ \E i \in DOMAIN queueDepthTimeline :
             policyDecisions'[d].totalBefore <= DepthAt(i)
  BY <1>1, <1>4, <1>5, <1>8, <1>10 DEF DecisionInv
<1>12. \A i \in DOMAIN queueDepthTimeline : DepthAt(i) > config.threshold =>
         \E d \in DOMAIN policyDecisions' :
           policyDecisions'[d].totalBefore = DepthAt(i)
  BY <1>1, <1>4, <1>5, <1>9 DEF DecisionInv
<1>13. \E i \in DOMAIN queueDepthTimeline : TotalBacklog' <= DepthAt(i)
  <2>1. PICK i \in DOMAIN queueDepthTimeline : TotalBacklog <= DepthAt(i)
    BY <1>1 DEF DecisionInv
  <2>2. DepthAt(i) \in Nat
    BY <1>7
  <2>3. QED
    BY <1>6, <2>1, <2>2
<1>14. (\A d \in DOMAIN policyDecisions :
          /\ policyDecisions[d].totalBefore > config.threshold
          /\ \E i \in DOMAIN queueDepthTimeline :
               policyDecisions[d].totalBefore <= DepthAt(i))'
  BY <1>1, <1>7, <1>11
<1>15. (\A i \in DOMAIN queueDepthTimeline : DepthAt(i) > config.threshold =>
          \E d \in DOMAIN policyDecisions :
            policyDecisions[d].totalBefore = DepthAt(i))'
  BY <1>1, <1>7, <1>12
<1>16. (\E i \in DOMAIN queueDepthTimeline : TotalBacklog <= DepthAt(i))'
  BY <1>1, <1>7, <1>13
<1>17. QED
  BY <1>14, <1>15, <1>16 DEF DecisionInv

(* The walk ends within the threshold, so that it has taken a frame after  *)
(* a sample above it.                                                      *)
LEMMA EndSheddingDecisions ==
  ASSUME BacklogIInv, DecisionInv, EndShedding
  PROVE  DecisionInv'
<1>1. TypeOK /\ TotalBacklog \in Nat /\ config.threshold \in Nat
  BY BacklogNumber, ConfigTyped DEF BacklogIInv, TypeOK, BacklogIsNumber
<1>2. PICK stage \in Stages : RecordBacklog(cycle, stage)
  BY DEF EndShedding, Stages
<1>3. PICK n \in Nat :
        /\ DOMAIN queueDepthTimeline = 1 .. n
        /\ DOMAIN queueDepthTimeline' = 1 .. n + 1
        /\ \A i \in 1 .. n : DepthAt(i)' = DepthAt(i)
        /\ DepthAt(n + 1)' = TotalBacklog
  BY <1>1, <1>2, SampleDepths
<1>4. /\ pc = "shed" /\ pc' = "execute" /\ config' = config
      /\ policyDecisions' = policyDecisions /\ queue' = queue
  BY DEF EndShedding, sheddingVars
<1>5. ~ (TotalBacklog > config.threshold)
  <2>1. BacklogIInv'
    BY BacklogStep DEF Next
  <2>2. BacklogWithinThreshold'
    BY <2>1, BacklogKept, PTL
  <2>3. TotalBacklog' = TotalBacklog
    BY <1>4 DEF TotalBacklog, Slots, Backlog
  <2>4. QED
    BY <1>1, <1>4, <2>2, <2>3 DEF BacklogWithinThreshold
<1>6. /\ \A i \in 1 .. n + 1 : i \in 1 .. n \/ i = n + 1
      /\ \A i \in 1 .. n : i \in 1 .. n + 1
  BY LogGrows
<1>7. \A i \in 1 .. n : DepthAt(i) > config.threshold =>
        \E d \in DOMAIN policyDecisions :
          policyDecisions[d].totalBefore = DepthAt(i)
  BY <1>3, <1>5 DEF DecisionInv
<1>8. QED
  BY <1>3, <1>4, <1>5, <1>6, <1>7 DEF DecisionInv

(* The loops of run keep the decisions and the samples together.           *)
LEMMA DecisionStep == BacklogIInv /\ DecisionInv /\ [Next]_vars => DecisionInv'
<1> SUFFICES ASSUME BacklogIInv, DecisionInv, [Next]_vars PROVE DecisionInv'
  OBVIOUS
<1>1. TypeOK /\ TypeOK'
  BY TypeStep DEF BacklogIInv
<1>2. ASSUME UNCHANGED <<config, queueDepthTimeline, policyDecisions>>,
             pc # "shed", pc' # "shed"
      PROVE  DecisionInv'
  BY <1>2 DEF DecisionInv, DepthAt
<1>3. ASSUME UNCHANGED <<config, queueDepthTimeline, policyDecisions, pc>>,
             queue' = queue \/ pc # "shed"
      PROVE  DecisionInv'
  <2>1. queue' = queue => TotalBacklog' = TotalBacklog
    BY DEF TotalBacklog, Slots, Backlog
  <2>2. \A i \in DOMAIN queueDepthTimeline : DepthAt(i)' = DepthAt(i)
    BY <1>3 DEF DepthAt
  <2>3. QED
    BY <1>3, <2>1, <2>2 DEF DecisionInv
<1>4. ASSUME NEW t \in Task,
             \/ SkipTask(t) \/ Enqueue(t) \/ PassByTask(t)
      PROVE  DecisionInv'
  BY <1>3, <1>4 DEF SkipTask, Enqueue, PassByTask, PassBy, NextToEmit,
                    controlVars, telemetryVars
<1>5. ASSUME NEW t \in Task, Schedule(t) PROVE DecisionInv'
  BY <1>2, <1>5 DEF Schedule
<1>6. ASSUME NEW latency \in Latencies, WorkerReturns(latency)
      PROVE  DecisionInv'
  BY <1>2, <1>6 DEF WorkerReturns, Continue
<1>7. CASE WorkerRaises
  BY <1>2, <1>7 DEF WorkerRaises, telemetryVars
<1>8. CASE NothingToExecute
  BY <1>2, <1>8 DEF NothingToExecute, Continue, telemetryVars
<1>9. CASE UNCHANGED vars
  BY <1>3, <1>9 DEF vars, telemetryVars
<1>10. QED
  BY <1>1, <1>4, <1>5, <1>6, <1>7, <1>8, <1>9, BeginSheddingDecisions,
     ShedTaskDecisions, EndSheddingDecisions DEF Next

(* No two samples above the threshold follow each other, so that each is a *)
(* window of its own.                                                      *)
LEMMA WindowAlone ==
  ASSUME TypeOK, PlacesInv, NEW i \in DOMAIN queueDepthTimeline
  PROVE  /\ Opens(i) <=> InWindow(i)
         /\ InWindow(i) =>
              /\ i = 2 * Window(i).start + 1
              /\ Window(i).start = queueDepthTimeline[i].cycle
              /\ Window(i).end = Window(i).start
              /\ Window(i).cycles = {Window(i).start}
              /\ Window(i).samples = 1
              /\ Window(i).peak = DepthAt(i)
              /\ Window(i).peakStage = "cycle_before_policy"
<1>1. PICK n \in Nat : /\ n = Len(queueDepthTimeline)
                       /\ DOMAIN queueDepthTimeline = 1 .. n
  BY PlacesOfLog DEF TypeOK, TelemetryTypeOK
<1>2. \A j \in 1 .. n : queueDepthTimeline[j].cycle \in Nat
  BY <1>1, DepthTyped DEF DepthSample
<1>3. \A j \in 1 .. n : InWindow(j) =>
        /\ j = 2 * queueDepthTimeline[j].cycle + 1
        /\ queueDepthTimeline[j].stage = "cycle_before_policy"
  BY <1>1 DEF PlacesInv, InWindow
<1>4. \A j, k \in 1 .. n : k = j + 1 => ~ InWindow(j) \/ ~ InWindow(k)
  BY <1>2, <1>3
<1>5. Opens(i) <=> InWindow(i)
  <2>1. CASE i = 1
    BY <2>1 DEF Opens
  <2>2. CASE i # 1
    <3>1. i - 1 \in 1 .. n /\ i = (i - 1) + 1
      BY <1>1, <2>2
    <3>2. InWindow(i) => ~ InWindow(i - 1)
      BY <1>1, <1>4, <3>1
    <3>3. QED
      BY <3>2 DEF Opens
  <2>3. QED
    BY <2>1, <2>2
<1>6. ASSUME InWindow(i) PROVE Span(i) = {i}
  <2>1. ASSUME NEW k \in Span(i), k # i PROVE FALSE
    <3>1. /\ k \in i .. n /\ \A j \in i .. k : InWindow(j)
      BY <1>1, <2>1 DEF Span
    <3>2. i + 1 \in i .. k /\ i \in i .. k /\ i + 1 \in 1 .. n
      BY <1>1, <2>1, <3>1
    <3>3. QED
      BY <1>1, <1>4, <3>1, <3>2
  <2>2. i \in Span(i)
    BY <1>1, <1>6 DEF Span
  <2>3. QED
    BY <2>1, <2>2
<1>7. ASSUME InWindow(i)
      PROVE  /\ Window(i).start = queueDepthTimeline[i].cycle
             /\ Window(i).end = queueDepthTimeline[i].cycle
             /\ Window(i).cycles = {queueDepthTimeline[i].cycle}
             /\ Window(i).samples = 1
  <2>1. Span(i) = {i}
    BY <1>6, <1>7
  <2>2. Max({i}) = i
    <3>1. i \in Nat
      BY <1>1
    <3>2. {i} \in SUBSET Nat /\ IsFiniteSet({i}) /\ {i} # {}
      BY <3>1, FS_Singleton
    <3>3. QED
      BY <3>2, MaxOfNumbers
  <2>3. Cardinality({i}) = 1
    BY FS_Singleton
  <2>4. QED
    BY <2>1, <2>2, <2>3 DEF Window
<1>8. ASSUME InWindow(i)
      PROVE  /\ Window(i).peak = DepthAt(i)
             /\ Window(i).peakStage = queueDepthTimeline[i].stage
  BY <1>5, <1>6, <1>8, WindowTyped
<1>9. QED
  BY <1>1, <1>3, <1>5, <1>7, <1>8

(* The windows are the samples above the threshold.                        *)
LEMMA WindowsAreSamples ==
  ASSUME TypeOK, PlacesInv,
         NEW over, over = {i \in DOMAIN queueDepthTimeline :
                             DepthAt(i) > config.threshold}
  PROVE  /\ PressureWindows = {Window(i) : i \in over}
         /\ Cardinality(PressureWindows) = Cardinality(over)
<1>1. \A i \in DOMAIN queueDepthTimeline : i \in over <=> Opens(i)
  BY WindowAlone DEF InWindow
<1>2. over = {k \in DOMAIN queueDepthTimeline : Opens(k)}
  BY <1>1
<1>3. PressureWindows = {Window(i) : i \in over}
  BY <1>2 DEF PressureWindows
<1>4. IsFiniteSet(over)
  BY PlacesOfLog DEF TypeOK, TelemetryTypeOK
<1>5. \A i, j \in over : Window(i) = Window(j) => i = j
  BY WindowAlone DEF InWindow
<1> DEFINE f == [i \in over |-> Window(i)]
<1>6. f \in Surjection(over, PressureWindows)
  BY <1>3 DEF Surjection
<1>7. f \in Injection(over, PressureWindows)
  BY <1>3, <1>5 DEF Injection, IsInjective
<1> HIDE DEF f
<1>8. QED
  BY <1>3, <1>4, <1>6, <1>7, FS_Surjection

\* What the samples and the decisions of a run are to each other.
PressureIInv == EvidenceIInv /\ BacklogIInv /\ PlacesInv /\ DecisionInv

(* The peak of the windows is the greatest backlog the policy has seen.    *)
LEMMA PeaksAgree ==
  ASSUME PressureIInv, pc = "done"
  PROVE  /\ PeakWindowDepth = MaxTotalBacklogBefore
         /\ PressureWindows = {} <=> policyDecisions = <<>>
         /\ QueuePressureState = "overloaded"
              => PeakWindowDepth = MaxTotalQueueDepth
<1>1. TypeOK /\ PlacesInv /\ DecisionInv /\ config.threshold \in Nat
  BY ConfigTyped DEF PressureIInv, BacklogIInv, TypeOK
<1> DEFINE over == {i \in DOMAIN queueDepthTimeline :
                      DepthAt(i) > config.threshold}
<1>2. PressureWindows = {Window(i) : i \in over}
  BY <1>1, WindowsAreSamples
<1>3. \A i \in over : /\ Window(i).peak = DepthAt(i)
                      /\ Window(i) \in PressureWindows
                      /\ DepthAt(i) \in Nat
  BY <1>1, <1>2, WindowAlone, DepthTyped DEF InWindow
<1>4. Decisions = {policyDecisions[d] : d \in DOMAIN policyDecisions}
  BY DEF Decisions, ToSet
<1>5. \A i \in over : \E d \in Decisions : d.totalBefore = DepthAt(i)
  <2>1. \A i \in over : \E d \in DOMAIN policyDecisions :
          policyDecisions[d].totalBefore = DepthAt(i)
    BY <1>1 DEF DecisionInv
  <2>2. QED
    BY <1>4, <2>1
<1>6. ASSUME NEW d \in Decisions
      PROVE  /\ \E i \in over : d.totalBefore <= DepthAt(i)
             /\ d.totalBefore \in Nat
  <2>1. PICK k \in DOMAIN policyDecisions : d = policyDecisions[k]
    BY <1>4
  <2>2. d \in Decision
    BY <1>1, <2>1 DEF TypeOK, TelemetryTypeOK
  <2>3. d.totalBefore \in Nat
    BY <2>2 DEF Decision
  <2>4. PICK i \in DOMAIN queueDepthTimeline : d.totalBefore <= DepthAt(i)
    BY <1>1, <2>1 DEF DecisionInv
  <2>5. d.totalBefore > config.threshold
    BY <1>1, <2>1 DEF DecisionInv
  <2>6. DepthAt(i) \in Nat
    BY <1>1, DepthTyped
  <2>7. QED
    BY <1>1, <2>3, <2>4, <2>5, <2>6
<1>7. PressureWindows = {} <=> policyDecisions = <<>>
  <2>1. PressureWindows = {} <=> over = {}
    BY <1>2
  <2>2. Decisions = {} <=> over = {}
    BY <1>5, <1>6
  <2>3. Decisions = {} <=> policyDecisions = <<>>
    <3>1. policyDecisions \in Seq(Decision)
      BY <1>1 DEF TypeOK, TelemetryTypeOK
    <3>2. /\ Len(policyDecisions) \in Nat
          /\ DOMAIN policyDecisions = 1 .. Len(policyDecisions)
      BY <3>1, PlacesOfLog
    <3>3. Len(policyDecisions) = 0 <=> policyDecisions = <<>>
      BY <3>1, EmptySeq
    <3>4. DOMAIN policyDecisions = {} <=> Len(policyDecisions) = 0
      BY <3>2
    <3>5. Decisions = {} <=> DOMAIN policyDecisions = {}
      BY <1>4
    <3>6. QED
      BY <3>3, <3>4, <3>5
  <2>4. QED
    BY <2>1, <2>2, <2>3
<1> HIDE DEF over
<1>8. /\ PeakWindowDepth \in Nat
      /\ PeakWindowDepth \in {0} \cup {w.peak : w \in PressureWindows}
      /\ \A w \in PressureWindows : w.peak <= PeakWindowDepth
  BY <1>1, WindowsTyped
<1>9. /\ MaxTotalBacklogBefore \in Nat
      /\ MaxTotalBacklogBefore \in {0} \cup {d.totalBefore : d \in Decisions}
      /\ \A d \in Decisions : d.totalBefore <= MaxTotalBacklogBefore
  BY <1>1, PressureTyped
<1>10. PeakWindowDepth <= MaxTotalBacklogBefore
  <2>1. CASE PeakWindowDepth = 0
    BY <1>9, <2>1
  <2>2. CASE PeakWindowDepth # 0
    <3>1. PICK i \in over : PeakWindowDepth = DepthAt(i)
      BY <1>2, <1>3, <1>8, <2>2
    <3>2. QED
      BY <1>5, <1>9, <3>1
  <2>3. QED
    BY <2>1, <2>2
<1>11. MaxTotalBacklogBefore <= PeakWindowDepth
  <2>1. CASE MaxTotalBacklogBefore = 0
    BY <1>8, <2>1
  <2>2. CASE MaxTotalBacklogBefore # 0
    <3>1. PICK d \in Decisions : MaxTotalBacklogBefore = d.totalBefore
      BY <1>9, <2>2
    <3>2. PICK i \in over : d.totalBefore <= DepthAt(i)
      BY <1>6
    <3>3. DepthAt(i) <= PeakWindowDepth
      BY <1>3, <1>8, <3>2
    <3>4. DepthAt(i) \in Nat
      BY <1>3
    <3>5. QED
      BY <1>8, <1>9, <3>1, <3>2, <3>3, <3>4
  <2>3. QED
    BY <2>1, <2>2
<1>12. ASSUME QueuePressureState = "overloaded"
       PROVE  PeakWindowDepth = MaxTotalQueueDepth
  <2>1. MaxTotalQueueDepth > config.threshold
    BY <1>12 DEF QueuePressureState
  <2>2. /\ MaxTotalQueueDepth \in Nat
        /\ \A i \in DOMAIN queueDepthTimeline :
             DepthAt(i) <= MaxTotalQueueDepth
        /\ MaxTotalQueueDepth > 0 =>
             \E i \in DOMAIN queueDepthTimeline :
               DepthAt(i) = MaxTotalQueueDepth
    BY <1>1, GreatestDepth
  <2>3. PICK i \in DOMAIN queueDepthTimeline : DepthAt(i) = MaxTotalQueueDepth
    BY <1>1, <2>1, <2>2
  <2>4. i \in over
    BY <2>1, <2>3 DEF over
  <2>5. MaxTotalQueueDepth <= PeakWindowDepth
    BY <1>3, <1>8, <2>3, <2>4
  <2>6. PeakWindowDepth <= MaxTotalQueueDepth
    <3>1. PICK k \in over : PeakWindowDepth = DepthAt(k)
      BY <1>1, <1>2, <1>3, <1>8, <2>1, <2>2, <2>5
    <3>2. QED
      BY <2>2, <3>1 DEF over
  <2>7. QED
    BY <1>8, <2>2, <2>5, <2>6
<1>13. QED
  BY <1>7, <1>8, <1>9, <1>10, <1>11, <1>12

(* The invariant behind the summaries of the pressure is inductive.        *)
LEMMA PressureInvariant == Spec => []PressureIInv
<1>1. Started => PressureIInv
  <2>1. ASSUME Started PROVE PlacesInv /\ DecisionInv
    <3>1. /\ queueDepthTimeline = <<>> /\ policyDecisions = <<>>
          /\ cycle = 0 /\ pc \in {"arrivals", "done"}
      BY <2>1 DEF Started, TelemetryInit
    <3>2. QED
      BY <3>1 DEF PlacesInv, DecisionInv
  <2>2. QED
    BY <2>1, EvidenceInit, BacklogInit DEF PressureIInv
<1>2. PressureIInv /\ [Next]_vars => PressureIInv'
  BY EvidenceKept, BacklogStep, PlacesStep, DecisionStep DEF PressureIInv
<1>3. QED
  BY <1>1, <1>2, StartedInit, PTL DEF Spec

(* The pressure windows of a report are the cycles in which the policy     *)
(* limited a task, one sample each, and their peak is the backlog that the *)
(* decisions and the queue summary show.                                   *)
THEOREM RuntimePressureSummariesAgree == Spec => []PressureSummariesAgree
<1>1. ASSUME PressureIInv, Reported PROVE PressureSummariesAgree
  <2> DEFINE over == {i \in DOMAIN queueDepthTimeline :
                        DepthAt(i) > config.threshold}
  <2>1. TypeOK /\ PlacesInv
    BY <1>1 DEF PressureIInv, BacklogIInv
  <2>2. /\ PressureWindows = {Window(i) : i \in over}
        /\ Cardinality(PressureWindows) = Cardinality(over)
    BY <2>1, WindowsAreSamples
  <2>3. \A i \in over :
          /\ Window(i).start = queueDepthTimeline[i].cycle
          /\ Window(i).end = Window(i).start
          /\ Window(i).cycles = {Window(i).start}
          /\ Window(i).samples = 1
          /\ Window(i).peakStage = "cycle_before_policy"
    BY <2>1, WindowAlone DEF InWindow
  <2>4. /\ PeakWindowDepth = MaxTotalBacklogBefore
        /\ PressureWindows = {} <=> policyDecisions = <<>>
        /\ QueuePressureState = "overloaded"
             => PeakWindowDepth = MaxTotalQueueDepth
    BY <1>1, PeaksAgree DEF Reported
  <2>5. QueuePressureState # "overloaded" => PressureWindows = {}
    BY <2>1, NoWindows
  <2> HIDE DEF over
  <2>6. {w.start : w \in PressureWindows}
          = {queueDepthTimeline[i].cycle : i \in over}
    BY <2>2, <2>3
  <2>7. \A w \in PressureWindows :
          /\ w.samples = 1 /\ w.cycles = {w.start} /\ w.end = w.start
          /\ w.peakStage = "cycle_before_policy"
    BY <2>2, <2>3
  <2>8. QED
    BY <2>2, <2>4, <2>5, <2>6, <2>7 DEF PressureSummariesAgree, over
<1>2. PressureIInv => PressureSummariesAgree
  BY <1>1 DEF PressureSummariesAgree
<1>3. QED
  BY <1>2, PressureInvariant, PTL

-----------------------------------------------------------------------------
(***************************************************************************)
(* The cycles of the executions.                                           *)
(***************************************************************************)
ExecutedAt(i) == resultEvents[i].frame.cycle + resultEvents[i].delay

\* The executions were made in cycles that have passed, in their order and
\* each in one of its own; every turn of the drain loop that has passed has
\* one; and the cycles end with those asked for unless the run drains.
ExecutionsInv ==
  /\ \A t \in Task : \A i \in DOMAIN queue[t] : queue[t][i].cycle <= cycle
  /\ \A f \in inFlight : f.cycle <= cycle
  /\ Len(resultEvents) = SumFunction(executed)
  /\ ~ config.drain =>
       /\ cycle <= config.frames
       /\ pc \notin {"done", "failed"} => cycle < config.frames
  /\ ~ config.fileBacked =>
       /\ \A i \in DOMAIN resultEvents :
            resultEvents[i].delay \in Nat /\ ExecutedAt(i) < cycle
       /\ \A i, j \in DOMAIN resultEvents :
            i < j => ExecutedAt(i) < ExecutedAt(j)
       /\ \A c \in config.frames .. cycle - 1 :
            \E i \in DOMAIN resultEvents : ExecutedAt(i) = c

(* The number of the cycle never falls.                                    *)
LEMMA CycleGrows ==
  ASSUME TypeOK, [Next]_vars
  PROVE  cycle \in Nat /\ cycle' \in Nat /\ cycle <= cycle'
<1>1. cycle \in Nat
  BY DEF TypeOK
<1>2. cycle' = cycle \/ cycle' = cycle + 1
  BY DEF Next, SkipTask, Enqueue, BeginShedding, PassByTask, ShedTask,
         EndShedding, Schedule, WorkerReturns, WorkerRaises,
         NothingToExecute, Continue, controlVars, vars
<1>3. QED
  BY <1>1, <1>2

(* A frame waits in the cycle of its arrival or later.                     *)
LEMMA QueuedSoFarStep ==
  ASSUME BacklogIInv, ExecutionsInv, [Next]_vars
  PROVE  /\ (\A t \in Task : \A i \in DOMAIN queue[t] :
               queue[t][i].cycle <= cycle)'
         /\ (\A f \in inFlight : f.cycle <= cycle)'
<1>1. TypeOK /\ TypeOK' /\ cycle \in Nat /\ cycle' \in Nat /\ cycle <= cycle'
  BY TypeStep, CycleGrows DEF BacklogIInv
<1>2. ASSUME NEW t \in Task, NEW i \in DOMAIN queue'[t]
      PROVE  queue'[t][i].cycle <= cycle'
  <2>1. queue[t] \in Seq(Frame)
    BY <1>1 DEF TypeOK, Queues
  <2>2. CASE queue'[t][i] = NewFrame(t)
    BY <1>1, <2>2 DEF NewFrame
  <2>3. ASSUME NEW j \in DOMAIN queue[t], queue'[t][i] = queue[t][j]
        PROVE  queue'[t][i].cycle <= cycle'
    <3>1. queue[t][j] \in Frame
      BY <2>1
    <3>2. queue[t][j].cycle \in Nat /\ queue[t][j].cycle <= cycle
      BY <3>1 DEF Frame, ExecutionsInv
    <3>3. QED
      BY <1>1, <2>3, <3>2
  <2>4. QED
    BY <1>1, <2>2, <2>3, QueuedFrames
<1>3. ASSUME NEW f \in inFlight' PROVE f.cycle <= cycle'
  <2>1. f \in inFlight \/ \E t \in Task : Schedule(t) /\ f = Head(queue[t])
    BY <1>3 DEF Next, SkipTask, Enqueue, BeginShedding, PassByTask, ShedTask,
                EndShedding, Schedule, WorkerReturns, WorkerRaises,
                NothingToExecute, controlVars, vars
  <2>2. CASE f \in inFlight
    <3>1. f \in Frame
      BY <1>1, <2>2 DEF TypeOK
    <3>2. f.cycle \in Nat /\ f.cycle <= cycle
      BY <2>2, <3>1 DEF Frame, ExecutionsInv
    <3>3. QED
      BY <1>1, <3>2
  <2>3. ASSUME NEW t \in Task, Schedule(t), f = Head(queue[t])
        PROVE  f.cycle <= cycle'
    <3>1. queue[t] \in Seq(Frame) /\ queue[t] # <<>>
      BY <1>1, <2>3 DEF TypeOK, Queues, Schedule, RemoveOldest
    <3>2. 1 \in DOMAIN queue[t] /\ f = queue[t][1] /\ f \in Frame
      BY <2>3, <3>1, HeadElement
    <3>3. f.cycle \in Nat /\ f.cycle <= cycle
      BY <3>2 DEF Frame, ExecutionsInv
    <3>4. QED
      BY <1>1, <3>3
  <2>4. QED
    BY <2>1, <2>2, <2>3
<1>4. QED
  BY <1>2, <1>3

(* An execution is made in the cycle that it ends.                         *)
LEMMA ExecutionPlaced ==
  ASSUME BacklogIInv, ExecutionsInv, OneInFlight,
         NEW latency \in Latencies, WorkerReturns(latency)
  PROVE  /\ Len(resultEvents') = SumFunction(executed')
         /\ (~ config.fileBacked =>
               /\ \A i \in DOMAIN resultEvents :
                    resultEvents[i].delay \in Nat /\ ExecutedAt(i) < cycle
               /\ \A i, j \in DOMAIN resultEvents :
                    i < j => ExecutedAt(i) < ExecutedAt(j)
               /\ \A c \in config.frames .. cycle - 1 :
                    \E i \in DOMAIN resultEvents : ExecutedAt(i) = c)'
<1>1. TypeOK /\ cycle \in Nat /\ cycle' = cycle + 1 /\ config' = config
      /\ config.frames \in Nat
  BY ConfigTyped DEF BacklogIInv, TypeOK, WorkerReturns, Continue
<1>2. PICK f \in Frame : /\ inFlight = {f} /\ inFlight' = {}
                         /\ RecordExecution(f, latency, cycle)
  BY <1>1, FrameOfWorker
<1>3. f.cycle \in Nat /\ f.cycle <= cycle /\ f.task \in Task
  BY <1>2 DEF Frame, ExecutionsInv
<1> DEFINE e == [frame |-> f, delay |-> SchedulerDelayCycles(f, cycle)]
<1>4. e \in ResultEvent
  BY <1>1, <1>2, <1>3 DEF ResultEvent, SchedulerDelayCycles, AtLeast
<1>5. ~ config.fileBacked => e.delay \in Nat /\ e.frame.cycle + e.delay = cycle
  BY <1>1, <1>3 DEF SchedulerDelayCycles, AtLeast
<1>6. /\ resultEvents \in Seq(ResultEvent)
      /\ resultEvents' = Append(resultEvents, e)
      /\ executed \in [Task -> Nat]
      /\ executed' = [executed EXCEPT ![f.task] = @ + 1]
  BY <1>1, <1>2 DEF TypeOK, TelemetryTypeOK, RecordExecution
<1> HIDE DEF e
<1>7. PICK n \in Nat :
        /\ n = Len(resultEvents)
        /\ DOMAIN resultEvents = 1 .. n
        /\ DOMAIN resultEvents' = 1 .. n + 1
        /\ Len(resultEvents') = n + 1
        /\ \A i \in 1 .. n : resultEvents'[i] = resultEvents[i]
        /\ resultEvents'[n + 1] = e
  BY <1>4, <1>6, LenProperties, AppendProperties
<1>8. Len(resultEvents') = SumFunction(executed')
  <2>1. SumFunction(executed') = SumFunction(executed) + 1
    BY <1>3, <1>6, SumPlusOne, TaskAssumption
  <2>2. QED
    BY <1>7, <2>1 DEF ExecutionsInv
<1>9. ASSUME ~ config.fileBacked
      PROVE  /\ \A i \in 1 .. n + 1 :
                  resultEvents'[i].delay \in Nat /\ ExecutedAt(i)' < cycle + 1
             /\ \A i, j \in 1 .. n + 1 :
                  i < j => ExecutedAt(i)' < ExecutedAt(j)'
             /\ \A c \in config.frames .. cycle :
                  \E i \in 1 .. n + 1 : ExecutedAt(i)' = c
  <2>1. /\ \A i \in 1 .. n :
             resultEvents[i].delay \in Nat /\ ExecutedAt(i) < cycle
        /\ \A i, j \in 1 .. n : i < j => ExecutedAt(i) < ExecutedAt(j)
        /\ \A c \in config.frames .. cycle - 1 :
             \E i \in 1 .. n : ExecutedAt(i) = c
    BY <1>7, <1>9 DEF ExecutionsInv
  <2>2. \A i \in 1 .. n : /\ ExecutedAt(i) \in Nat
                          /\ ExecutedAt(i)' = ExecutedAt(i)
                          /\ resultEvents'[i].delay = resultEvents[i].delay
    <3>1. \A i \in 1 .. n : resultEvents[i] \in ResultEvent
      BY <1>6, <1>7
    <3>2. \A i \in 1 .. n : resultEvents[i].frame.cycle \in Nat
      BY <3>1 DEF ResultEvent, Frame
    <3>3. QED
      BY <1>7, <2>1, <3>2 DEF ExecutedAt
  <2>3. ExecutedAt(n + 1)' = cycle /\ resultEvents'[n + 1].delay \in Nat
    BY <1>5, <1>7, <1>9 DEF ExecutedAt
  <2>4. /\ \A i \in 1 .. n + 1 : i \in 1 .. n \/ i = n + 1
        /\ \A i \in 1 .. n : i \in 1 .. n + 1
        /\ n + 1 \in 1 .. n + 1
    BY <1>7, LogGrows
  <2>5. \A i \in 1 .. n + 1 :
          resultEvents'[i].delay \in Nat /\ ExecutedAt(i)' < cycle + 1
    BY <1>1, <2>1, <2>2, <2>3, <2>4
  <2>6. ASSUME NEW i \in 1 .. n + 1, NEW j \in 1 .. n + 1, i < j
        PROVE  ExecutedAt(i)' < ExecutedAt(j)'
    <3>1. i \in 1 .. n
      BY <1>7, <2>6
    <3>2. QED
      BY <2>1, <2>2, <2>3, <2>4, <2>6, <3>1
  <2>7. ASSUME NEW c \in config.frames .. cycle
        PROVE  \E i \in 1 .. n + 1 : ExecutedAt(i)' = c
    <3>1. c = cycle \/ c \in config.frames .. cycle - 1
      BY <1>1
    <3>2. QED
      BY <2>1, <2>2, <2>3, <2>4, <3>1
  <2>8. QED
    BY <2>5, <2>6, <2>7
<1>10. cycle' - 1 = cycle
  BY <1>1
<1>11. QED
  BY <1>1, <1>7, <1>8, <1>9, <1>10

(* The loops of run keep the executions in their cycles.                   *)
LEMMA ExecutionsStep ==
  BacklogIInv /\ OneInFlight /\ ExecutionsInv /\ [Next]_vars => ExecutionsInv'
<1> SUFFICES ASSUME BacklogIInv, OneInFlight, ExecutionsInv, [Next]_vars
             PROVE  ExecutionsInv'
  OBVIOUS
<1>1. TypeOK /\ cycle \in Nat /\ config.frames \in Nat /\ config' = config
  BY ConfigTyped, StepsOfQueues DEF BacklogIInv, TypeOK
<1>2. /\ (\A t \in Task : \A i \in DOMAIN queue[t] :
            queue[t][i].cycle <= cycle)'
      /\ (\A f \in inFlight : f.cycle <= cycle)'
  BY QueuedSoFarStep
<1>3. ASSUME Continue, pc \notin {"done", "failed"}
      PROVE  (~ config.drain =>
                /\ cycle <= config.frames
                /\ pc \notin {"done", "failed"} => cycle < config.frames)'
  BY <1>1, <1>3 DEF Continue, ExecutionsInv
<1>4. ASSUME NEW latency \in Latencies, WorkerReturns(latency)
      PROVE  ExecutionsInv'
  BY <1>2, <1>3, <1>4, ExecutionPlaced DEF WorkerReturns, ExecutionsInv
<1>5. ASSUME UNCHANGED <<resultEvents, executed, cycle>>,
             pc' \in {"done", "failed"} \/ pc \notin {"done", "failed"}
      PROVE  ExecutionsInv'
  BY <1>1, <1>2, <1>5 DEF ExecutionsInv, ExecutedAt
<1>6. CASE NothingToExecute
  <2>1. ~ Draining /\ pc = "execute" /\ Continue
    BY <1>6, BacklogKept DEF NothingToExecute, DrainNeverStalls
  <2>2. cycle < config.frames /\ cycle' = cycle + 1
    BY <1>1, <2>1 DEF Draining, Continue
  <2>3. UNCHANGED <<resultEvents, executed>>
    BY <1>6 DEF NothingToExecute, telemetryVars
  <2>4. (~ config.fileBacked =>
           /\ \A i \in DOMAIN resultEvents :
                resultEvents[i].delay \in Nat /\ ExecutedAt(i) < cycle
           /\ \A i, j \in DOMAIN resultEvents :
                i < j => ExecutedAt(i) < ExecutedAt(j))'
    <3>1. ASSUME ~ config.fileBacked, NEW i \in DOMAIN resultEvents
          PROVE  ExecutedAt(i) \in Nat
      <4>1. resultEvents[i] \in ResultEvent
        BY <1>1 DEF TypeOK, TelemetryTypeOK
      <4>2. resultEvents[i].frame.cycle \in Nat
        BY <4>1 DEF ResultEvent, Frame
      <4>3. QED
        BY <3>1, <4>2 DEF ExecutionsInv, ExecutedAt
    <3>2. \A i \in DOMAIN resultEvents : ExecutedAt(i)' = ExecutedAt(i)
      BY <2>3 DEF ExecutedAt
    <3>3. QED
      BY <1>1, <2>2, <2>3, <3>1, <3>2 DEF ExecutionsInv
  <2>5. config'.frames .. cycle' - 1 = {}
    BY <1>1, <2>2
  <2>6. QED
    BY <1>1, <1>2, <1>3, <2>1, <2>3, <2>4, <2>5 DEF ExecutionsInv
<1>7. CASE UNCHANGED vars
  BY <1>5, <1>7 DEF vars, telemetryVars, ExecutionsInv, ExecutedAt
<1>8. QED
  BY <1>4, <1>5, <1>6, <1>7
     DEF Next, SkipTask, Enqueue, NextToEmit, BeginShedding, PassByTask,
         ShedTask, EndShedding, Schedule, WorkerRaises, controlVars,
         telemetryVars

\* What the samples and the executions of a run are to its cycles.
CoverageIInv == BacklogIInv /\ OneInFlight /\ PlacesInv /\ ExecutionsInv

(* The invariant behind the coverage of a report is inductive.             *)
LEMMA CoverageInvariant == Spec => []CoverageIInv
<1>1. Started => CoverageIInv
  <2>1. ASSUME Started PROVE PlacesInv /\ OneInFlight /\ ExecutionsInv
    <3>1. /\ queueDepthTimeline = <<>> /\ resultEvents = <<>>
          /\ executed = [t \in Task |-> 0] /\ inFlight = {}
          /\ queue = [t \in Task |-> <<>>]
          /\ cycle = 0 /\ config.frames \in Nat
          /\ pc = IF config.frames > 0 THEN "arrivals" ELSE "done"
      BY <2>1, ConfigTyped DEF Started, TelemetryInit, QueuesInit
    <3>2. SumFunction(executed) = 0
      <4>1. executed \in [Task -> Nat] /\ \A t \in Task : executed[t] = 0
        BY <3>1
      <4>2. QED
        BY <4>1, SumTyped, TaskAssumption
    <3>3. Len(resultEvents) = 0 /\ DOMAIN resultEvents = {}
      BY <3>1
    <3>4. config.frames .. cycle - 1 = {}
      BY <3>1
    <3>5. ExecutionsInv
      BY <3>1, <3>2, <3>3, <3>4 DEF ExecutionsInv
    <3>6. QED
      BY <3>1, <3>5 DEF PlacesInv, OneInFlight
  <2>2. QED
    BY <2>1, BacklogInit DEF CoverageIInv
<1>2. CoverageIInv /\ [Next]_vars => CoverageIInv'
  BY BacklogStep, OneInFlightStep, PlacesStep, ExecutionsStep
     DEF CoverageIInv, BacklogIInv
<1>3. QED
  BY <1>1, <1>2, StartedInit, PTL DEF Spec

(* The cycles a report has observed are those that have passed.            *)
LEMMA CyclesObserved ==
  ASSUME CoverageIInv, pc = "done"
  PROVE  /\ ObservedCycles = 0 .. cycle - 1
         /\ Cardinality(ObservedCycles) = cycle
         /\ Len(queueDepthTimeline) = 2 * cycle
<1>1. TypeOK /\ PlacesInv /\ cycle \in Nat
  BY DEF CoverageIInv, BacklogIInv, TypeOK
<1>2. PICK n \in Nat : /\ n = Len(queueDepthTimeline)
                       /\ DOMAIN queueDepthTimeline = 1 .. n
  BY <1>1, PlacesOfLog DEF TypeOK, TelemetryTypeOK
<1>3. n = 2 * cycle
  BY <1>1, <1>2 DEF PlacesInv
<1>4. \A i \in 1 .. n :
        /\ queueDepthTimeline[i].cycle \in Nat
        /\ \/ i = 2 * queueDepthTimeline[i].cycle + 1
           \/ i = 2 * queueDepthTimeline[i].cycle + 2
  <2>1. \A i \in 1 .. n : queueDepthTimeline[i].cycle \in Nat
    BY <1>1, <1>2, DepthTyped DEF DepthSample
  <2>2. QED
    BY <1>1, <1>2, <2>1 DEF PlacesInv
<1>5. \A i \in 1 .. n : queueDepthTimeline[i].cycle \in 0 .. cycle - 1
  BY <1>1, <1>3, <1>4
<1>6. ASSUME NEW c \in 0 .. cycle - 1
      PROVE  \E i \in 1 .. n : queueDepthTimeline[i].cycle = c
  <2>1. 2 * c + 1 \in 1 .. n
    BY <1>1, <1>3
  <2>2. PICK i \in 1 .. n : i = 2 * c + 1
    BY <2>1
  <2>3. /\ queueDepthTimeline[i].cycle \in Nat
        /\ \/ i = 2 * queueDepthTimeline[i].cycle + 1
           \/ i = 2 * queueDepthTimeline[i].cycle + 2
    BY <1>4
  <2>4. queueDepthTimeline[i].cycle = c
    BY <1>1, <2>2, <2>3
  <2>5. QED
    BY <2>4
<1>7. ObservedCycles = 0 .. cycle - 1
  BY <1>2, <1>5, <1>6 DEF ObservedCycles
<1>8. Cardinality(0 .. cycle - 1) = cycle
  <2>1. \A a, b \in Int :
          Cardinality(a .. b) = IF a > b THEN 0 ELSE b - a + 1
    BY FS_Interval
  <2>2. QED
    BY <1>1, <2>1
<1>9. QED
  BY <1>2, <1>3, <1>7, <1>8

(* The coverage a report claims is the run: no gap in its cycles, and each *)
(* execution in a cycle of its own among them.                             *)
THEOREM RuntimeCoverageIsComplete == Spec => []CoverageIsComplete
<1>1. ASSUME CoverageIInv, Reported, ~ config.fileBacked
      PROVE  CoverageIsComplete
  <2> DEFINE executedIn == {e.frame.cycle + e.delay :
                              e \in ToSet(resultEvents)}
             extra == ObservedCycles \ (0 .. config.frames - 1)
  <2>1. /\ TypeOK /\ cycle \in Nat /\ config.frames \in Nat
        /\ config.drain \in BOOLEAN
    BY <1>1, ConfigTyped DEF CoverageIInv, BacklogIInv, TypeOK
  <2>2. /\ ObservedCycles = 0 .. cycle - 1
        /\ Cardinality(ObservedCycles) = cycle
        /\ Len(queueDepthTimeline) = 2 * cycle
    BY <1>1, CyclesObserved DEF Reported
  <2>3. /\ Len(resultEvents) = SumFunction(executed)
        /\ ~ config.drain => cycle <= config.frames
        /\ \A i \in DOMAIN resultEvents :
             resultEvents[i].delay \in Nat /\ ExecutedAt(i) < cycle
        /\ \A i, j \in DOMAIN resultEvents :
             i < j => ExecutedAt(i) < ExecutedAt(j)
        /\ \A c \in config.frames .. cycle - 1 :
             \E i \in DOMAIN resultEvents : ExecutedAt(i) = c
    BY <1>1 DEF CoverageIInv, ExecutionsInv
  <2>4. PICK n \in Nat : /\ n = Len(resultEvents)
                         /\ DOMAIN resultEvents = 1 .. n
    BY <2>1, PlacesOfLog DEF TypeOK, TelemetryTypeOK
  <2>5. executedIn = {ExecutedAt(i) : i \in 1 .. n}
    BY <2>4 DEF ToSet, ExecutedAt
  <2> HIDE DEF executedIn
  <2>6. \A i \in 1 .. n : ExecutedAt(i) \in 0 .. cycle - 1
    <3>1. \A i \in 1 .. n : resultEvents[i] \in ResultEvent
      BY <2>1, <2>4 DEF TypeOK, TelemetryTypeOK
    <3>2. \A i \in 1 .. n : resultEvents[i].frame.cycle \in Nat
      BY <3>1 DEF ResultEvent, Frame
    <3>3. \A i \in 1 .. n : ExecutedAt(i) \in Nat
      BY <2>3, <2>4, <3>2 DEF ExecutedAt
    <3>4. QED
      BY <2>1, <2>3, <2>4, <3>3
  <2>7. Cardinality(executedIn) = n
    <3> DEFINE f == [i \in 1 .. n |-> ExecutedAt(i)]
    <3>1. IsFiniteSet(1 .. n) /\ Cardinality(1 .. n) = n
      <4>1. 1 \in Int /\ n \in Int
        OBVIOUS
      <4>2. Cardinality(1 .. n) = IF 1 > n THEN 0 ELSE n - 1 + 1
        BY <4>1, FS_Interval
      <4>3. IsFiniteSet(1 .. n)
        BY <2>4, FS_Interval
      <4>4. QED
        BY <2>4, <4>2, <4>3
    <3>2. f \in Surjection(1 .. n, executedIn)
      BY <2>5 DEF Surjection
    <3>3. \A i, j \in 1 .. n : ExecutedAt(i) = ExecutedAt(j) => i = j
      <4>1. \A i, j \in 1 .. n : i < j => ExecutedAt(i) < ExecutedAt(j)
        BY <2>3, <2>4
      <4>2. QED
        BY <2>6, <4>1
    <3>4. f \in Injection(1 .. n, executedIn)
      BY <2>5, <3>3 DEF Injection, IsInjective
    <3> HIDE DEF f
    <3>5. QED
      BY <3>1, <3>2, <3>4, FS_Surjection
  <2>8. executedIn \subseteq ObservedCycles
    BY <2>2, <2>5, <2>6
  <2>9. extra \subseteq executedIn /\ (~ config.drain => extra = {})
    BY <2>1, <2>2, <2>3, <2>4, <2>5
  <2>10. /\ ScenarioCoverage.cycleCount = cycle
         /\ ScenarioCoverage.queueSamples = 2 * cycle
         /\ ScenarioCoverage.executed = n
         /\ ScenarioCoverage.latencySamples = n
    BY <2>2, <2>3, <2>4 DEF ScenarioCoverage
  <2> HIDE DEF extra
  <2>11. QED
    BY <2>2, <2>7, <2>8, <2>9, <2>10
       DEF CoverageIsComplete, executedIn, extra
<1>2. CoverageIInv => CoverageIsComplete
  BY <1>1 DEF CoverageIsComplete
<1>3. QED
  BY <1>2, CoverageInvariant, PTL

-----------------------------------------------------------------------------
(***************************************************************************)
(* The frames of a task are counted.                                       *)
(***************************************************************************)
\* The cycles in which t has emitted a frame so far.
EmittedIn(t) ==
  {c \in 0 .. config.frames - 1 :
     /\ Emits(t, c)
     /\ c < cycle \/ (c = cycle /\ ~ (pc = "arrivals" /\ t \in toVisit))}

WithWorker(t) == {f \in inFlight : f.task = t}

\* Each frame of a task is executed, dropped, queued or with the worker; the
\* run ends after the last cycle, and a drain ends with empty queues.
TakenInv ==
  /\ \A t \in Task :
       executed[t] + dropped[t] + Backlog(t) + Cardinality(WithWorker(t))
         = Cardinality(EmittedIn(t))
  /\ pc = "done" => Draining
  /\ pc = "done" /\ config.drain => NonEmptyTasks = {}

(* The cycles of the emissions are numbers, finitely many.                 *)
LEMMA EmittedTyped ==
  ASSUME TypeOK, NEW t \in Task
  PROVE  IsFiniteSet(EmittedIn(t)) /\ Cardinality(EmittedIn(t)) \in Nat
<1>1. config.frames - 1 \in Int
  BY ConfigTyped DEF TypeOK
<1>2. IsFiniteSet(0 .. config.frames - 1)
  BY <1>1, FS_Interval
<1>3. EmittedIn(t) \in SUBSET (0 .. config.frames - 1)
  BY DEF EmittedIn
<1>4. QED
  BY <1>2, <1>3, FS_Subset, FS_CardinalityType

(* A frame that a source builds is of a cycle that was not counted yet.    *)
LEMMA EmissionCounted ==
  ASSUME BacklogIInv, NEW t \in Task, Enqueue(t)
  PROVE  Cardinality(EmittedIn(t)') = Cardinality(EmittedIn(t)) + 1
<1>1. /\ TypeOK /\ cycle \in Nat /\ config.frames \in Nat
      /\ pc = "arrivals" /\ t \in toVisit /\ t \notin toVisit'
      /\ pc' = pc /\ cycle' = cycle /\ config' = config /\ Emits(t, cycle)
  BY ConfigTyped
     DEF BacklogIInv, TypeOK, Enqueue, NextToEmit, NextInOrder, controlVars
<1>2. cycle \in 0 .. config.frames - 1
  BY <1>1 DEF BacklogIInv, BacklogInv, Draining
<1>3. EmittedIn(t)' = EmittedIn(t) \cup {cycle}
  BY <1>1, <1>2 DEF EmittedIn, Emits
<1>4. cycle \notin EmittedIn(t)
  BY <1>1 DEF EmittedIn
<1>5. QED
  BY <1>1, <1>3, <1>4, EmittedTyped, FS_AddElement

(* No other step counts a cycle of the task.                               *)
LEMMA EmissionsKept ==
  ASSUME BacklogIInv, [Next]_vars, NEW t \in Task, ~ Enqueue(t)
  PROVE  EmittedIn(t)' = EmittedIn(t)
<1>1. /\ TypeOK /\ cycle \in Nat /\ config.frames \in Nat /\ config' = config
      /\ \A c : Emits(t, c)' <=> Emits(t, c)
  BY ConfigTyped, StepsOfQueues DEF BacklogIInv, TypeOK, Emits
<1>2. ASSUME cycle' = cycle,
             (pc' = "arrivals" /\ t \in toVisit')
               <=> (pc = "arrivals" /\ t \in toVisit)
      PROVE  EmittedIn(t)' = EmittedIn(t)
  BY <1>1, <1>2 DEF EmittedIn
<1>3. ASSUME NEW s \in Task, SkipTask(s) PROVE EmittedIn(t)' = EmittedIn(t)
  <2>1. /\ cycle' = cycle /\ pc' = pc /\ toVisit' = toVisit \ {s}
        /\ ~ Emits(s, cycle)
    BY <1>3 DEF SkipTask, NextToEmit, controlVars
  <2>2. CASE s = t
    BY <1>1, <2>1, <2>2 DEF EmittedIn
  <2>3. CASE s # t
    BY <1>2, <2>1, <2>3
  <2>4. QED
    BY <2>2, <2>3
<1>4. ASSUME NEW s \in Task \ {t}, Enqueue(s)
      PROVE  EmittedIn(t)' = EmittedIn(t)
  BY <1>2, <1>4 DEF Enqueue, NextToEmit, controlVars
<1>5. CASE BeginShedding
  BY <1>2, <1>5 DEF BeginShedding
<1>6. ASSUME NEW s \in Task, PassByTask(s) \/ ShedTask(s) \/ Schedule(s)
      PROVE  EmittedIn(t)' = EmittedIn(t)
  BY <1>2, <1>6 DEF PassByTask, ShedTask, Schedule, controlVars
<1>7. CASE EndShedding \/ WorkerRaises
  BY <1>2, <1>7 DEF EndShedding, WorkerRaises
<1>8. ASSUME Continue, pc \in {"execute", "work"}
      PROVE  EmittedIn(t)' = EmittedIn(t)
  <2>1. \A c \in 0 .. config.frames - 1 :
          (c < cycle \/ (c = cycle /\ ~ (pc = "arrivals" /\ t \in toVisit)))
          <=> (c < cycle' \/
                 (c = cycle' /\ ~ (pc' = "arrivals" /\ t \in toVisit')))
    BY <1>1, <1>8 DEF Continue
  <2>2. QED
    BY <1>1, <2>1 DEF EmittedIn
<1>9. CASE NothingToExecute
  <2>1. Continue /\ pc = "execute"
    BY <1>9, BacklogKept DEF NothingToExecute, DrainNeverStalls
  <2>2. QED
    BY <1>8, <2>1
<1>10. CASE UNCHANGED vars
  BY <1>2, <1>10 DEF vars
<1>11. ASSUME NEW latency \in Latencies, WorkerReturns(latency)
       PROVE  EmittedIn(t)' = EmittedIn(t)
  BY <1>8, <1>11 DEF WorkerReturns
<1>12. QED
  BY <1>3, <1>4, <1>5, <1>6, <1>7, <1>9, <1>10, <1>11 DEF Next

(* What the worker has of a task is a frame or nothing.                    *)
LEMMA WithWorkerCounted ==
  ASSUME NEW t \in Task
  PROVE  /\ inFlight = {} => Cardinality(WithWorker(t)) = 0
         /\ \A f : inFlight = {f} =>
              Cardinality(WithWorker(t)) = IF f.task = t THEN 1 ELSE 0
<1>1. inFlight = {} => WithWorker(t) = {}
  BY DEF WithWorker
<1>2. \A f : inFlight = {f} =>
        WithWorker(t) = IF f.task = t THEN {f} ELSE {}
  BY DEF WithWorker
<1>3. QED
  BY <1>1, <1>2, FS_EmptySet, FS_Singleton

(* The same holds after a step.                                            *)
LEMMA WithWorkerCountedNext ==
  ASSUME NEW t \in Task
  PROVE  /\ inFlight' = {} => Cardinality(WithWorker(t)') = 0
         /\ \A f : inFlight' = {f} =>
              Cardinality(WithWorker(t)') = IF f.task = t THEN 1 ELSE 0
<1>1. inFlight' = {} => WithWorker(t)' = {}
  BY DEF WithWorker
<1>2. \A f : inFlight' = {f} =>
        WithWorker(t)' = IF f.task = t THEN {f} ELSE {}
  BY DEF WithWorker
<1>3. QED
  BY <1>1, <1>2, FS_EmptySet, FS_Singleton

\* The frames of t that have a place.
Placed(t) == executed[t] + dropped[t] + Backlog(t) + Cardinality(WithWorker(t))

(* The terms of the sum are numbers.                                       *)
LEMMA PlacedTyped ==
  ASSUME TypeOK, OneInFlight, NEW t \in Task
  PROVE  /\ executed[t] \in Nat /\ dropped[t] \in Nat /\ Backlog(t) \in Nat
         /\ Cardinality(WithWorker(t)) \in Nat
<1>1. executed[t] \in Nat /\ dropped[t] \in Nat /\ Backlog(t) \in Nat
  BY BacklogTyped DEF TypeOK, TelemetryTypeOK
<1>2. inFlight = {} \/ \E f : inFlight = {f}
  BY DEF OneInFlight
<1>3. QED
  BY <1>1, <1>2, WithWorkerCounted

(* A frame that arrives is queued, or it or the oldest of its task is      *)
(* dropped.                                                                *)
LEMMA EnqueuePlaced ==
  ASSUME AccountIInv, NEW t \in Task, NEW s \in Task, Enqueue(s)
  PROVE  Placed(t)' = IF s = t THEN Placed(t) + 1 ELSE Placed(t)
<1>1. /\ TypeOK /\ OneInFlight /\ executed' = executed
      /\ inFlight' = inFlight
      /\ NewFrame(s) \in Frame /\ NewFrame(s).task = s
  BY NewFrameTyped DEF AccountIInv, Enqueue, controlVars
<1>2. Cardinality(WithWorker(t)') = Cardinality(WithWorker(t))
  BY <1>1 DEF WithWorker
<1>3. ASSUME NEW f \in Frame, NEW r, f.task = s, RecordDrop(f, r)
      PROVE  dropped'[t] = IF s = t THEN dropped[t] + 1 ELSE dropped[t]
  BY <1>1, <1>3 DEF RecordDrop, TypeOK, TelemetryTypeOK
<1>4. \/ /\ Backlog(t)' = IF s = t THEN Backlog(t) + 1 ELSE Backlog(t)
         /\ dropped'[t] = dropped[t]
      \/ /\ Backlog(t)' = Backlog(t)
         /\ dropped'[t] = IF s = t THEN dropped[t] + 1 ELSE dropped[t]
  <2>1. CASE Accept(NewFrame(s)) /\ dropped' = dropped
    BY <1>1, <2>1, AcceptEffect DEF TypeOK, Backlog
  <2>2. CASE /\ AcceptEvictingOldest(NewFrame(s))
             /\ RecordDrop(Head(queue[s]), "queue_overflow_drop_oldest")
    <3>1. /\ queue[s] # <<>>
          /\ Backlog(s)' = Backlog(s)
          /\ \A u \in Task \ {s} : queue'[u] = queue[u]
      BY <1>1, <2>2, EvictEffect DEF TypeOK
    <3>2. Head(queue[s]) \in Frame /\ Head(queue[s]).task = s
      <4>1. queue \in Queues /\ queue[s] \in Seq(Frame)
        BY <1>1 DEF TypeOK, Queues
      <4>2. 1 \in DOMAIN queue[s] /\ Head(queue[s]) = queue[s][1]
        BY <3>1, <4>1, HeadElement
      <4>3. QED
        BY <3>1, <4>1, <4>2, HeadIsFrame DEF AccountIInv, OwnFrames
    <3>3. QED
      BY <1>3, <2>2, <3>1, <3>2 DEF Backlog
  <2>3. CASE /\ RejectNewest(NewFrame(s))
             /\ RecordDrop(NewFrame(s), "queue_overflow_drop_newest")
    BY <1>1, <1>3, <2>3 DEF RejectNewest, Backlog
  <2>4. QED
    BY <2>1, <2>2, <2>3 DEF Enqueue
<1>5. QED
  BY <1>1, <1>2, <1>4, PlacedTyped DEF Placed

(* A frame shed is dropped, and was queued.                                *)
LEMMA ShedPlaced ==
  ASSUME AccountIInv, NEW t \in Task, NEW s \in Task, ShedTask(s)
  PROVE  Placed(t)' = Placed(t)
<1>1. /\ TypeOK /\ OneInFlight /\ executed' = executed
      /\ inFlight' = inFlight
      /\ RemoveOldest(s) /\ queue[s] # <<>>
      /\ dropped' = [dropped EXCEPT ![Head(queue[s]).task] = @ + 1]
  BY DEF AccountIInv, ShedTask, Shed, RemoveOldest, RecordDrop, controlVars
<1>2. Cardinality(WithWorker(t)') = Cardinality(WithWorker(t))
  BY <1>1 DEF WithWorker
<1>3. Head(queue[s]).task = s
  <2>1. queue[s] \in Seq(Frame)
    BY <1>1 DEF TypeOK, Queues
  <2>2. 1 \in DOMAIN queue[s] /\ Head(queue[s]) = queue[s][1]
    BY <1>1, <2>1, HeadElement
  <2>3. QED
    BY <2>2 DEF AccountIInv, OwnFrames
<1>4. dropped'[t] = IF s = t THEN dropped[t] + 1 ELSE dropped[t]
  BY <1>1, <1>3 DEF TypeOK, TelemetryTypeOK
<1>5. Backlog(t)' = IF s = t THEN Backlog(t) - 1 ELSE Backlog(t)
  BY <1>1, RemoveOldestEffect DEF TypeOK, Backlog
<1>6. QED
  BY <1>1, <1>2, <1>4, <1>5, PlacedTyped DEF Placed

(* A frame scheduled goes from its queue to the worker.                    *)
LEMMA SchedulePlaced ==
  ASSUME AccountIInv, NEW t \in Task, NEW s \in Task, Schedule(s)
  PROVE  Placed(t)' = Placed(t)
<1>1. /\ TypeOK /\ OneInFlight /\ executed' = executed /\ dropped' = dropped
      /\ inFlight = {} /\ inFlight' = {Head(queue[s])}
      /\ RemoveOldest(s) /\ queue[s] # <<>>
  BY ScheduleCases DEF AccountIInv, Schedule
<1>2. Head(queue[s]).task = s
  <2>1. queue[s] \in Seq(Frame)
    BY <1>1 DEF TypeOK, Queues
  <2>2. 1 \in DOMAIN queue[s] /\ Head(queue[s]) = queue[s][1]
    BY <1>1, <2>1, HeadElement
  <2>3. QED
    BY <2>2 DEF AccountIInv, OwnFrames
<1>3. /\ Cardinality(WithWorker(t)) = 0
      /\ Cardinality(WithWorker(t)') = IF s = t THEN 1 ELSE 0
  BY <1>1, <1>2, WithWorkerCounted, WithWorkerCountedNext
<1>4. Backlog(t)' = IF s = t THEN Backlog(t) - 1 ELSE Backlog(t)
  BY <1>1, RemoveOldestEffect DEF TypeOK, Backlog
<1>5. QED
  BY <1>1, <1>3, <1>4, PlacedTyped DEF Placed

(* A frame executed was with the worker.                                   *)
LEMMA ReturnPlaced ==
  ASSUME AccountIInv, NEW t \in Task, NEW latency \in Latencies,
         WorkerReturns(latency)
  PROVE  Placed(t)' = Placed(t)
<1>1. TypeOK /\ OneInFlight /\ queue' = queue /\ dropped' = dropped
  BY DEF AccountIInv, WorkerReturns
<1>2. PICK f \in Frame : /\ inFlight = {f} /\ inFlight' = {}
                         /\ RecordExecution(f, latency, cycle)
  BY <1>1, FrameOfWorker
<1>3. executed'[t] = IF f.task = t THEN executed[t] + 1 ELSE executed[t]
  BY <1>1, <1>2 DEF RecordExecution, TypeOK, TelemetryTypeOK
<1>4. /\ Cardinality(WithWorker(t)) = IF f.task = t THEN 1 ELSE 0
      /\ Cardinality(WithWorker(t)') = 0
  BY <1>2, WithWorkerCounted, WithWorkerCountedNext
<1>5. Backlog(t)' = Backlog(t)
  BY <1>1 DEF Backlog
<1>6. QED
  BY <1>1, <1>3, <1>4, <1>5, PlacedTyped DEF Placed

(* No other step gives a frame of the task a place or takes it away.       *)
LEMMA PlacedKept ==
  ASSUME AccountIInv, [Next]_vars, NEW t \in Task, ~ Enqueue(t)
  PROVE  Placed(t)' = Placed(t)
<1>1. ASSUME UNCHANGED <<executed, dropped, queue, inFlight>>
      PROVE  Placed(t)' = Placed(t)
  BY <1>1 DEF Placed, Backlog, WithWorker
<1>2. ASSUME NEW s \in Task, Enqueue(s) PROVE Placed(t)' = Placed(t)
  BY <1>2, EnqueuePlaced
<1>3. ASSUME NEW s \in Task, SkipTask(s) \/ PassByTask(s)
      PROVE  Placed(t)' = Placed(t)
  BY <1>1, <1>3 DEF SkipTask, PassByTask, PassBy, controlVars, telemetryVars
<1>4. CASE BeginShedding \/ EndShedding \/ WorkerRaises \/ NothingToExecute
  BY <1>1, <1>4 DEF BeginShedding, BeginWalk, EndShedding, sheddingVars,
                    WorkerRaises, NothingToExecute, telemetryVars
<1>5. CASE UNCHANGED vars
  BY <1>1, <1>5 DEF vars, telemetryVars
<1>6. QED
  BY <1>2, <1>3, <1>4, <1>5, ShedPlaced, SchedulePlaced, ReturnPlaced DEF Next

(* A run ends after its cycles, and a drain with nothing queued.           *)
LEMMA EndStep ==
  ASSUME BacklogIInv, TakenInv, [Next]_vars, pc' = "done"
  PROVE  Draining' /\ (config'.drain => NonEmptyTasks' = {})
<1>1. TypeOK /\ config' = config
  BY StepsOfQueues DEF BacklogIInv
<1>2. ASSUME Continue, queue' = queue
      PROVE  Draining' /\ (config'.drain => NonEmptyTasks' = {})
  <2>1. cycle' >= config.frames /\ (config.drain => TotalBacklog = 0)
    BY <1>2 DEF Continue
  <2>2. config.drain => NonEmptyTasks = {}
    BY <1>1, <2>1, BacklogNumber DEF BacklogIsNumber
  <2>3. QED
    BY <1>1, <1>2, <2>1, <2>2 DEF Draining, NonEmptyTasks
<1>3. ASSUME NEW latency \in Latencies, WorkerReturns(latency)
      PROVE  Draining' /\ (config'.drain => NonEmptyTasks' = {})
  BY <1>2, <1>3 DEF WorkerReturns
<1>4. CASE NothingToExecute
  <2>1. ~ Draining
    BY <1>4, BacklogKept DEF NothingToExecute, DrainNeverStalls
  <2>2. QED
    BY <1>2, <1>4, <2>1 DEF NothingToExecute
<1>5. CASE UNCHANGED vars
  BY <1>5 DEF vars, TakenInv, Draining, NonEmptyTasks
<1>6. QED
  BY <1>3, <1>4, <1>5
     DEF Next, SkipTask, Enqueue, NextToEmit, BeginShedding, PassByTask,
         ShedTask, EndShedding, Schedule, WorkerRaises, controlVars

(* Every step keeps the count of the frames of a task.                     *)
LEMMA TakenStep ==
  AccountIInv /\ BacklogIInv /\ TakenInv /\ [Next]_vars => TakenInv'
<1> SUFFICES ASSUME AccountIInv, BacklogIInv, TakenInv, [Next]_vars
             PROVE  TakenInv'
  OBVIOUS
<1>1. ASSUME NEW t \in Task PROVE Placed(t)' = Cardinality(EmittedIn(t)')
  <2>1. Placed(t) = Cardinality(EmittedIn(t))
    BY DEF TakenInv, Placed
  <2>2. CASE Enqueue(t)
    BY <2>1, <2>2, EnqueuePlaced, EmissionCounted
  <2>3. CASE ~ Enqueue(t)
    BY <2>1, <2>3, PlacedKept, EmissionsKept
  <2>4. QED
    BY <2>2, <2>3
<1>2. (pc = "done" => Draining)' /\ (pc = "done" /\ config.drain
                                       => NonEmptyTasks = {})'
  BY EndStep
<1>3. (\A t \in Task : Placed(t) = Cardinality(EmittedIn(t)))'
  BY <1>1
<1>4. QED
  BY <1>2, <1>3 DEF TakenInv, Placed

(* Nothing is emitted at the start.                                        *)
LEMMA TakenInit == Started => TakenInv
<1> SUFFICES ASSUME Started PROVE TakenInv
  OBVIOUS
<1>1. /\ executed = [t \in Task |-> 0] /\ dropped = [t \in Task |-> 0]
      /\ queue = [t \in Task |-> <<>>] /\ inFlight = {}
      /\ toVisit = Task /\ cycle = 0 /\ config.frames \in Nat
      /\ pc = IF config.frames > 0 THEN "arrivals" ELSE "done"
  BY ConfigTyped DEF Started, QueuesInit, TelemetryInit
<1>2. ASSUME NEW t \in Task
      PROVE  /\ executed[t] = 0 /\ dropped[t] = 0 /\ Backlog(t) = 0
             /\ Cardinality(WithWorker(t)) = 0
             /\ Cardinality(EmittedIn(t)) = 0
  <2>1. EmittedIn(t) = {}
    BY <1>1 DEF EmittedIn
  <2>2. executed[t] = 0 /\ dropped[t] = 0 /\ Backlog(t) = 0
    BY <1>1 DEF Backlog
  <2>3. QED
    BY <1>1, <2>1, <2>2, WithWorkerCounted, FS_EmptySet
<1>3. NonEmptyTasks = {}
  BY <1>1 DEF NonEmptyTasks
<1>4. pc = "done" => Draining
  BY <1>1 DEF Draining
<1>5. QED
  BY <1>2, <1>3, <1>4 DEF TakenInv

(* Once a run that drains has ended, each frame a task emitted in the      *)
(* cycles of the run is executed or dropped.                               *)
LEMMA AllSettled ==
  ASSUME TypeOK, OneInFlight, TakenInv, pc = "done", config.drain,
         NEW t \in Task
  PROVE  /\ executed[t] + dropped[t] =
              Cardinality({c \in 0 .. config.frames - 1 : Emits(t, c)})
         /\ executed[t] \in Nat /\ dropped[t] \in Nat
<1>1. executed[t] \in Nat /\ dropped[t] \in Nat
  BY PlacedTyped
<1>2. Backlog(t) = 0 /\ inFlight = {}
  BY BacklogTyped DEF TypeOK, TakenInv, NonEmptyTasks, OneInFlight
<1>3. Cardinality(WithWorker(t)) = 0
  BY <1>2, WithWorkerCounted
<1>4. EmittedIn(t) = {c \in 0 .. config.frames - 1 : Emits(t, c)}
  <2>1. cycle \in Nat /\ config.frames \in Nat /\ cycle >= config.frames
    BY ConfigTyped DEF TypeOK, TakenInv, Draining
  <2>2. \A c \in 0 .. config.frames - 1 : c < cycle
    BY <2>1
  <2>3. QED
    BY <2>2 DEF EmittedIn
<1>5. executed[t] + dropped[t] + Backlog(t) + Cardinality(WithWorker(t))
        = Cardinality(EmittedIn(t))
  BY DEF TakenInv
<1>6. executed[t] + dropped[t] = Cardinality(EmittedIn(t))
  BY <1>1, <1>2, <1>3, <1>5
<1>7. QED
  BY <1>1, <1>4, <1>6

-----------------------------------------------------------------------------
(***************************************************************************)
(* The drops of a full queue.                                              *)
(***************************************************************************)
Overflowed(t) ==
  \E i \in DOMAIN dropEvents :
    /\ dropEvents[i].frame.task = t
    /\ dropEvents[i].reason # "load_shedding_backlog_threshold_exceeded"

\* The peak of a task that lost a frame to its full queue is the size of the
\* queue, from the sample after the arrivals on.
OverflowInv ==
  \A t \in Task : Overflowed(t) =>
    \/ maxQueueBacklog[t] >= config.queueSize[t]
    \/ pc = "arrivals" /\ Backlog(t) >= config.queueSize[t]

(* A drop adds its entry, and no other.                                    *)
LEMMA DropOverflows ==
  ASSUME TypeOK, NEW f \in Frame, NEW r \in DropReasons, RecordDrop(f, r),
         NEW t \in Task, Overflowed(t)'
  PROVE  \/ Overflowed(t)
         \/ t = f.task /\ r # "load_shedding_backlog_threshold_exceeded"
<1> DEFINE e == [frame |-> f, reason |-> r]
<1>1. /\ dropEvents \in Seq(DropEvent) /\ e \in DropEvent
      /\ dropEvents' = Append(dropEvents, e)
  BY DEF TypeOK, TelemetryTypeOK, RecordDrop, DropEvent
<1>2. PICK i \in DOMAIN dropEvents' :
        /\ dropEvents'[i].frame.task = t
        /\ dropEvents'[i].reason # "load_shedding_backlog_threshold_exceeded"
  BY DEF Overflowed
<1>3. CASE i \in DOMAIN dropEvents /\ dropEvents'[i] = dropEvents[i]
  BY <1>2, <1>3 DEF Overflowed
<1>4. CASE dropEvents'[i] = e
  BY <1>2, <1>4
<1>5. QED
  <2> HIDE DEF e
  <2>1. QED
    BY <1>1, <1>2, <1>3, <1>4, AppendElements

(* A queue that overflows is full after the arrival as before it.          *)
LEMMA EnqueueOverflow ==
  ASSUME TypeOK, OwnFrames, OverflowInv, NEW s \in Task, Enqueue(s)
  PROVE  OverflowInv'
<1>1. /\ pc = "arrivals" /\ pc' = "arrivals" /\ config' = config
      /\ maxQueueBacklog' = maxQueueBacklog
      /\ NewFrame(s) \in Frame /\ NewFrame(s).task = s
      /\ config.queueSize[s] \in Nat
  BY NewFrameTyped, ConfigTyped
     DEF Enqueue, NextToEmit, controlVars, TypeOK, PositiveNat
<1>2. ASSUME NEW t \in Task, Overflowed(t)'
      PROVE  \/ maxQueueBacklog[t] >= config.queueSize[t]
             \/ Backlog(t)' >= config.queueSize[t]
  <2>1. CASE Accept(NewFrame(s)) /\ dropEvents' = dropEvents
    <3>1. Overflowed(t)
      BY <1>2, <2>1 DEF Overflowed
    <3>2. Backlog(t) \in Nat /\ config.queueSize[t] \in Nat
      BY BacklogTyped, ConfigTyped DEF TypeOK, PositiveNat
    <3>3. Backlog(t)' = Backlog(t) \/ Backlog(t)' = Backlog(t) + 1
      BY <1>1, <2>1, AcceptEffect DEF TypeOK, Backlog
    <3>4. QED
      BY <1>1, <3>1, <3>2, <3>3 DEF OverflowInv
  <2>2. ASSUME NEW f \in Frame, f.task = s, NEW r \in DropReasons,
               RecordDrop(f, r), ~ HasRoom(s),
               \A u \in Task : Backlog(u)' = Backlog(u)
        PROVE  \/ maxQueueBacklog[t] >= config.queueSize[t]
               \/ Backlog(t)' >= config.queueSize[t]
    <3>1. Overflowed(t) \/ t = s
      BY <1>2, <2>2, DropOverflows
    <3>2. Backlog(s) \in Nat
      BY BacklogTyped DEF TypeOK
    <3>3. t = s => Backlog(t)' >= config.queueSize[t]
      BY <1>1, <2>2, <3>2 DEF HasRoom
    <3>4. QED
      BY <1>1, <2>2, <3>1, <3>3 DEF OverflowInv
  <2>3. CASE /\ AcceptEvictingOldest(NewFrame(s))
             /\ RecordDrop(Head(queue[s]), "queue_overflow_drop_oldest")
    <3>1. /\ queue[s] # <<>> /\ ~ HasRoom(s)
          /\ \A u \in Task : Backlog(u)' = Backlog(u)
      BY <1>1, <2>3, EvictEffect DEF TypeOK, AcceptEvictingOldest, Backlog
    <3>2. Head(queue[s]) \in Frame /\ Head(queue[s]).task = s
      <4>1. queue \in Queues /\ queue[s] \in Seq(Frame)
        BY DEF TypeOK, Queues
      <4>2. 1 \in DOMAIN queue[s] /\ Head(queue[s]) = queue[s][1]
        BY <3>1, <4>1, HeadElement
      <4>3. QED
        BY <3>1, <4>1, <4>2, HeadIsFrame DEF OwnFrames
    <3>3. "queue_overflow_drop_oldest" \in DropReasons
      BY DEF DropReasons
    <3>4. QED
      BY <2>2, <2>3, <3>1, <3>2, <3>3
  <2>4. CASE /\ RejectNewest(NewFrame(s))
             /\ RecordDrop(NewFrame(s), "queue_overflow_drop_newest")
    <3>1. /\ ~ HasRoom(s) /\ \A u \in Task : Backlog(u)' = Backlog(u)
      BY <1>1, <2>4 DEF RejectNewest, Backlog
    <3>2. "queue_overflow_drop_newest" \in DropReasons
      BY DEF DropReasons
    <3>3. QED
      BY <1>1, <2>2, <2>4, <3>1, <3>2
  <2>5. QED
    BY <2>1, <2>3, <2>4 DEF Enqueue
<1>3. QED
  BY <1>1, <1>2 DEF OverflowInv

(* A sample does not lower a peak, and shows a queue that is full.         *)
LEMMA SampleOverflow ==
  ASSUME TypeOK, OverflowInv, dropEvents' = dropEvents, config' = config,
         NEW stage, RecordBacklog(cycle, stage)
  PROVE  OverflowInv'
<1>1. ASSUME NEW t \in Task, Overflowed(t)'
      PROVE  maxQueueBacklog'[t] >= config.queueSize[t]
  <2>1. Overflowed(t)
    BY <1>1 DEF Overflowed
  <2>2. /\ maxQueueBacklog[t] \in Nat /\ Backlog(t) \in Nat
        /\ config.queueSize[t] \in Nat
        /\ maxQueueBacklog'[t] = AtLeast(maxQueueBacklog[t], Backlog(t))
    BY BacklogTyped, ConfigTyped
       DEF TypeOK, TelemetryTypeOK, RecordBacklog, PositiveNat
  <2>3. QED
    BY <2>1, <2>2 DEF OverflowInv, AtLeast
<1>2. QED
  BY <1>1 DEF OverflowInv

(* Every step keeps the overflows with the peaks.                          *)
LEMMA OverflowStep ==
  TypeOK /\ OwnFrames /\ OverflowInv /\ [Next]_vars => OverflowInv'
<1> SUFFICES ASSUME TypeOK, OwnFrames, OverflowInv, [Next]_vars
             PROVE  OverflowInv'
  OBVIOUS
<1>1. ASSUME UNCHANGED <<config, dropEvents, maxQueueBacklog, queue, pc>>
      PROVE  OverflowInv'
  BY <1>1 DEF OverflowInv, Overflowed, Backlog
<1>2. ASSUME UNCHANGED <<config, dropEvents, maxQueueBacklog>>,
             pc # "arrivals"
      PROVE  OverflowInv'
  BY <1>2 DEF OverflowInv, Overflowed
<1>3. ASSUME NEW t \in Task, SkipTask(t) PROVE OverflowInv'
  BY <1>1, <1>3 DEF SkipTask, controlVars, telemetryVars
<1>4. ASSUME NEW t \in Task, PassByTask(t) \/ Schedule(t)
      PROVE  OverflowInv'
  BY <1>2, <1>4 DEF PassByTask, Schedule, controlVars, telemetryVars
<1>5. CASE BeginShedding
  BY <1>5, SampleOverflow DEF BeginShedding
<1>6. CASE EndShedding
  BY <1>6, SampleOverflow DEF EndShedding
<1>7. ASSUME NEW s \in Task, ShedTask(s) PROVE OverflowInv'
  <2>1. /\ pc = "shed" /\ maxQueueBacklog' = maxQueueBacklog
        /\ config' = config /\ queue[s] # <<>>
        /\ RecordDrop(Head(queue[s]),
                      "load_shedding_backlog_threshold_exceeded")
    BY <1>7 DEF ShedTask, Shed, RemoveOldest, controlVars
  <2>2. Head(queue[s]) \in Frame
    BY <2>1, HeadIsFrame DEF TypeOK
  <2>3. \A t \in Task : Overflowed(t)' => Overflowed(t)
    BY <2>1, <2>2, DropOverflows DEF DropReasons
  <2>4. QED
    BY <2>1, <2>3 DEF OverflowInv
<1>8. ASSUME NEW latency \in Latencies, WorkerReturns(latency)
      PROVE  OverflowInv'
  <2>1. PICK f \in inFlight : RecordExecution(f, latency, cycle)
    BY <1>8 DEF WorkerReturns
  <2>2. f \in Frame /\ f.task \in Task
    BY DEF TypeOK, Frame
  <2>3. \A t \in Task : /\ maxQueueBacklog[t] \in Nat
                        /\ config.queueSize[t] \in Nat
                        /\ Backlog(t) \in Nat
    BY BacklogTyped, ConfigTyped DEF TypeOK, TelemetryTypeOK, PositiveNat
  <2>4. \A t \in Task : maxQueueBacklog'[t] >= maxQueueBacklog[t]
    <3>1. /\ maxQueueBacklog \in [Task -> Nat]
          /\ maxQueueBacklog' =
               [maxQueueBacklog EXCEPT
                  ![f.task] = AtLeast(maxQueueBacklog[f.task],
                                      Backlog(f.task))]
      BY <2>1 DEF RecordExecution, TypeOK, TelemetryTypeOK
    <3>2. AtLeast(maxQueueBacklog[f.task], Backlog(f.task))
            >= maxQueueBacklog[f.task]
      BY <2>2, <2>3 DEF AtLeast
    <3>3. QED
      BY <2>3, <3>1, <3>2
  <2>5. maxQueueBacklog' \in [Task -> Nat]
    BY <1>8, WorkerReturnsTyped DEF TypeOK, TelemetryTypeOK
  <2>6. pc = "work" /\ config' = config /\ dropEvents' = dropEvents
    BY <1>8 DEF WorkerReturns
  <2>7. \A t \in Task : maxQueueBacklog'[t] \in Nat
    BY <2>5
  <2>8. \A t \in Task : Overflowed(t)' => Overflowed(t)
    BY <2>6 DEF Overflowed
  <2>9. QED
    BY <2>3, <2>4, <2>6, <2>7, <2>8 DEF OverflowInv
<1>9. CASE WorkerRaises \/ NothingToExecute
  BY <1>2, <1>9 DEF WorkerRaises, NothingToExecute, telemetryVars
<1>10. CASE UNCHANGED vars
  BY <1>1, <1>10 DEF vars, telemetryVars
<1>11. QED
  BY <1>3, <1>4, <1>5, <1>6, <1>7, <1>8, <1>9, <1>10, EnqueueOverflow
     DEF Next

-----------------------------------------------------------------------------
(***************************************************************************)
(* What a report says of its run.                                          *)
(***************************************************************************)
\* What the logs and the counters of a run are to what happened in it.
ReportIInv == PressureIInv /\ ExecutionsInv /\ TakenInv /\ OverflowInv

(* The invariant behind the report is inductive.                           *)
LEMMA ReportInvariant == Spec => []ReportIInv
<1>1. Started => OverflowInv
  BY DEF Started, TelemetryInit, OverflowInv, Overflowed
<1>2. OverflowInv /\ TakenInv /\ ExecutionsInv /\ PressureIInv /\ [Next]_vars
        => OverflowInv' /\ TakenInv' /\ ExecutionsInv'
  BY OverflowStep, TakenStep, ExecutionsStep
     DEF PressureIInv, EvidenceIInv, AccountIInv
<1>3. Started => TakenInv
  BY TakenInit
<1>4. QED
  BY <1>1, <1>2, <1>3, StartedInit, PressureInvariant, CoverageInvariant, PTL
     DEF Spec, CoverageIInv, ReportIInv

(* A task that lost a frame to a full queue is reported with the reason    *)
(* queue_reached_capacity.                                                 *)
THEOREM RuntimeOverflowShowsCapacity == Spec => []OverflowShowsCapacity
<1>1. ASSUME ReportIInv, Reported, NEW t \in Task,
             {i \in DOMAIN dropEvents : dropEvents[i].frame.task = t}
               # LoadSheds(t)
      PROVE  "queue_reached_capacity" \in WorkerHealth(t).healthReasons
  <2>1. Overflowed(t)
    BY <1>1 DEF LoadSheds, Overflowed
  <2>2. maxQueueBacklog[t] >= config.queueSize[t]
    BY <1>1, <2>1 DEF ReportIInv, OverflowInv, Reported
  <2>3. TaskPressureState(t) = "at_capacity"
    BY <2>2 DEF TaskPressureState
  <2>4. "queue_reached_capacity" \in HealthReasons(t)
    BY <2>3, Zenon DEF HealthReasons
  <2>5. QED
    BY <2>4 DEF WorkerHealth
<1>2. ReportIInv => OverflowShowsCapacity
  BY <1>1 DEF OverflowShowsCapacity
<1>3. QED
  BY <1>2, ReportInvariant, PTL

(* Without a delay event, each execution of a source that writes the cycle *)
(* was made in the cycle of its frame.                                     *)
LEMMA NoDelays ==
  ASSUME ExecutionsInv, ~ config.fileBacked,
         NEW i \in DOMAIN resultEvents, i \notin SchedulerDelayEvents
  PROVE  resultEvents[i].delay = 0
<1>1. resultEvents[i].delay \in Nat
  BY DEF ExecutionsInv
<1>2. resultEvents[i].delay # NoDelay
  BY <1>1, NoDelayAssumption
<1>3. QED
  BY <1>1, <1>2 DEF SchedulerDelayEvents

(* Without a decision nothing was shed.                                    *)
LEMMA NoDecisions ==
  ASSUME TypeOK, DecisionsCounted, policyDecisions = <<>>, NEW t \in Task
  PROVE  LoadSheds(t) = {}
<1>1. IsFiniteSet(LoadSheds(t))
  BY PlacesOfLog DEF TypeOK, TelemetryTypeOK, LoadSheds
<1>2. Limitings(t) = {}
  BY DEF Limitings
<1>3. Cardinality(LoadSheds(t)) = Cardinality(Limitings(t))
  BY DEF DecisionsCounted
<1>4. Cardinality(Limitings(t)) = 0
  BY <1>2, FS_EmptySet
<1>5. QED
  BY <1>1, <1>3, <1>4, FS_EmptySet

(* A run without drops, once it has drained, has executed all its frames.  *)
LEMMA AllExecuted ==
  ASSUME AccountIInv, DropsCounted, TakenInv, pc = "done", config.drain,
         \A t \in Task : dropped[t] = 0
  PROVE  Executed = 1 .. sequence
<1>1. TypeOK /\ OneInFlight
  BY DEF AccountIInv
<1>2. dropEvents \in Seq(DropEvent)
  BY <1>1 DEF TypeOK, TelemetryTypeOK
<1>3. DOMAIN dropEvents = {}
  <2>1. ASSUME NEW i \in DOMAIN dropEvents PROVE FALSE
    <3>1. dropEvents[i] \in DropEvent
      BY <1>2
    <3>2. PICK t \in Task : t = dropEvents[i].frame.task
      BY <3>1 DEF DropEvent, Frame
    <3>3. i \in Drops(t)
      BY <3>2 DEF Drops
    <3>4. IsFiniteSet(Drops(t))
      BY <1>2, PlacesOfLog DEF Drops
    <3>5. Cardinality(Drops(t)) = 0
      BY DEF DropsCounted
    <3>6. QED
      BY <3>3, <3>4, <3>5, FS_EmptySet
  <2>2. QED
    BY <2>1
<1>4. Dropped = {}
  BY <1>3 DEF Dropped
<1>5. InFlight = {}
  BY <1>1 DEF OneInFlight, InFlight
<1>6. Slots = {}
  <2>1. TotalBacklog = 0
    BY <1>1, TotalIsZero DEF TypeOK, TakenInv
  <2>2. IsFiniteSet(Slots)
    BY <1>1, SlotsFinite DEF TypeOK
  <2>3. QED
    BY <2>1, <2>2, FS_EmptySet DEF TotalBacklog
<1>7. Queued = {}
  BY <1>6 DEF Queued
<1>8. QED
  BY <1>4, <1>5, <1>7 DEF AccountIInv, FramesAccounted

(* The risk level of a report is honest: without a review no frame waited, *)
(* was late or was shed, and a nominal run that drained has executed all   *)
(* its frames, which the health of the workers covers.                     *)
THEOREM RuntimeRiskLevelIsHonest == Spec => []RiskLevelIsHonest
<1>1. ASSUME ReportIInv, Reported
      PROVE  /\ TypeOK /\ ExecutionsInv /\ TakenInv /\ AccountIInv
             /\ DropsCounted /\ DecisionsCounted /\ OneInFlight
             /\ PressureIInv /\ pc = "done"
  BY <1>1 DEF ReportIInv, PressureIInv, EvidenceIInv, AccountIInv, Reported
<1>2. ASSUME ReportIInv, Reported, ~ config.fileBacked, RiskLevel # "review"
      PROVE  /\ \A i \in DOMAIN resultEvents : resultEvents[i].delay = 0
             /\ \A t \in Task : /\ LoadSheds(t) = {}
                                /\ deadlineMissed[t] = 0 /\ fallbackUsed[t] = 0
  <2>1. ~ ReviewReasons
    BY <1>2 DEF RiskLevel
  <2>2. /\ QueuePressureState # "overloaded" /\ SchedulerDelayEvents = {}
        /\ \A t \in Task : fallbackUsed[t] = 0 /\ deadlineMissed[t] = 0
    BY <1>1, <1>2, <2>1, RiskReasons
  <2>3. policyDecisions = <<>>
    BY <1>1, <1>2, <2>2, NoWindows, PeaksAgree
  <2>4. QED
    BY <1>1, <1>2, <2>2, <2>3, NoDelays, NoDecisions
<1>3. ASSUME ReportIInv, Reported, ~ config.fileBacked,
             RiskLevel = "nominal", config.drain
      PROVE  /\ Executed = 1 .. sequence
             /\ \A t \in Task :
                  /\ WorkerHealth(t).totalSeen =
                       Cardinality({c \in 0 .. config.frames - 1 :
                                      Emits(t, c)})
                  /\ WorkerHealth(t).totalSeen > 0 =>
                       WorkerHealth(t).riskSummary \in
                         {"without_runtime_risk", "queue_pressure_watch"}
  <2>1. \A t \in Task :
          dropped[t] = 0 /\ deadlineMissed[t] = 0 /\ fallbackUsed[t] = 0
    BY <1>1, <1>2, <1>3, RiskReasons
  <2>2. Executed = 1 .. sequence
    BY <1>1, <1>3, <2>1, AllExecuted
  <2>3. ASSUME NEW t \in Task
        PROVE  /\ WorkerHealth(t).totalSeen =
                    Cardinality({c \in 0 .. config.frames - 1 : Emits(t, c)})
               /\ WorkerHealth(t).totalSeen > 0 =>
                    WorkerHealth(t).riskSummary \in
                      {"without_runtime_risk", "queue_pressure_watch"}
    <3>1. /\ executed[t] + dropped[t] =
               Cardinality({c \in 0 .. config.frames - 1 : Emits(t, c)})
          /\ executed[t] \in Nat
      BY <1>1, <1>3, AllSettled
    <3>2. /\ WorkerHealth(t).totalSeen = executed[t] + dropped[t]
          /\ WorkerHealth(t).riskSummary = OperationRiskSummary(t)
      BY DEF WorkerHealth
    <3>3. executed[t] > 0 =>
            OperationRiskSummary(t) \in
              {"without_runtime_risk", "queue_pressure_watch"}
      BY <2>1, <3>1 DEF OperationRiskSummary
    <3>4. QED
      BY <2>1, <3>1, <3>2, <3>3
  <2>4. QED
    BY <2>2, <2>3
<1>4. ReportIInv => RiskLevelIsHonest
  BY <1>2, <1>3 DEF RiskLevelIsHonest
<1>5. QED
  BY <1>4, ReportInvariant, PTL

(* A task that the fairness summary does not list was served in time, and  *)
(* a task alone at the highest priority is not listed for what the         *)
(* scheduler did to it.                                                    *)
THEOREM RuntimeFairnessIsHonest == Spec => []FairnessIsHonest
<1> DEFINE emitted(t) == \E c \in 0 .. config.frames - 1 : Emits(t, c)
<1>1. ASSUME ReportIInv, Drained
      PROVE  /\ TypeOK /\ ExecutionsInv /\ TakenInv /\ DecisionsCounted
             /\ DropsCounted /\ OneInFlight
             /\ pc = "done" /\ config.drain
  BY <1>1 DEF ReportIInv, PressureIInv, EvidenceIInv, AccountIInv, Drained,
              Reported
<1>2. ASSUME ReportIInv, Drained, NEW t \in Task, emitted(t)
      PROVE  /\ executed[t] + dropped[t] > 0
             /\ executed[t] \in Nat /\ dropped[t] \in Nat
  <2> DEFINE E == {c \in 0 .. config.frames - 1 : Emits(t, c)}
  <2>1. config.frames - 1 \in Int
    BY <1>1, <1>2, ConfigTyped DEF TypeOK
  <2>2. IsFiniteSet(0 .. config.frames - 1)
    BY <2>1, FS_Interval
  <2>3. IsFiniteSet(E)
    BY <2>2, FS_Subset
  <2>4. E # {}
    BY <1>2
  <2>5. executed[t] + dropped[t] = Cardinality(E)
        /\ executed[t] \in Nat /\ dropped[t] \in Nat
    BY <1>1, <1>2, AllSettled
  <2> HIDE DEF E
  <2>6. Cardinality(E) \in Nat /\ Cardinality(E) # 0
    BY <2>3, <2>4, FS_CardinalityType, FS_EmptySet
  <2>7. QED
    BY <2>5, <2>6
<1>3. ASSUME ReportIInv, Drained, ~ config.fileBacked,
             NEW t \in Task, t \notin TasksWithStarvationRisk
      PROVE  /\ emitted(t) => executed[t] > 0
             /\ deadlineMissed[t] = 0
             /\ \A i \in DOMAIN resultEvents :
                  resultEvents[i].frame.task = t => resultEvents[i].delay = 0
  <2>1. StarvationReasons(t) = {}
    BY <1>3 DEF TasksWithStarvationRisk
  <2>2. /\ ~ (executed[t] = 0 /\ dropped[t] > 0)
        /\ DelayEvents(t) = {}
        /\ HealthState(t) # "degraded"
    BY <2>1, Zenon DEF StarvationReasons, Hint
  <2>3. emitted(t) => executed[t] > 0
    BY <1>2, <1>3, <2>2
  <2>4. deadlineMissed[t] = 0
    <3>1. deadlineMissed[t] \in Nat
      BY <1>1, <1>3 DEF TypeOK, TelemetryTypeOK
    <3>2. ~ (deadlineMissed[t] > 0)
      BY <2>2 DEF HealthState
    <3>3. QED
      BY <3>1, <3>2
  <2>5. \A i \in DOMAIN resultEvents :
          resultEvents[i].frame.task = t => i \notin SchedulerDelayEvents
    BY <2>2 DEF DelayEvents
  <2>6. QED
    BY <1>1, <1>3, <2>3, <2>4, <2>5, NoDelays
<1>4. ASSUME ReportIInv, TopPriorityNeverWaits, Drained,
             NEW t \in Task, TopPriority(t)
      PROVE  /\ deadlineMissed[t] = 0 => t \notin TasksWithStarvationRisk
             /\ emitted(t) => t \in ProtectedHighPriorityTasks
  <2>1. /\ dropped[t] = 0
        /\ \A i \in DOMAIN resultEvents :
             resultEvents[i].frame.task = t
               => resultEvents[i].delay \in {0, NoDelay}
    BY <1>4 DEF TopPriorityNeverWaits
  <2>2. DelayEvents(t) = {}
    BY <2>1 DEF DelayEvents, SchedulerDelayEvents
  <2>3. MaxDelay(t) = 0
    <3>1. {0} \cup {resultEvents[i].delay : i \in DelayEvents(t)} = {0}
      BY <2>2
    <3>2. Max({0}) = 0
      <4>1. IsFiniteSet({0})
        BY FS_Singleton
      <4>2. {0} \in SUBSET Nat /\ {0} # {}
        OBVIOUS
      <4>3. QED
        BY <4>1, <4>2, MaxOfNumbers
    <3>3. QED
      BY <3>1, <3>2 DEF MaxDelay
  <2>4. fallbackUsed[t] = 0
    <3>1. LoadSheds(t) \in SUBSET Drops(t)
      BY DEF LoadSheds, Drops
    <3>2. IsFiniteSet(Drops(t))
      BY <1>1, <1>4, PlacesOfLog DEF Drops, TypeOK, TelemetryTypeOK
    <3>3. Drops(t) = {}
      BY <1>1, <1>4, <2>1, <3>2, FS_EmptySet DEF DropsCounted
    <3>4. Cardinality(LoadSheds(t)) = 0
      BY <3>1, <3>3, FS_EmptySet
    <3>5. QED
      BY <1>1, <1>4, <3>4 DEF DecisionsCounted
  <2>5. ASSUME deadlineMissed[t] = 0 PROVE t \notin TasksWithStarvationRisk
    <3>1. HealthState(t) # "degraded"
      BY <2>1, <2>4, <2>5 DEF HealthState
    <3>2. ~ (dropped[t] > 0) /\ ~ (MaxDelay(t) >= 3) /\ ~ (fallbackUsed[t] > 0)
      BY <2>1, <2>3, <2>4
    <3>3. StarvationReasons(t) = {}
      BY <2>2, <3>1, <3>2, Zenon DEF StarvationReasons, Hint
    <3>4. QED
      BY <3>3 DEF TasksWithStarvationRisk
  <2>6. ASSUME emitted(t) PROVE t \in ProtectedHighPriorityTasks
    <3>1. executed[t] > 0
      BY <1>2, <1>4, <2>1, <2>6
    <3>2. \A s \in Task : config.priority[s] <= config.priority[t]
      <4>1. config.priority \in [Task -> Nat]
        BY <1>1, <1>4, ConfigTyped DEF TypeOK
      <4>2. QED
        BY <1>4, <4>1 DEF TopPriority
    <3>3. QED
      BY <3>1, <3>2 DEF ProtectedHighPriorityTasks
  <2>7. QED
    BY <2>5, <2>6
<1>5. ReportIInv /\ TopPriorityNeverWaits => FairnessIsHonest
  BY <1>3, <1>4 DEF FairnessIsHonest
<1>6. QED
  BY <1>5, ReportInvariant, RuntimeTopPriorityNeverWaits, PTL

=============================================================================
