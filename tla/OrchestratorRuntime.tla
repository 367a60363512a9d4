------------------------- MODULE OrchestratorRuntime -------------------------
(***************************************************************************)
(* OrchestratorRuntime.run (runtime.py): the cycle loop over the frame     *)
(* source, the bounded queues, the load-shedding policy, the scheduler,    *)
(* one worker and the telemetry, and the drain loop after it.              *)
(*                                                                         *)
(* The program is one thread.  A step is one iteration of an inner loop or *)
(* one call; what the environment decides is how long the worker takes     *)
(* and whether it raises.                                                  *)
(***************************************************************************)
EXTENDS PriorityScheduler, LoadShedding, Telemetry

CONSTANT Latencies    \* the latencies a worker may report

ASSUME LatenciesAssumption == Latencies \subseteq Nat

VARIABLES
  pc,           \* the statement run is about to execute
  cycle,        \* cycle, and drain_cycle after the last cycle
  sequence,     \* the frame source's _sequence
  inFlight      \* the frame popped and not recorded: a set of one, or none

controlVars == <<config, pc, cycle, inFlight>>
vars == <<config, queue, toVisit, protected, pc, cycle, sequence, inFlight,
          telemetryVars>>

PCs == {"arrivals", "shed", "execute", "work", "done", "failed"}

TypeOK ==
  /\ ValidConfig(config)
  /\ queue \in Queues
  /\ toVisit \in SUBSET Task
  /\ protected \in SUBSET Task
  /\ pc \in PCs
  /\ cycle \in Nat
  /\ sequence \in Nat
  /\ inFlight \in SUBSET Frame
  /\ TelemetryTypeOK

Init ==
  /\ config \in Configs
  /\ QueuesInit /\ TelemetryInit
  /\ toVisit = Task /\ protected = {}
  /\ pc = IF config.frames > 0 THEN "arrivals" ELSE "done"
  /\ cycle = 0 /\ sequence = 0
  /\ inFlight = {}

Draining == cycle >= config.frames

-----------------------------------------------------------------------------
(***************************************************************************)
(* Arrivals.  frames_for_cycle builds the frames of the cycle in the order *)
(* of the configuration and run enqueues them one by one; the frame of one *)
(* task is built and enqueued here in one step, since building the others  *)
(* touches nothing but the sequence number.                                *)
(***************************************************************************)
NextToEmit(t) ==
  /\ pc = "arrivals"
  /\ NextInOrder(t)
  /\ toVisit' = toVisit \ {t}

\* Mutated form: the number is taken before it is counted up.
NewFrameUncounted(t) == [task |-> t, sequence |-> sequence, cycle |-> cycle]

NewFrame(t) == [task |-> t, sequence |-> sequence + 1, cycle |-> cycle]

SkipTask(t) ==
  /\ NextToEmit(t)
  /\ ~ Emits(t, cycle)
  /\ UNCHANGED <<controlVars, queue, protected, sequence, telemetryVars>>

\* Mutated form: the drop of a full queue is not recorded.
EnqueueUnrecorded(t) ==
  /\ NextToEmit(t)
  /\ Emits(t, cycle)
  /\ sequence' = sequence + 1
  /\ \/ Accept(NewFrame(t))
     \/ AcceptEvictingOldest(NewFrame(t))
     \/ RejectNewest(NewFrame(t))
  /\ UNCHANGED <<controlVars, protected, telemetryVars>>

Enqueue(t) ==
  /\ NextToEmit(t)
  /\ Emits(t, cycle)
  /\ sequence' = sequence + 1
  /\ \/ /\ Accept(NewFrame(t))
        /\ UNCHANGED <<dropped, dropEvents>>
     \/ /\ AcceptEvictingOldest(NewFrame(t))
        /\ RecordDrop(Head(queue[t]), "queue_overflow_drop_oldest")
     \/ /\ RejectNewest(NewFrame(t))
        /\ RecordDrop(NewFrame(t), "queue_overflow_drop_newest")
  /\ UNCHANGED <<controlVars, protected, executed, deadlineMissed,
                 fallbackUsed, maxQueueBacklog, queueDepthTimeline,
                 resultEvents, scheduleDecisions, policyDecisions>>

-----------------------------------------------------------------------------
(***************************************************************************)
(* _record_backlog_and_shed.  apply collects the drops and the decisions   *)
(* and run records them when it returns; nothing else runs in between, so  *)
(* each is recorded here at its drop.                                      *)
(***************************************************************************)
BeginShedding ==
  /\ pc = "arrivals" /\ toVisit = {}
  /\ RecordBacklog(cycle, IF Draining THEN "drain_before_policy"
                                      ELSE "cycle_before_policy")
  /\ BeginWalk
  /\ pc' = "shed"
  /\ UNCHANGED <<config, cycle, sequence, inFlight, executed, dropped,
                 deadlineMissed, fallbackUsed, dropEvents, resultEvents,
                 scheduleDecisions, policyDecisions>>

PassByTask(t) ==
  /\ pc = "shed"
  /\ PassBy(t)
  /\ UNCHANGED <<controlVars, sequence, telemetryVars>>

ShedTask(t) ==
  /\ pc = "shed"
  /\ Shed(t)
  /\ RecordDrop(Head(queue[t]), "load_shedding_backlog_threshold_exceeded")
  /\ RecordPolicyDecision(t, protected)
  /\ UNCHANGED <<controlVars, sequence, executed, deadlineMissed,
                 maxQueueBacklog, queueDepthTimeline, resultEvents,
                 scheduleDecisions>>

EndShedding ==
  /\ pc = "shed" /\ WalkEnded
  /\ RecordBacklog(cycle, IF Draining THEN "drain_after_policy"
                                      ELSE "cycle_after_policy")
  /\ pc' = "execute"
  /\ UNCHANGED <<config, sheddingVars, cycle, sequence, inFlight, executed,
                 dropped, deadlineMissed, fallbackUsed, dropEvents,
                 resultEvents, scheduleDecisions, policyDecisions>>

-----------------------------------------------------------------------------
\* _execute_one, up to the call of the worker and after it.

Schedule(t) ==
  /\ pc = "execute"
  /\ ChosenNext(t)
  /\ RecordSchedule(t)
  /\ inFlight' = {Head(queue[t])}
  /\ RemoveOldest(t)
  /\ pc' = "work"
  /\ UNCHANGED <<config, toVisit, protected, cycle, sequence, executed,
                 dropped, deadlineMissed, fallbackUsed, maxQueueBacklog,
                 queueDepthTimeline, dropEvents, resultEvents,
                 policyDecisions>>

\* Mutated form: the drain stops one frame early.
ContinueUnlessLast ==
  /\ cycle' = cycle + 1
  /\ \/ /\ cycle' < config.frames
        /\ pc' = "arrivals" /\ toVisit' = Task
     \/ /\ cycle' >= config.frames
        /\ config.drain /\ TotalBacklog > 1
        /\ pc' = "arrivals" /\ toVisit' = {}
     \/ /\ cycle' >= config.frames
        /\ ~ config.drain \/ TotalBacklog <= 1
        /\ pc' = "done" /\ UNCHANGED toVisit

\* Mutated form: the drain loop does not look at the backlog.
ContinueUnchecked ==
  /\ cycle' = cycle + 1
  /\ \/ /\ cycle' < config.frames
        /\ pc' = "arrivals" /\ toVisit' = Task
     \/ /\ cycle' >= config.frames
        /\ IF config.drain THEN pc' = "arrivals" /\ toVisit' = {}
                           ELSE pc' = "done" /\ UNCHANGED toVisit

\* The next cycle, or the next turn of the drain loop, which takes in no
\* frame, or the end of the run.
Continue ==
  /\ cycle' = cycle + 1
  /\ \/ /\ cycle' < config.frames
        /\ pc' = "arrivals" /\ toVisit' = Task
     \/ /\ cycle' >= config.frames
        /\ config.drain /\ TotalBacklog > 0
        /\ pc' = "arrivals" /\ toVisit' = {}
     \/ /\ cycle' >= config.frames
        /\ ~ config.drain \/ TotalBacklog = 0
        /\ pc' = "done" /\ UNCHANGED toVisit

WorkerReturns(latency) ==
  /\ pc = "work"
  /\ \E f \in inFlight : RecordExecution(f, latency, cycle)
  /\ inFlight' = {}
  /\ Continue
  /\ UNCHANGED <<config, queue, protected, sequence, dropped, fallbackUsed,
                 queueDepthTimeline, dropEvents, scheduleDecisions,
                 policyDecisions>>

\* An exception of the worker leaves run: no report is made, and the frame
\* that was popped is in no log.
WorkerRaises ==
  /\ pc = "work"
  /\ pc' = "failed"
  /\ UNCHANGED <<config, queue, toVisit, protected, cycle, sequence,
                 inFlight, telemetryVars>>

\* choose_next finds no candidate: _execute_one returns False, which ends
\* the drain loop and goes unnoticed in the cycle loop.
NothingToExecute ==
  /\ pc = "execute" /\ NonEmptyTasks = {}
  /\ IF Draining
       THEN pc' = "done" /\ UNCHANGED <<cycle, toVisit>>
       ELSE Continue
  /\ UNCHANGED <<config, queue, protected, sequence, inFlight,
                 telemetryVars>>

Next ==
  \/ \E t \in Task : SkipTask(t)
  \/ \E t \in Task : Enqueue(t)
  \/ BeginShedding
  \/ \E t \in Task : PassByTask(t)
  \/ \E t \in Task : ShedTask(t)
  \/ EndShedding
  \/ \E t \in Task : Schedule(t)
  \/ \E latency \in Latencies : WorkerReturns(latency)
  \/ WorkerRaises
  \/ NothingToExecute

Spec == Init /\ [][Next]_vars

\* The interpreter goes on while run has something to do, and every call of
\* the worker comes back, with a result or an exception.
FairSpec == Spec /\ WF_vars(Next)

=============================================================================
