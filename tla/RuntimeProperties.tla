-------------------------- MODULE RuntimeProperties --------------------------
(***************************************************************************)
(* The properties of OrchestratorRuntime.                                  *)
(***************************************************************************)
EXTENDS OrchestratorRuntime

-----------------------------------------------------------------------------
(***************************************************************************)
(* Accounting.                                                             *)
(***************************************************************************)
Queued   == {queue[s[1]][s[2]].sequence : s \in Slots}
InFlight == {f.sequence : f \in inFlight}
Executed == {resultEvents[i].frame.sequence : i \in DOMAIN resultEvents}
Dropped  == {dropEvents[i].frame.sequence : i \in DOMAIN dropEvents}

(* Every frame a source has emitted is in exactly one place: a queue, the  *)
(* hands of the worker, result_events or drop_events ("drops are not       *)
(* silent", docs/architecture.md).  The places together hold the numbers   *)
(* 1 .. sequence and have as many entries as there are numbers, so that no *)
(* frame is in two places or twice in one.                                 *)
FramesAccounted ==
  /\ Queued \cup InFlight \cup Executed \cup Dropped = 1 .. sequence
  /\ TotalBacklog + Cardinality(inFlight) + Len(resultEvents)
       + Len(dropEvents) = sequence

LoadSheds(t) ==
  {i \in DOMAIN dropEvents :
     /\ dropEvents[i].frame.task = t
     /\ dropEvents[i].reason = "load_shedding_backlog_threshold_exceeded"}

(* The counters of the report's "tasks" block agree with its logs, and     *)
(* each drop of the policy has one decision behind it, taken above the     *)
(* threshold and in favour of a backlogged task of no lower priority.      *)
EvidenceConsistent ==
  \A t \in Task :
    /\ executed[t] =
         Cardinality({i \in DOMAIN resultEvents :
                        resultEvents[i].frame.task = t})
    /\ dropped[t] =
         Cardinality({i \in DOMAIN dropEvents : dropEvents[i].frame.task = t})
    /\ LET decisions == {i \in DOMAIN policyDecisions :
                           policyDecisions[i].limited = t}
       IN  /\ Cardinality(LoadSheds(t)) = Cardinality(decisions)
           /\ fallbackUsed[t] = IF config.fallback[t]
                                  THEN Cardinality(decisions) ELSE 0
           /\ \A i \in decisions :
                LET d == policyDecisions[i]
                IN  /\ d.totalBefore > config.threshold
                    /\ d.depth[t] > 0
                    /\ \E p \in d.protected \ {t} :
                         /\ d.depth[p] > 0
                         /\ config.priority[p] >= config.priority[t]

(* The max_queue_backlog of a task is the deepest its queue has been       *)
(* sampled, and outside the arrivals of a cycle, whose effect the next     *)
(* sample shows, no queue is deeper than that: no peak is missed.          *)
PeakRecorded ==
  \A t \in Task :
    /\ \A i \in DOMAIN queueDepthTimeline :
         queueDepthTimeline[i].depth[t] <= maxQueueBacklog[t]
    /\ \/ maxQueueBacklog[t] = 0
       \/ \E i \in DOMAIN queueDepthTimeline :
            queueDepthTimeline[i].depth[t] = maxQueueBacklog[t]
    /\ pc # "arrivals" => Backlog(t) <= maxQueueBacklog[t]

-----------------------------------------------------------------------------
(***************************************************************************)
(* The queues.                                                             *)
(***************************************************************************)
(* No queue outgrows its queue_size, whatever the arrivals and the drops.  *)
QueueBound == \A t \in Task : Backlog(t) <= config.queueSize[t]

(* The frames of a task are served in the order of their arrival: a frame  *)
(* still queued is younger than the frames behind the head, the one with   *)
(* the worker and every frame of its task executed, evicted or shed.       *)
ServedInOrder ==
  /\ \A t \in Task : \A i, j \in DOMAIN queue[t] :
       i < j => queue[t][i].sequence < queue[t][j].sequence
  /\ \A t \in Task : \A i \in DOMAIN queue[t] :
       LET n == queue[t][i].sequence
       IN  /\ \A f \in inFlight : f.task = t => f.sequence < n
           /\ \A j \in DOMAIN resultEvents :
                resultEvents[j].frame.task = t
                  => resultEvents[j].frame.sequence < n
           /\ \A j \in DOMAIN dropEvents :
                (/\ dropEvents[j].frame.task = t
                 /\ dropEvents[j].reason # "queue_overflow_drop_newest")
                  => dropEvents[j].frame.sequence < n
  /\ \A i, j \in DOMAIN resultEvents :
       (i < j /\ resultEvents[i].frame.task = resultEvents[j].frame.task)
         => resultEvents[i].frame.sequence < resultEvents[j].frame.sequence

-----------------------------------------------------------------------------
(***************************************************************************)
(* Overload.                                                               *)
(***************************************************************************)
(* One walk of the policy takes at most one frame of each queue, and still *)
(* it always brings the backlog back to the threshold: a cycle adds one    *)
(* frame per task at most, the worker removes one, and every task that     *)
(* emitted can give one back, the protected task excepted.                 *)
BacklogWithinThreshold ==
  pc \in {"execute", "work"} => TotalBacklog <= config.threshold

(* Nothing is shed once the arrivals have ended: the drain loop only       *)
(* executes, although it calls the policy in every turn.                   *)
NoSheddingInDrain == Draining => ~ OverThreshold

(* While the drain loop runs the scheduler always has a candidate, so that *)
(* its break is never taken with frames left.                              *)
DrainNeverStalls == pc = "execute" /\ Draining => NonEmptyTasks # {}

(* A step of the policy that takes a frame of t leaves a protected task    *)
(* that t does not outrank with all its frames, and comes after every task *)
(* ranked below t has been taken from or found empty in the same walk.     *)
ShedsLowestFirst ==
  [][pc = "shed" /\ dropEvents' # dropEvents
       => LET before == queueDepthTimeline[Len(queueDepthTimeline)].depth
          IN  \A t \in Task : queue'[t] # queue[t]
                => /\ \E p \in NonEmptyTasks \ {t} :
                        /\ config.priority[p] >= config.priority[t]
                        /\ Backlog(p) = before[p]
                   /\ \A s \in Task :
                        config.priority[s] < config.priority[t]
                          => Backlog(s) = AtLeast(0, before[s] - 1)]_vars

(* The frame the worker gets is of the highest priority that is queued,    *)
(* and of no lower priority than the task the policy protected in this     *)
(* cycle: what was shed for a task never makes room for a lesser one.      *)
NoPriorityInversion ==
  [][\A f \in inFlight' \ inFlight :
       /\ \A s \in NonEmptyTasks :
            config.priority[s] <= config.priority[f.task]
       /\ \A p \in protected :
            config.priority[p] = config.priority[f.task]]_vars

TopPriority(t) ==
  \A s \in Task \ {t} : config.priority[s] < config.priority[t]

(* A task alone at the highest priority loses no frame and waits for none: *)
(* what it emits is executed in the cycle of its arrival, whatever the     *)
(* load of the others ("high-priority workloads stay responsive", README). *)
TopPriorityNeverWaits ==
  \A t \in Task : TopPriority(t) =>
    /\ dropped[t] = 0
    /\ \A i \in DOMAIN queue[t] : queue[t][i].cycle = cycle
    /\ \A f \in inFlight : f.task = t => f.cycle = cycle
    /\ \A i \in DOMAIN resultEvents :
         resultEvents[i].frame.task = t
           => resultEvents[i].delay \in {0, NoDelay}

-----------------------------------------------------------------------------
(***************************************************************************)
(* The induction behind BacklogWithinThreshold.  Owing is the set of tasks *)
(* that emitted in this cycle and have not been passed by the walk (the    *)
(* protected task stays in it).                                            *)
(***************************************************************************)
Emitting == {t \in Task : ~ Draining /\ Emits(t, cycle)}

Owing == IF pc = "arrivals" THEN Emitting \ toVisit
                            ELSE Emitting \cap (toVisit \cup protected)

(* Ahead of the worker's turn the backlog exceeds the threshold by less    *)
(* than the number of tasks that owe a frame, each of which has one; after *)
(* its turn the backlog is below the threshold.  The drain loop takes in   *)
(* nothing, and is entered and repeated only with frames left.             *)
BacklogInv ==
  /\ pc \in {"arrivals", "shed"} =>
       TotalBacklog <= config.threshold - 1 + Cardinality(Owing)
  /\ pc = "arrivals" /\ Draining => toVisit = {}
  /\ pc = "arrivals" => \A t \in Owing : queue[t] # <<>>
  /\ pc = "shed" => \A t \in Owing \cap toVisit : queue[t] # <<>>
  /\ \A s, t \in protected : s = t
  /\ pc = "execute" => TotalBacklog <= config.threshold
  /\ pc \in {"work", "done", "failed"} =>
       TotalBacklog <= config.threshold - 1
  /\ pc \in {"arrivals", "shed", "execute"} /\ Draining =>
       NonEmptyTasks # {}

-----------------------------------------------------------------------------
(***************************************************************************)
(* Liveness, under FairSpec.                                               *)
(***************************************************************************)
(* Frame n, once it waits in a queue of a run that drains, is executed or  *)
(* dropped, unless the worker raises first.                                *)
FrameSettles(n) ==
  (config.drain /\ n \in Queued) ~>
    (n \in Executed \cup Dropped \/ pc = "failed")

-----------------------------------------------------------------------------
(***************************************************************************)
(* The runtime implements the ledger of its frames.                        *)
(***************************************************************************)
Ledger == INSTANCE FrameLedger WITH
  arrived  <- sequence,
  waiting  <- Queued \cup InFlight,
  executed <- Executed,
  dropped  <- Dropped

(* Each step of the runtime is a step of FrameLedger, or changes nothing   *)
(* the ledger sees.                                                        *)
LedgerImplemented == Ledger!Spec

-----------------------------------------------------------------------------
(* What the documents say of a report: scheduler_delay_cycles and the      *)
(* tasks_with_scheduler_delay of the feed let a reviewer trace which       *)
(* workload was delayed.  A task with a frame executed after the cycle of  *)
(* its arrival has a positive delay in its result events.                  *)
DelayedTaskTraced ==
  [][\A f \in inFlight \ inFlight' :
       (pc' # "failed" /\ f.cycle < cycle)
         => LET delay == resultEvents'[Len(resultEvents')].delay
            IN  delay # NoDelay /\ delay > 0]_vars

=============================================================================
