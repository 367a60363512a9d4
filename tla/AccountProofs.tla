--------------------------- MODULE AccountProofs ----------------------------
(***************************************************************************)
(* Proofs that an OrchestratorRuntime accounts for its frames: each is in  *)
(* one place, the frames of a task are served in the order of their        *)
(* numbers, and each step of the runtime is a step of FrameLedger, or one  *)
(* that the ledger does not see.                                           *)
(***************************************************************************)
EXTENDS RuntimeProofs

-----------------------------------------------------------------------------
(***************************************************************************)
(* The steps of a run, by what they do to the frames.                      *)
(***************************************************************************)
\* A step that moves no frame.
NoFrameMoves ==
  UNCHANGED <<config, queue, sequence, inFlight, dropEvents, resultEvents>>

FrameStep ==
  \/ NoFrameMoves
  \/ \E t \in Task : Enqueue(t) \/ ShedTask(t) \/ Schedule(t)
  \/ \E latency \in Latencies : WorkerReturns(latency)

(* Frames move in four actions only.                                       *)
LEMMA StepsOfFrames ==
  ASSUME [Next]_vars
  PROVE  FrameStep
<1> USE DEF FrameStep, NoFrameMoves
<1>1. ASSUME NEW t \in Task,
             SkipTask(t) \/ Enqueue(t) \/ ShedTask(t) \/ Schedule(t)
      PROVE  FrameStep
  BY <1>1 DEF SkipTask, controlVars, telemetryVars
<1>2. ASSUME NEW t \in Task, PassByTask(t) PROVE FrameStep
  BY <1>2 DEF PassByTask, PassBy, controlVars, telemetryVars
<1>3. CASE BeginShedding \/ EndShedding
  BY <1>3 DEF BeginShedding, BeginWalk, EndShedding, sheddingVars
<1>4. ASSUME NEW latency \in Latencies, WorkerReturns(latency)
      PROVE  FrameStep
  BY <1>4
<1>5. CASE WorkerRaises \/ NothingToExecute
  BY <1>5 DEF WorkerRaises, NothingToExecute, telemetryVars
<1>6. CASE UNCHANGED vars
  BY <1>6 DEF vars, telemetryVars
<1>7. QED
  BY <1>1, <1>2, <1>3, <1>4, <1>5, <1>6 DEF Next

-----------------------------------------------------------------------------
(***************************************************************************)
(* The numbers in the queues and in the logs.                              *)
(***************************************************************************)
QueuedByTask == \A n : n \in Queued <=> \E t \in Task : n \in Numbers(queue[t])

(* A number is queued if it is that of a frame in the queue of some task,  *)
LEMMA QueuedNumbers == queue \in Queues => QueuedByTask
<1> SUFFICES ASSUME queue \in Queues, NEW n
             PROVE  n \in Queued <=> \E t \in Task : n \in Numbers(queue[t])
  BY DEF QueuedByTask
<1>1. \A t \in Task : DOMAIN queue[t] = 1 .. Backlog(t)
  BY LenProperties DEF Queues, Backlog
<1>2. ASSUME n \in Queued PROVE \E t \in Task : n \in Numbers(queue[t])
  <2>1. PICK x \in Slots : queue[x[1]][x[2]].sequence = n
    BY <1>2 DEF Queued
  <2>2. PICK t \in Task, i \in Nat : x = <<t, i>>
    BY <2>1, SlotsArePairs
  <2>3. i \in 1 .. Backlog(t)
    BY <2>1, <2>2, SlotMembers
  <2>4. x[1] = t /\ x[2] = i
    BY <2>2
  <2>5. QED
    BY <1>1, <2>1, <2>3, <2>4 DEF Numbers
<1>3. ASSUME NEW t \in Task, n \in Numbers(queue[t]) PROVE n \in Queued
  <2>1. PICK i \in DOMAIN queue[t] : queue[t][i].sequence = n
    BY <1>3 DEF Numbers
  <2>2. <<t, i>> \in Slots
    BY <1>1, SlotMembers
  <2>3. <<t, i>>[1] = t /\ <<t, i>>[2] = i
    OBVIOUS
  <2>4. QED
    BY <2>1, <2>2, <2>3 DEF Queued
<1>4. QED
  BY <1>2, <1>3

(* and so it is in the state after.                                        *)
LEMMA QueuedNumbersNext == (queue \in Queues)' => QueuedByTask'
  BY QueuedNumbers, PTL

(* If the queue of one task changes, Queued changes by what that queue     *)
(* gains and loses.                                                        *)
LEMMA QueuedChange ==
  ASSUME queue \in Queues, queue' \in Queues, NEW t \in Task, NEW G, NEW L,
         \A s \in Task \ {t} : queue'[s] = queue[s],
         Numbers(queue'[t]) \cup L = Numbers(queue[t]) \cup G
  PROVE  Queued' \cup L = Queued \cup G
<1>1. QueuedByTask /\ QueuedByTask'
  BY QueuedNumbers, QueuedNumbersNext
<1>2. \A n : n \in Queued' <=> \E s \in Task : n \in Numbers(queue'[s])
  BY <1>1 DEF QueuedByTask, Numbers
<1>3. \A n : n \in Queued <=> \E s \in Task : n \in Numbers(queue[s])
  BY <1>1 DEF QueuedByTask
<1>4. \A s \in Task \ {t} : Numbers(queue'[s]) = Numbers(queue[s])
  OBVIOUS
<1>5. ASSUME NEW n \in Queued' PROVE n \in Queued \cup G
  BY <1>2, <1>3, <1>4, <1>5
<1>6. ASSUME NEW n \in Queued PROVE n \in Queued' \cup L
  BY <1>2, <1>3, <1>4, <1>6
<1>7. G \subseteq Queued' \cup L /\ L \subseteq Queued \cup G
  BY <1>2, <1>3
<1>8. QED
  BY <1>5, <1>6, <1>7

(* pop and drop_oldest take the number of the head out of the queues,      *)
LEMMA RemoveOldestNumbers ==
  ASSUME TypeOK, NEW t \in Task, RemoveOldest(t)
  PROVE  Queued' \cup {Head(queue[t]).sequence} = Queued
<1> DEFINE head == {Head(queue[t]).sequence}
           none == {}
<1>1. /\ queue \in Queues /\ queue' \in Queues
      /\ \A s \in Task \ {t} : queue'[s] = queue[s]
      /\ queue'[t] = Tail(queue[t])
      /\ queue[t] \in Seq(Frame) /\ queue[t] # <<>>
  BY RemoveOldestEffect DEF TypeOK, Queues, RemoveOldest
<1>2. Numbers(queue'[t]) \cup head = Numbers(queue[t]) \cup none
  BY <1>1, TailNumbers
<1>3. /\ queue \in Queues /\ queue' \in Queues
      /\ \A s \in Task \ {t} : queue'[s] = queue[s]
  BY <1>1
<1> HIDE DEF head, none
<1>4. Queued' \cup head = Queued \cup none
  BY <1>2, <1>3, QueuedChange
<1>5. QED
  BY <1>4 DEF head, none

(* a frame that finds room adds its own,                                   *)
LEMMA AcceptNumbers ==
  ASSUME TypeOK, NEW f \in Frame, Accept(f)
  PROVE  Queued' = Queued \cup {f.sequence}
<1> DEFINE t == f.task
           new == {f.sequence}
           none == {}
<1>1. /\ queue \in Queues /\ queue' \in Queues /\ t \in Task
      /\ \A s \in Task \ {t} : queue'[s] = queue[s]
      /\ queue'[t] = Append(queue[t], f)
      /\ queue[t] \in Seq(Frame)
  BY AcceptEffect DEF TypeOK, Queues, Accept, Frame
<1>2. Numbers(queue'[t]) \cup none = Numbers(queue[t]) \cup new
  BY <1>1, AppendNumbers
<1> HIDE DEF t, new, none
<1>3. Queued' \cup none = Queued \cup new
  BY <1>1, <1>2, QueuedChange
<1>4. QED
  BY <1>3 DEF new, none

(* and an eviction does both.                                              *)
LEMMA EvictNumbers ==
  ASSUME TypeOK, NEW f \in Frame, AcceptEvictingOldest(f)
  PROVE  Queued' \cup {Head(queue[f.task]).sequence}
           = Queued \cup {f.sequence}
<1> DEFINE t == f.task
           head == {Head(queue[t]).sequence}
           new == {f.sequence}
<1>1. /\ queue \in Queues /\ queue' \in Queues /\ t \in Task
      /\ \A s \in Task \ {t} : queue'[s] = queue[s]
      /\ queue'[t] = Append(Tail(queue[t]), f)
      /\ queue[t] \in Seq(Frame) /\ queue[t] # <<>>
  BY EvictEffect DEF TypeOK, Queues, AcceptEvictingOldest, Frame
<1>2. Tail(queue[t]) \in Seq(Frame)
  BY <1>1, HeadTailProperties
<1>3. Numbers(Append(Tail(queue[t]), f)) = Numbers(Tail(queue[t])) \cup new
  BY <1>2, AppendNumbers
<1>4. Numbers(queue[t]) = Numbers(Tail(queue[t])) \cup head
  BY <1>1, TailNumbers
<1>5. Numbers(queue'[t]) \cup head = Numbers(queue[t]) \cup new
  BY <1>1, <1>3, <1>4
<1>6. /\ queue \in Queues /\ queue' \in Queues /\ t \in Task
      /\ \A s \in Task \ {t} : queue'[s] = queue[s]
  BY <1>1
<1> HIDE DEF t, head, new
<1>7. Queued' \cup head = Queued \cup new
  BY <1>5, <1>6, QueuedChange
<1>8. QED
  BY <1>7 DEF head, new, t

(* An entry of result_events adds the number of its frame to Executed,     *)
LEMMA ExecutionNumbers ==
  ASSUME TypeOK, NEW f \in Frame, NEW latency,
         RecordExecution(f, latency, cycle)
  PROVE  Executed' = Executed \cup {f.sequence}
<1> DEFINE e == [frame |-> f, delay |-> SchedulerDelayCycles(f, cycle)]
<1>1. /\ resultEvents \in Seq(ResultEvent)
      /\ resultEvents' = Append(resultEvents, e)
  BY DEF TypeOK, TelemetryTypeOK, RecordExecution
<1>2. e \in ResultEvent
  BY DEF ResultEvent, SchedulerDelayCycles, AtLeast, TypeOK, Frame
<1>3. /\ DOMAIN resultEvents = 1 .. Len(resultEvents)
      /\ DOMAIN resultEvents' = 1 .. Len(resultEvents) + 1
      /\ Len(resultEvents) \in Nat
      /\ \A i \in 1 .. Len(resultEvents) : resultEvents'[i] = resultEvents[i]
      /\ resultEvents'[Len(resultEvents) + 1].frame = f
  BY <1>1, <1>2, AppendProperties, LenProperties
<1>4. QED
  BY <1>3, LogGrows DEF Executed

(* and an entry of drop_events the number of its frame to Dropped.         *)
LEMMA DropNumbers ==
  ASSUME TypeOK, NEW f \in Frame, NEW r \in DropReasons, RecordDrop(f, r)
  PROVE  Dropped' = Dropped \cup {f.sequence}
<1> DEFINE e == [frame |-> f, reason |-> r]
<1>1. dropEvents \in Seq(DropEvent) /\ dropEvents' = Append(dropEvents, e)
  BY DEF TypeOK, TelemetryTypeOK, RecordDrop
<1>2. e \in DropEvent
  BY DEF DropEvent
<1>3. /\ DOMAIN dropEvents = 1 .. Len(dropEvents)
      /\ DOMAIN dropEvents' = 1 .. Len(dropEvents) + 1
      /\ Len(dropEvents) \in Nat
      /\ \A i \in 1 .. Len(dropEvents) : dropEvents'[i] = dropEvents[i]
      /\ dropEvents'[Len(dropEvents) + 1].frame = f
  BY <1>1, <1>2, AppendProperties, LenProperties
<1>4. QED
  BY <1>3, LogGrows DEF Dropped

-----------------------------------------------------------------------------
(***************************************************************************)
(* The inductive invariant.                                                *)
(***************************************************************************)
\* The worker has one frame while it is called, and none otherwise.
OneInFlight ==
  IF pc \in {"work", "failed"} THEN \E f \in Frame : inFlight = {f}
                               ELSE inFlight = {}

\* No number is in the queues of two tasks.
QueuesApart ==
  \A s, t \in Task :
    s # t => Numbers(queue[s]) \cap Numbers(queue[t]) = {}

Increasing(q) ==
  \A i, j \in DOMAIN q : i < j => q[i].sequence < q[j].sequence

\* The numbers of the frames that have left the queue of t at its head.
Behind(t) ==
  {f.sequence : f \in {g \in inFlight : g.task = t}}
    \cup {resultEvents[i].frame.sequence :
            i \in {j \in DOMAIN resultEvents : resultEvents[j].frame.task = t}}
    \cup {dropEvents[i].frame.sequence :
            i \in {j \in DOMAIN dropEvents :
                     /\ dropEvents[j].frame.task = t
                     /\ dropEvents[j].reason # "queue_overflow_drop_newest"}}

QueuesInOrder ==
  \A t \in Task : /\ Increasing(queue[t])
                  /\ \A m \in Behind(t), n \in Numbers(queue[t]) : m < n

\* The frame with the worker is younger than the results of its task.
ResultsInOrder ==
  /\ \A f \in inFlight, i \in DOMAIN resultEvents :
       resultEvents[i].frame.task = f.task
         => resultEvents[i].frame.sequence < f.sequence
  /\ \A i, j \in DOMAIN resultEvents :
       (i < j /\ resultEvents[i].frame.task = resultEvents[j].frame.task)
         => resultEvents[i].frame.sequence < resultEvents[j].frame.sequence

AccountIInv ==
  /\ TypeOK /\ OwnFrames /\ OneInFlight /\ FramesAccounted
  /\ QueuesApart /\ QueuesInOrder /\ ResultsInOrder

-----------------------------------------------------------------------------
(* Schedule hands the worker a frame, and WorkerReturns takes it back.     *)
LEMMA OneInFlightStep ==
  TypeOK /\ OneInFlight /\ [Next]_vars => OneInFlight'
<1> SUFFICES ASSUME TypeOK, OneInFlight, [Next]_vars PROVE OneInFlight'
  OBVIOUS
<1>1. ASSUME NEW t \in Task,
             SkipTask(t) \/ Enqueue(t) \/ PassByTask(t) \/ ShedTask(t)
      PROVE  OneInFlight'
  BY <1>1 DEF SkipTask, Enqueue, PassByTask, ShedTask, controlVars,
              OneInFlight
<1>2. CASE BeginShedding \/ EndShedding
  BY <1>2 DEF BeginShedding, EndShedding, OneInFlight
<1>3. ASSUME NEW t \in Task, Schedule(t) PROVE OneInFlight'
  <2>1. Head(queue[t]) \in Frame
    BY <1>3, HeadIsFrame DEF TypeOK, Schedule, RemoveOldest
  <2>2. QED
    BY <1>3, <2>1 DEF Schedule, OneInFlight
<1>4. ASSUME NEW latency \in Latencies, WorkerReturns(latency)
      PROVE  OneInFlight'
  BY <1>4 DEF WorkerReturns, Continue, OneInFlight
<1>5. CASE WorkerRaises
  BY <1>5 DEF WorkerRaises, OneInFlight
<1>6. CASE NothingToExecute
  BY <1>6 DEF NothingToExecute, Continue, OneInFlight
<1>7. CASE UNCHANGED vars
  BY <1>7 DEF vars, OneInFlight
<1>8. QED
  BY <1>1, <1>2, <1>3, <1>4, <1>5, <1>6, <1>7 DEF Next

(* WorkerReturns is called with the one frame that has been popped.        *)
LEMMA FrameOfWorker ==
  ASSUME TypeOK, OneInFlight, NEW latency \in Latencies,
         WorkerReturns(latency)
  PROVE  \E f \in Frame : /\ inFlight = {f} /\ inFlight' = {}
                          /\ RecordExecution(f, latency, cycle)
BY DEF OneInFlight, WorkerReturns

-----------------------------------------------------------------------------
(***************************************************************************)
(* Accounting.                                                             *)
(***************************************************************************)
\* The frames in all places, counted.
Entries ==
  TotalBacklog + Cardinality(inFlight) + Len(resultEvents) + Len(dropEvents)

(* The parts of the count are numbers.                                     *)
LEMMA EntriesTyped ==
  ASSUME TypeOK
  PROVE  TotalBacklog \in Nat /\ Len(resultEvents) \in Nat
         /\ Len(dropEvents) \in Nat
BY SlotsFinite, LenProperties DEF TypeOK, TelemetryTypeOK

(* So are those of the next state.                                         *)
LEMMA EntriesTypedNext ==
  TypeOK' => Len(dropEvents') \in Nat /\ Len(resultEvents') \in Nat
  BY LenProperties DEF TypeOK, TelemetryTypeOK

(* The logs grow by one.                                                   *)
LEMMA LogLengths ==
  ASSUME TypeOK, NEW f \in Frame
  PROVE  /\ \A r \in DropReasons :
              RecordDrop(f, r) => Len(dropEvents') = Len(dropEvents) + 1
         /\ \A latency : RecordExecution(f, latency, cycle)
              => Len(resultEvents') = Len(resultEvents) + 1
<1>1. ASSUME NEW r \in DropReasons, RecordDrop(f, r)
      PROVE  Len(dropEvents') = Len(dropEvents) + 1
  <2>1. [frame |-> f, reason |-> r] \in DropEvent
    BY DEF DropEvent
  <2>2. QED
    BY <1>1, <2>1, AppendProperties DEF RecordDrop, TypeOK, TelemetryTypeOK
<1>2. ASSUME NEW latency, RecordExecution(f, latency, cycle)
      PROVE  Len(resultEvents') = Len(resultEvents) + 1
  <2>1. [frame |-> f, delay |-> SchedulerDelayCycles(f, cycle)]
          \in ResultEvent
    BY DEF ResultEvent, SchedulerDelayCycles, AtLeast, TypeOK, Frame
  <2>2. QED
    BY <1>2, <2>1, AppendProperties
       DEF RecordExecution, TypeOK, TelemetryTypeOK
<1>3. QED
  BY <1>1, <1>2

(* What an arrival does: the new number is the next one; it joins the      *)
(* queues, alone or for the head of its queue, or the dropped frames.      *)
LEMMA EnqueueCases ==
  ASSUME AccountIInv, NEW t \in Task, Enqueue(t)
  PROVE  /\ sequence' = sequence + 1
         /\ inFlight = {} /\ inFlight' = {} /\ resultEvents' = resultEvents
         /\ NewFrame(t) \in Frame /\ NewFrame(t).task = t
         /\ NewFrame(t).sequence = sequence + 1
         /\ \/ Accept(NewFrame(t)) /\ dropEvents' = dropEvents
            \/ /\ AcceptEvictingOldest(NewFrame(t))
               /\ queue[t] # <<>> /\ Head(queue[t]) \in Frame
               /\ RecordDrop(Head(queue[t]), "queue_overflow_drop_oldest")
            \/ /\ RejectNewest(NewFrame(t))
               /\ RecordDrop(NewFrame(t), "queue_overflow_drop_newest")
<1>1. TypeOK /\ pc = "arrivals" /\ inFlight' = inFlight
      /\ resultEvents' = resultEvents /\ sequence' = sequence + 1
  BY DEF AccountIInv, Enqueue, NextToEmit, controlVars
<1>2. inFlight = {}
  BY <1>1 DEF AccountIInv, OneInFlight
<1>3. NewFrame(t) \in Frame /\ NewFrame(t).task = t
      /\ NewFrame(t).sequence = sequence + 1
  BY <1>1, NewFrameTyped DEF NewFrame
<1>4. AcceptEvictingOldest(NewFrame(t)) =>
        queue[t] # <<>> /\ Head(queue[t]) \in Frame
  BY <1>1, <1>3, EvictEffect, HeadIsFrame DEF TypeOK
<1>5. QED
  BY <1>1, <1>2, <1>3, <1>4 DEF Enqueue

(* What the policy does with a frame of t.                                 *)
LEMMA ShedCases ==
  ASSUME AccountIInv, NEW t \in Task, ShedTask(t)
  PROVE  /\ sequence' = sequence /\ resultEvents' = resultEvents
         /\ inFlight = {} /\ inFlight' = {}
         /\ RemoveOldest(t) /\ queue[t] # <<>> /\ Head(queue[t]) \in Frame
         /\ RecordDrop(Head(queue[t]),
                       "load_shedding_backlog_threshold_exceeded")
<1>1. TypeOK /\ inFlight = {} /\ inFlight' = {}
  BY DEF AccountIInv, OneInFlight, ShedTask, controlVars
<1>2. RemoveOldest(t) /\ queue[t] # <<>>
  BY DEF ShedTask, Shed, RemoveOldest
<1>3. QED
  BY <1>1, <1>2, HeadIsFrame DEF ShedTask, TypeOK

(* What the scheduler does with it.                                        *)
LEMMA ScheduleCases ==
  ASSUME AccountIInv, NEW t \in Task, Schedule(t)
  PROVE  /\ UNCHANGED <<sequence, resultEvents, dropEvents>>
         /\ inFlight = {} /\ inFlight' = {Head(queue[t])}
         /\ RemoveOldest(t) /\ queue[t] # <<>> /\ Head(queue[t]) \in Frame
<1>1. TypeOK /\ inFlight = {}
  BY DEF AccountIInv, OneInFlight, Schedule
<1>2. RemoveOldest(t) /\ queue[t] # <<>>
  BY DEF Schedule, RemoveOldest
<1>3. QED
  BY <1>1, <1>2, HeadIsFrame DEF Schedule, TypeOK

(* An arrival adds the next number to the places, and one entry.           *)
LEMMA EnqueueAccounted ==
  ASSUME AccountIInv, TypeOK', NEW t \in Task, Enqueue(t)
  PROVE  FramesAccounted'
<1> DEFINE f == NewFrame(t)
           All == Queued \cup InFlight \cup Executed \cup Dropped
<1>1. TypeOK /\ sequence \in Nat /\ All = 1 .. sequence
      /\ Entries = sequence
  BY DEF AccountIInv, FramesAccounted, TypeOK, Entries
<1>2. /\ sequence' = sequence + 1 /\ inFlight' = inFlight
      /\ resultEvents' = resultEvents
      /\ f \in Frame /\ f.task = t /\ f.sequence = sequence + 1
  BY EnqueueCases
<1>3. InFlight' = InFlight /\ Executed' = Executed
  BY <1>2 DEF InFlight, Executed
<1>4. queue \in Queues /\ queue' \in Queues /\ ValidConfig(config)
  BY <1>1 DEF TypeOK
<1> HIDE DEF f
<1>5. /\ All' = All \cup {sequence + 1}
      /\ TotalBacklog' + Len(dropEvents')
           = TotalBacklog + Len(dropEvents) + 1
  <2>1. CASE Accept(f) /\ dropEvents' = dropEvents
    <3>1. Queued' = Queued \cup {sequence + 1} /\ Dropped' = Dropped
      BY <1>1, <1>2, <2>1, AcceptNumbers DEF Dropped
    <3>2. TotalBacklog' = TotalBacklog + 1
      BY <1>2, <1>4, <2>1, AcceptEffect, TotalPlusOne
    <3>3. QED
      BY <1>1, <1>3, <2>1, <3>1, <3>2, EntriesTyped
  <2>2. CASE /\ AcceptEvictingOldest(f)
             /\ queue[t] # <<>> /\ Head(queue[t]) \in Frame
             /\ RecordDrop(Head(queue[t]), "queue_overflow_drop_oldest")
    <3> DEFINE head == Head(queue[t])
    <3>1. Queued' \cup {head.sequence} = Queued \cup {sequence + 1}
      BY <1>1, <1>2, <2>2, EvictNumbers
    <3>2. /\ Dropped' = Dropped \cup {head.sequence}
          /\ Len(dropEvents') = Len(dropEvents) + 1
      BY <1>1, <2>2, DropNumbers, LogLengths DEF DropReasons
    <3>3. TotalBacklog' = TotalBacklog
      <4>1. \A s \in Task : Backlog(s)' = Backlog(s)
        BY <1>2, <1>4, <2>2, EvictEffect DEF Backlog
      <4>2. QED
        BY <4>1, TotalSame
    <3>4. QED
      BY <1>1, <1>3, <3>1, <3>2, <3>3, EntriesTyped
  <2>3. CASE /\ RejectNewest(f)
             /\ RecordDrop(f, "queue_overflow_drop_newest")
    <3>1. Queued' = Queued /\ TotalBacklog' = TotalBacklog
      BY <2>3 DEF RejectNewest, Queued, TotalBacklog, Slots, Backlog
    <3>2. /\ Dropped' = Dropped \cup {sequence + 1}
          /\ Len(dropEvents') = Len(dropEvents) + 1
      BY <1>1, <1>2, <2>3, DropNumbers, LogLengths DEF DropReasons
    <3>3. QED
      BY <1>1, <1>3, <3>1, <3>2, EntriesTyped
  <2>4. QED
    BY <2>1, <2>2, <2>3, EnqueueCases DEF f
<1>6. All' = 1 .. sequence'
  <2>1. \A n : n \in 1 .. sequence + 1 <=>
                 n \in 1 .. sequence \/ n = sequence + 1
    BY <1>1
  <2>2. QED
    BY <1>1, <1>2, <1>5, <2>1
<1>7. inFlight = {} /\ Cardinality(inFlight) = 0
  BY EnqueueCases, FS_EmptySet
<1>8. Entries' = sequence'
  <2>1. /\ Cardinality(inFlight') = 0 /\ Len(resultEvents') = Len(resultEvents)
        /\ sequence' = sequence + 1
    BY <1>2, <1>7
  <2>2. /\ TotalBacklog \in Nat /\ Len(resultEvents) \in Nat
        /\ Len(dropEvents) \in Nat
    BY <1>1, EntriesTyped
  <2>3. TotalBacklog' \in Nat /\ Len(dropEvents') \in Nat
    BY BacklogNumberNext, EntriesTypedNext DEF BacklogIsNumber
  <2>4. TotalBacklog' + Len(dropEvents') = TotalBacklog + Len(dropEvents) + 1
    BY <1>5
  <2>5. TotalBacklog + Len(resultEvents) + Len(dropEvents) = sequence
    BY <1>1, <1>7, <2>2 DEF Entries
  <2>6. Entries' = TotalBacklog' + 0 + Len(resultEvents) + Len(dropEvents')
    BY <2>1 DEF Entries
  <2>7. TotalBacklog' + 0 + Len(resultEvents) + Len(dropEvents')
          = sequence + 1
    BY <2>2, <2>3, <2>4, <2>5
  <2>8. QED
    BY <2>1, <2>6, <2>7
<1>9. QED
  BY <1>6, <1>8 DEF FramesAccounted, Entries

(* A frame that is shed goes from its queue to the dropped frames.         *)
LEMMA ShedAccounted ==
  ASSUME AccountIInv, TypeOK', NEW t \in Task, ShedTask(t)
  PROVE  FramesAccounted'
<1> DEFINE head == Head(queue[t])
<1>1. TypeOK /\ FramesAccounted
  BY DEF AccountIInv
<1>2. /\ sequence' = sequence /\ inFlight' = inFlight
      /\ resultEvents' = resultEvents /\ RemoveOldest(t) /\ head \in Frame
      /\ RecordDrop(head, "load_shedding_backlog_threshold_exceeded")
  BY ShedCases
<1>3. Queued' \cup {head.sequence} = Queued
  BY <1>1, <1>2, RemoveOldestNumbers
<1>4. /\ Dropped' = Dropped \cup {head.sequence}
      /\ Len(dropEvents') = Len(dropEvents) + 1
  BY <1>1, <1>2, DropNumbers, LogLengths DEF DropReasons
<1>5. TotalBacklog' = TotalBacklog - 1
  BY <1>1, <1>2, RemoveOldestEffect, TotalMinusOne DEF TypeOK
<1>6. InFlight' = InFlight /\ Executed' = Executed
  BY <1>2 DEF InFlight, Executed
<1>7. inFlight = {} /\ Cardinality(inFlight) = 0
  BY ShedCases, FS_EmptySet
<1>8. QED
  BY <1>1, <1>2, <1>3, <1>4, <1>5, <1>6, <1>7, EntriesTyped
     DEF FramesAccounted

(* A frame that is scheduled goes from its queue to the worker.            *)
LEMMA ScheduleAccounted ==
  ASSUME AccountIInv, TypeOK', NEW t \in Task, Schedule(t)
  PROVE  FramesAccounted'
<1> DEFINE head == Head(queue[t])
<1>1. TypeOK /\ FramesAccounted
  BY DEF AccountIInv
<1>2. /\ UNCHANGED <<sequence, resultEvents, dropEvents>>
      /\ inFlight = {} /\ inFlight' = {head} /\ RemoveOldest(t)
  BY ScheduleCases
<1>3. Queued' \cup {head.sequence} = Queued
  BY <1>1, <1>2, RemoveOldestNumbers
<1>4. TotalBacklog' = TotalBacklog - 1
  BY <1>1, <1>2, RemoveOldestEffect, TotalMinusOne DEF TypeOK
<1>5. /\ InFlight = {} /\ InFlight' = {head.sequence}
      /\ Executed' = Executed /\ Dropped' = Dropped
  BY <1>2 DEF InFlight, Executed, Dropped
<1>6. Cardinality(inFlight) = 0 /\ Cardinality(inFlight') = 1
  BY <1>2, FS_EmptySet, FS_Singleton
<1>7. QED
  BY <1>1, <1>2, <1>3, <1>4, <1>5, <1>6, EntriesTyped DEF FramesAccounted

(* A result goes from the worker to result_events.                         *)
LEMMA WorkerReturnsAccounted ==
  ASSUME AccountIInv, NEW latency \in Latencies, WorkerReturns(latency)
  PROVE  FramesAccounted'
<1>1. TypeOK /\ FramesAccounted
  BY DEF AccountIInv
<1>2. PICK f \in Frame : /\ inFlight = {f} /\ inFlight' = {}
                         /\ RecordExecution(f, latency, cycle)
  BY FrameOfWorker DEF AccountIInv
<1>3. UNCHANGED <<queue, sequence, dropEvents>>
  BY DEF WorkerReturns
<1>4. /\ Queued' = Queued /\ TotalBacklog' = TotalBacklog
      /\ Dropped' = Dropped
  BY <1>3 DEF Queued, TotalBacklog, Slots, Backlog, Dropped
<1>5. /\ Executed' = Executed \cup {f.sequence}
      /\ Len(resultEvents') = Len(resultEvents) + 1
  BY <1>1, <1>2, ExecutionNumbers, LogLengths
<1>6. InFlight = {f.sequence} /\ InFlight' = {}
  BY <1>2 DEF InFlight
<1>7. Cardinality(inFlight) = 1 /\ Cardinality(inFlight') = 0
  BY <1>2, FS_EmptySet, FS_Singleton
<1>8. QED
  BY <1>1, <1>3, <1>4, <1>5, <1>6, <1>7, EntriesTyped DEF FramesAccounted

(* A step that moves no frame changes no place.                            *)
LEMMA NoMoveAccounted ==
  ASSUME FramesAccounted, NoFrameMoves
  PROVE  FramesAccounted'
BY DEF FramesAccounted, NoFrameMoves, Queued, InFlight, Executed, Dropped,
       TotalBacklog, Slots, Backlog

-----------------------------------------------------------------------------
(***************************************************************************)
(* The order of the numbers.                                               *)
(***************************************************************************)
(* The numbers of frames are positive.                                     *)
LEMMA NumbersTyped ==
  ASSUME NEW q \in Seq(Frame)
  PROVE  Numbers(q) \subseteq Nat
<1>1. \A i \in DOMAIN q : q[i] \in Frame
  BY LenProperties
<1>2. QED
  BY <1>1 DEF Numbers, Frame, PositiveNat

(* The tail of a queue in order is in order, and behind its head.          *)
LEMMA IncreasingTail ==
  ASSUME NEW q \in Seq(Frame), q # <<>>, Increasing(q)
  PROVE  /\ Increasing(Tail(q))
         /\ \A n \in Numbers(Tail(q)) : Head(q).sequence < n
<1>1. /\ DOMAIN q = 1 .. Len(q) /\ Len(q) \in Nat /\ Len(q) >= 1
      /\ DOMAIN Tail(q) = 1 .. Len(q) - 1
      /\ \A i \in 1 .. Len(q) - 1 : Tail(q)[i] = q[i + 1]
      /\ Head(q) = q[1]
  BY HeadTailProperties, LenProperties, EmptySeq
<1>2. \A i, j \in 1 .. Len(q) : i < j => q[i].sequence < q[j].sequence
  BY <1>1 DEF Increasing
<1>3. \A i \in 1 .. Len(q) - 1 : i + 1 \in 1 .. Len(q) /\ 1 < i + 1
  BY <1>1
<1>4. Increasing(Tail(q))
  <2> SUFFICES ASSUME NEW i \in 1 .. Len(q) - 1, NEW j \in 1 .. Len(q) - 1,
                      i < j
               PROVE  Tail(q)[i].sequence < Tail(q)[j].sequence
    BY <1>1 DEF Increasing
  <2>1. i + 1 < j + 1
    OBVIOUS
  <2>2. q[i + 1].sequence < q[j + 1].sequence
    BY <1>2, <1>3, <2>1
  <2>3. QED
    BY <1>1, <2>2
<1>5. ASSUME NEW n \in Numbers(Tail(q)) PROVE Head(q).sequence < n
  <2>1. PICK i \in 1 .. Len(q) - 1 : Tail(q)[i].sequence = n
    BY <1>1, <1>5 DEF Numbers
  <2>2. 1 \in 1 .. Len(q)
    BY <1>1
  <2>3. q[1].sequence < q[i + 1].sequence
    BY <1>2, <1>3, <2>2
  <2>4. QED
    BY <1>1, <2>1, <2>3
<1>6. QED
  BY <1>4, <1>5

(* A younger frame may be appended.                                        *)
LEMMA IncreasingAppend ==
  ASSUME NEW q \in Seq(Frame), NEW f \in Frame, Increasing(q),
         \A n \in Numbers(q) : n < f.sequence
  PROVE  Increasing(Append(q, f))
<1>1. /\ DOMAIN q = 1 .. Len(q) /\ Len(q) \in Nat
      /\ DOMAIN Append(q, f) = 1 .. Len(q) + 1
      /\ \A i \in 1 .. Len(q) : Append(q, f)[i] = q[i]
      /\ Append(q, f)[Len(q) + 1] = f
  BY AppendProperties, LenProperties
<1> SUFFICES ASSUME NEW i \in 1 .. Len(q) + 1, NEW j \in 1 .. Len(q) + 1,
                    i < j
             PROVE  Append(q, f)[i].sequence < Append(q, f)[j].sequence
  BY <1>1 DEF Increasing
<1>2. i \in 1 .. Len(q) /\ (j \in 1 .. Len(q) \/ j = Len(q) + 1)
  BY <1>1
<1>3. CASE j \in 1 .. Len(q)
  BY <1>1, <1>2, <1>3 DEF Increasing
<1>4. CASE j = Len(q) + 1
  BY <1>1, <1>2, <1>4 DEF Numbers
<1>5. QED
  BY <1>2, <1>3, <1>4

(* A queue is a part of Queued, and no number of a frame exceeds sequence. *)
LEMMA NumbersBounded ==
  ASSUME AccountIInv, NEW t \in Task
  PROVE  /\ Numbers(queue[t]) \subseteq Queued
         /\ Numbers(queue[t]) \subseteq 1 .. sequence
         /\ Behind(t) \subseteq 1 .. sequence
         /\ sequence \in Nat
<1>1. queue \in Queues /\ sequence \in Nat
      /\ Queued \cup InFlight \cup Executed \cup Dropped = 1 .. sequence
  BY DEF AccountIInv, TypeOK, FramesAccounted
<1>2. Numbers(queue[t]) \subseteq Queued
  BY <1>1, QueuedNumbers DEF QueuedByTask
<1>3. Behind(t) \subseteq InFlight \cup Executed \cup Dropped
  BY DEF Behind, InFlight, Executed, Dropped
<1>4. QED
  BY <1>1, <1>2, <1>3

(* A frame that is dropped, other than a new one, is behind its queue.     *)
LEMMA DropBehind ==
  ASSUME TypeOK, NEW f \in Frame, NEW r \in DropReasons, RecordDrop(f, r),
         inFlight' = inFlight, resultEvents' = resultEvents,
         NEW t \in Task, NEW m \in Behind(t)'
  PROVE  \/ m \in Behind(t)
         \/ /\ r # "queue_overflow_drop_newest"
            /\ t = f.task /\ m = f.sequence
<1>1. dropEvents \in Seq(DropEvent)
  BY DEF TypeOK, TelemetryTypeOK
<1>2. [frame |-> f, reason |-> r] \in DropEvent
  BY DEF DropEvent
<1>3. /\ DOMAIN dropEvents' = 1 .. Len(dropEvents) + 1
      /\ DOMAIN dropEvents = 1 .. Len(dropEvents) /\ Len(dropEvents) \in Nat
      /\ \A i \in 1 .. Len(dropEvents) : dropEvents'[i] = dropEvents[i]
      /\ dropEvents'[Len(dropEvents) + 1] = [frame |-> f, reason |-> r]
  BY <1>1, <1>2, AppendProperties, LenProperties DEF RecordDrop
<1>4. \A i \in DOMAIN dropEvents' :
        i \in DOMAIN dropEvents \/ i = Len(dropEvents) + 1
  BY <1>3, LogGrows
<1>5. QED
  BY <1>3, <1>4 DEF Behind

(* A frame with the worker is behind its queue, before and after it has    *)
(* become a result.                                                        *)
LEMMA ExecutionBehind ==
  ASSUME TypeOK, NEW f \in Frame, NEW latency,
         RecordExecution(f, latency, cycle),
         inFlight = {f}, inFlight' = {}, dropEvents' = dropEvents,
         NEW t \in Task
  PROVE  Behind(t)' \subseteq Behind(t)
<1>1. resultEvents \in Seq(ResultEvent)
  BY DEF TypeOK, TelemetryTypeOK
<1>2. [frame |-> f, delay |-> SchedulerDelayCycles(f, cycle)] \in ResultEvent
  BY DEF ResultEvent, SchedulerDelayCycles, AtLeast, TypeOK, Frame
<1>3. /\ DOMAIN resultEvents' = 1 .. Len(resultEvents) + 1
      /\ DOMAIN resultEvents = 1 .. Len(resultEvents)
      /\ Len(resultEvents) \in Nat
      /\ \A i \in 1 .. Len(resultEvents) : resultEvents'[i] = resultEvents[i]
      /\ resultEvents'[Len(resultEvents) + 1].frame = f
  BY <1>1, <1>2, AppendProperties, LenProperties DEF RecordExecution
<1>4. \A i \in DOMAIN resultEvents' :
        i \in DOMAIN resultEvents \/ i = Len(resultEvents) + 1
  BY <1>3, LogGrows
<1>5. QED
  BY <1>3, <1>4 DEF Behind

-----------------------------------------------------------------------------
(***************************************************************************)
(* Every step keeps the order.                                             *)
(***************************************************************************)
OrderInv == QueuesApart /\ QueuesInOrder /\ ResultsInOrder

\* What drop_oldest and pop leave in the queues, and behind them.
HeadTaken(t) ==
  /\ queue[t] # <<>> /\ Head(queue[t]) \in Frame
  /\ queue'[t] = Tail(queue[t])
  /\ \A s \in Task \ {t} : queue'[s] = queue[s]
  /\ \A s \in Task : Behind(s)' \subseteq
       Behind(s) \cup (IF s = t THEN {Head(queue[t]).sequence} ELSE {})

(* The order survives if the head of a queue goes behind it.               *)
LEMMA HeadTakenOrder ==
  ASSUME AccountIInv, NEW t \in Task, HeadTaken(t)
  PROVE  QueuesApart' /\ QueuesInOrder'
<1> DEFINE head == Head(queue[t]).sequence
<1>1. /\ queue[t] \in Seq(Frame) /\ queue[t] # <<>>
      /\ queue'[t] = Tail(queue[t])
      /\ \A s \in Task \ {t} : queue'[s] = queue[s]
  BY DEF AccountIInv, TypeOK, Queues, HeadTaken
<1>2. /\ QueuesApart
      /\ \A s \in Task : Increasing(queue[s])
      /\ \A s \in Task : \A m \in Behind(s), n \in Numbers(queue[s]) : m < n
  BY DEF AccountIInv, QueuesInOrder
<1>3. Numbers(queue[t]) = Numbers(Tail(queue[t])) \cup {head}
  BY <1>1, TailNumbers
<1>4. Increasing(Tail(queue[t]))
      /\ \A n \in Numbers(Tail(queue[t])) : head < n
  BY <1>1, <1>2, IncreasingTail
<1> HIDE DEF head
<1>5. \A s \in Task : Numbers(queue'[s]) \subseteq Numbers(queue[s])
  BY <1>1, <1>3
<1>6. QueuesApart'
  <2>1. \A s, r \in Task :
          s # r => Numbers(queue'[s]) \cap Numbers(queue'[r]) = {}
    BY <1>2, <1>5 DEF QueuesApart
  <2>2. QED
    BY <2>1 DEF QueuesApart, Numbers
<1>7. QueuesInOrder'
  <2> SUFFICES ASSUME NEW s \in Task
               PROVE  /\ Increasing(queue'[s])
                      /\ \A m \in Behind(s)', n \in Numbers(queue'[s]) : m < n
    BY DEF QueuesInOrder, Increasing, Numbers
  <2>1. Increasing(queue'[s])
    BY <1>1, <1>2, <1>4
  <2>2. ASSUME NEW m \in Behind(s)', NEW n \in Numbers(queue'[s])
        PROVE  m < n
    <3>1. CASE m \in Behind(s)
      BY <1>2, <1>5, <2>2, <3>1
    <3>2. CASE s = t /\ m = head
      BY <1>1, <1>4, <2>2, <3>2
    <3>3. QED
      BY <2>2, <3>1, <3>2 DEF HeadTaken, head
  <2>3. QED
    BY <2>1, <2>2
<1>8. QED
  BY <1>6, <1>7

(* A frame that is shed is the head of its queue, and its task's.          *)
LEMMA ShedOrder ==
  ASSUME AccountIInv, NEW t \in Task, ShedTask(t)
  PROVE  OrderInv'
<1> DEFINE head == Head(queue[t])
<1>1. /\ resultEvents' = resultEvents /\ inFlight = {} /\ inFlight' = {}
      /\ RemoveOldest(t) /\ queue[t] # <<>> /\ head \in Frame
      /\ RecordDrop(head, "load_shedding_backlog_threshold_exceeded")
  BY ShedCases
<1>2. TypeOK /\ queue \in Queues /\ head.task = t
  BY <1>1, HeadElement DEF AccountIInv, OwnFrames, TypeOK, Queues
<1>3. /\ queue'[t] = Tail(queue[t])
      /\ \A s \in Task \ {t} : queue'[s] = queue[s]
  BY <1>1, <1>2, RemoveOldestEffect
<1>4. HeadTaken(t)
  BY <1>1, <1>2, <1>3, DropBehind DEF HeadTaken, DropReasons
<1>5. ResultsInOrder'
  BY <1>1 DEF AccountIInv, ResultsInOrder
<1>6. QED
  BY <1>4, <1>5, HeadTakenOrder DEF OrderInv

(* So is one that is scheduled; it is younger than the results of its      *)
(* task, which are behind the queue it leaves.                             *)
LEMMA ScheduleOrder ==
  ASSUME AccountIInv, NEW t \in Task, Schedule(t)
  PROVE  OrderInv'
<1> DEFINE head == Head(queue[t])
<1>1. /\ resultEvents' = resultEvents /\ dropEvents' = dropEvents
      /\ inFlight = {} /\ inFlight' = {head}
      /\ RemoveOldest(t) /\ queue[t] # <<>> /\ head \in Frame
  BY ScheduleCases
<1>2. TypeOK /\ queue \in Queues /\ head.task = t
      /\ queue[t] \in Seq(Frame)
  BY <1>1, HeadElement DEF AccountIInv, OwnFrames, TypeOK, Queues
<1>3. /\ queue'[t] = Tail(queue[t])
      /\ \A s \in Task \ {t} : queue'[s] = queue[s]
  BY <1>1, <1>2, RemoveOldestEffect
<1>4. \A s \in Task : Behind(s)' \subseteq
        Behind(s) \cup (IF s = t THEN {head.sequence} ELSE {})
  BY <1>1, <1>2 DEF Behind
<1>5. HeadTaken(t)
  BY <1>1, <1>3, <1>4 DEF HeadTaken
<1>6. ResultsInOrder'
  <2>1. head.sequence \in Numbers(queue[t])
    BY <1>1, <1>2, TailNumbers
  <2>2. ASSUME NEW i \in DOMAIN resultEvents,
               resultEvents[i].frame.task = t
        PROVE  resultEvents[i].frame.sequence < head.sequence
    <3>1. resultEvents[i].frame.sequence \in Behind(t)
      BY <2>2 DEF Behind
    <3>2. QED
      BY <2>1, <3>1 DEF AccountIInv, QueuesInOrder
  <2>3. QED
    BY <1>1, <1>2, <2>2 DEF AccountIInv, ResultsInOrder
<1>7. QED
  BY <1>5, <1>6, HeadTakenOrder DEF OrderInv

(* The new frame is younger than all others.                               *)
LEMMA EnqueueOrder ==
  ASSUME AccountIInv, NEW t \in Task, Enqueue(t)
  PROVE  OrderInv'
<1> DEFINE f == NewFrame(t)
           head == Head(queue[t])
<1>1. TypeOK /\ queue \in Queues /\ queue[t] \in Seq(Frame)
      /\ ValidConfig(config)
  BY DEF AccountIInv, TypeOK, Queues
<1>2. /\ inFlight = {} /\ inFlight' = {} /\ resultEvents' = resultEvents
      /\ f \in Frame /\ f.task = t /\ f.sequence = sequence + 1
  BY EnqueueCases
<1>3. /\ \A s \in Task : Numbers(queue[s]) \subseteq 1 .. sequence
      /\ \A s \in Task : Behind(s) \subseteq 1 .. sequence
      /\ sequence \in Nat
  BY NumbersBounded
<1>4. /\ QueuesApart
      /\ \A s \in Task : Increasing(queue[s])
      /\ \A s \in Task : \A m \in Behind(s), n \in Numbers(queue[s]) : m < n
  BY DEF AccountIInv, QueuesInOrder
<1>5. ResultsInOrder'
  BY <1>2 DEF AccountIInv, ResultsInOrder
<1>6. CASE RejectNewest(f) /\ RecordDrop(f, "queue_overflow_drop_newest")
  <2>1. \A s \in Task : Behind(s)' \subseteq Behind(s)
    BY <1>1, <1>2, <1>6, DropBehind DEF DropReasons
  <2>2. queue' = queue
    BY <1>6 DEF RejectNewest
  <2>3. QueuesApart' /\ QueuesInOrder'
    BY <1>4, <2>1, <2>2 DEF QueuesApart, QueuesInOrder
  <2>4. QED
    BY <1>5, <2>3 DEF OrderInv
<1>7. ASSUME NEW q \in Seq(Frame), Increasing(q),
             Numbers(q) \subseteq Numbers(queue[t]),
             queue'[t] = Append(q, f),
             \A s \in Task \ {t} : queue'[s] = queue[s],
             \A s \in Task : Behind(s)' \subseteq 1 .. sequence,
             \A s \in Task \ {t} : Behind(s)' \subseteq Behind(s),
             \A m \in Behind(t)', n \in Numbers(q) : m < n
      PROVE  OrderInv'
  <2> HIDE DEF f
  <2>1. Numbers(queue'[t]) = Numbers(q) \cup {sequence + 1}
    BY <1>2, <1>7, AppendNumbers
  <2>2. \A n \in Numbers(q) : n < f.sequence
    BY <1>2, <1>3, <1>7
  <2>3. Increasing(queue'[t])
    BY <1>2, <1>7, <2>2, IncreasingAppend
  <2>4. QueuesApart'
    <3>1. \A s \in Task \ {t} :
            Numbers(queue'[s]) \cap Numbers(queue'[t]) = {}
      <4>1. \A n \in 1 .. sequence : n # sequence + 1
        BY <1>3
      <4>2. QED
        BY <1>3, <1>4, <1>7, <2>1, <4>1 DEF QueuesApart
    <3>2. ASSUME NEW s \in Task, NEW r \in Task, s # r
          PROVE  Numbers(queue'[s]) \cap Numbers(queue'[r]) = {}
      <4>1. CASE s = t \/ r = t
        BY <3>1, <3>2, <4>1
      <4>2. CASE s # t /\ r # t
        BY <1>4, <1>7, <3>2, <4>2 DEF QueuesApart
      <4>3. QED
        BY <4>1, <4>2
    <3>3. QED
      BY <3>2 DEF QueuesApart, Numbers
  <2>5. QueuesInOrder'
    <3> SUFFICES ASSUME NEW s \in Task
                 PROVE  /\ Increasing(queue'[s])
                        /\ \A m \in Behind(s)', n \in Numbers(queue'[s]) :
                             m < n
      BY DEF QueuesInOrder, Increasing, Numbers
    <3>1. CASE s # t
      BY <1>4, <1>7, <3>1
    <3>2. CASE s = t
      <4>1. \A m \in 1 .. sequence : m < sequence + 1
        BY <1>3
      <4>2. QED
        BY <1>7, <2>1, <2>3, <3>2, <4>1
    <3>3. QED
      BY <3>1, <3>2
  <2>6. QED
    BY <1>5, <2>4, <2>5 DEF OrderInv
<1>8. CASE Accept(f) /\ dropEvents' = dropEvents
  <2>1. /\ queue'[t] = Append(queue[t], f)
        /\ \A s \in Task \ {t} : queue'[s] = queue[s]
    BY <1>1, <1>2, <1>8, AcceptEffect DEF Accept, Queues
  <2>2. \A s \in Task : Behind(s)' = Behind(s)
    BY <1>2, <1>8 DEF Behind
  <2> HIDE DEF f
  <2>3. QED
    BY <1>1, <1>3, <1>4, <1>7, <2>1, <2>2
<1>9. CASE /\ AcceptEvictingOldest(f)
           /\ queue[t] # <<>> /\ head \in Frame
           /\ RecordDrop(head, "queue_overflow_drop_oldest")
  <2>1. /\ queue'[t] = Append(Tail(queue[t]), f)
        /\ \A s \in Task \ {t} : queue'[s] = queue[s]
    BY <1>1, <1>2, <1>9, EvictEffect DEF AcceptEvictingOldest, Queues
  <2>2. head.task = t
    BY <1>1, <1>9, HeadElement DEF AccountIInv, OwnFrames
  <2>3. ASSUME NEW s \in Task, NEW m \in Behind(s)'
        PROVE  m \in Behind(s) \/ (s = t /\ m = head.sequence)
    BY <1>1, <1>2, <1>9, <2>2, <2>3, DropBehind DEF DropReasons
  <2>4. /\ Tail(queue[t]) \in Seq(Frame) /\ Increasing(Tail(queue[t]))
        /\ \A n \in Numbers(Tail(queue[t])) : head.sequence < n
        /\ Numbers(queue[t])
             = Numbers(Tail(queue[t])) \cup {head.sequence}
    BY <1>1, <1>4, <1>9, IncreasingTail, TailNumbers, HeadTailProperties
  <2> HIDE DEF f, head
  <2>5. \A s \in Task : Behind(s)' \subseteq 1 .. sequence
    BY <1>3, <2>3, <2>4
  <2>6. \A m \in Behind(t)', n \in Numbers(Tail(queue[t])) : m < n
    BY <1>4, <2>3, <2>4
  <2>7. QED
    BY <1>7, <2>1, <2>3, <2>4, <2>5, <2>6
<1>10. QED
  BY <1>6, <1>8, <1>9, EnqueueCases

(* A result is the youngest of its task, and still behind its queue.       *)
LEMMA WorkerReturnsOrder ==
  ASSUME AccountIInv, NEW latency \in Latencies, WorkerReturns(latency)
  PROVE  OrderInv'
<1>1. PICK f \in Frame : /\ inFlight = {f} /\ inFlight' = {}
                         /\ RecordExecution(f, latency, cycle)
  BY FrameOfWorker DEF AccountIInv
<1>2. queue' = queue /\ dropEvents' = dropEvents /\ TypeOK
  BY DEF WorkerReturns, AccountIInv
<1>3. \A s \in Task : Behind(s)' \subseteq Behind(s)
  BY <1>1, <1>2, ExecutionBehind
<1>4. QueuesApart' /\ QueuesInOrder'
  BY <1>2, <1>3 DEF AccountIInv, QueuesApart, QueuesInOrder
<1>5. ResultsInOrder'
  <2> DEFINE e == [frame |-> f, delay |-> SchedulerDelayCycles(f, cycle)]
             last == Len(resultEvents) + 1
  <2>1. e \in ResultEvent
    BY <1>2 DEF ResultEvent, SchedulerDelayCycles, AtLeast, TypeOK, Frame
  <2>2. /\ DOMAIN resultEvents = 1 .. Len(resultEvents)
        /\ DOMAIN resultEvents' = 1 .. last
        /\ Len(resultEvents) \in Nat
        /\ \A i \in 1 .. Len(resultEvents) :
             resultEvents'[i] = resultEvents[i]
        /\ resultEvents'[last].frame = f
    BY <1>1, <1>2, <2>1, AppendProperties, LenProperties
       DEF RecordExecution, TypeOK, TelemetryTypeOK
  <2>3. /\ \A i \in DOMAIN resultEvents :
             resultEvents[i].frame.task = f.task
               => resultEvents[i].frame.sequence < f.sequence
        /\ \A i, j \in DOMAIN resultEvents :
             (/\ i < j
              /\ resultEvents[i].frame.task = resultEvents[j].frame.task)
               => resultEvents[i].frame.sequence
                    < resultEvents[j].frame.sequence
    BY <1>1 DEF AccountIInv, ResultsInOrder
  <2>4. ASSUME NEW i \in 1 .. last, NEW j \in 1 .. last, i < j,
               resultEvents'[i].frame.task = resultEvents'[j].frame.task
        PROVE  resultEvents'[i].frame.sequence
                 < resultEvents'[j].frame.sequence
    <3>1. i \in 1 .. Len(resultEvents)
      BY <2>2, <2>4
    <3>2. CASE j \in 1 .. Len(resultEvents)
      BY <2>2, <2>3, <2>4, <3>1, <3>2
    <3>3. CASE j = last
      BY <2>2, <2>3, <2>4, <3>1, <3>3
    <3>4. QED
      BY <2>2, <2>4, <3>2, <3>3
  <2>5. QED
    BY <1>1, <2>2, <2>4 DEF ResultsInOrder
<1>6. QED
  BY <1>4, <1>5 DEF OrderInv

(* A step that moves no frame keeps the order.                             *)
LEMMA NoMoveOrder ==
  ASSUME AccountIInv, NoFrameMoves
  PROVE  OrderInv'
<1>1. /\ queue' = queue /\ inFlight' = inFlight
      /\ resultEvents' = resultEvents /\ dropEvents' = dropEvents
  BY DEF NoFrameMoves
<1>2. \A s \in Task : Behind(s)' = Behind(s)
  BY <1>1 DEF Behind
<1>3. QED
  BY <1>1, <1>2
     DEF AccountIInv, OrderInv, QueuesApart, QueuesInOrder, ResultsInOrder

-----------------------------------------------------------------------------
(* A run starts without frames.                                            *)
LEMMA AccountInit == Started => AccountIInv
<1> SUFFICES ASSUME Started PROVE AccountIInv
  OBVIOUS
<1>1. TypeOK /\ OneInFlight /\ inFlight = {} /\ sequence = 0
      /\ resultEvents = <<>> /\ dropEvents = <<>>
  BY TypeInit DEF Started, OneInFlight, TelemetryInit
<1>2. \A t \in Task : queue[t] = <<>> /\ DOMAIN queue[t] = {}
  BY DEF Started, QueuesInit
<1>3. DOMAIN resultEvents = {} /\ DOMAIN dropEvents = {}
      /\ Len(resultEvents) = 0 /\ Len(dropEvents) = 0
  BY <1>1
<1>4. \A t \in Task : Numbers(queue[t]) = {} /\ Increasing(queue[t])
  BY <1>2 DEF Numbers, Increasing
<1>5. Queued = {}
  BY <1>1, <1>4, QueuedNumbers DEF QueuedByTask, TypeOK
<1>6. InFlight = {} /\ Executed = {} /\ Dropped = {}
  BY <1>1, <1>3 DEF InFlight, Executed, Dropped
<1>7. TotalBacklog = 0 /\ Cardinality(inFlight) = 0
  BY <1>1, <1>2, TotalIsZero, FS_EmptySet DEF TypeOK, NonEmptyTasks
<1>8. FramesAccounted
  BY <1>1, <1>3, <1>5, <1>6, <1>7 DEF FramesAccounted
<1>9. OwnFrames /\ QueuesApart /\ QueuesInOrder /\ ResultsInOrder
  BY <1>1, <1>2, <1>3, <1>4
     DEF OwnFrames, QueuesApart, QueuesInOrder, ResultsInOrder
<1>10. QED
  BY <1>1, <1>8, <1>9 DEF AccountIInv

(* Every step keeps the account and the order.                             *)
LEMMA AccountStep == AccountIInv /\ [Next]_vars => AccountIInv'
<1> SUFFICES ASSUME AccountIInv, [Next]_vars PROVE AccountIInv'
  OBVIOUS
<1>1. TypeOK' /\ OwnFrames' /\ OneInFlight'
  BY TypeStep, OwnFramesStep, OneInFlightStep DEF AccountIInv
<1>2. FramesAccounted' /\ OrderInv'
  <2>1. CASE NoFrameMoves
    BY <2>1, NoMoveAccounted, NoMoveOrder DEF AccountIInv
  <2>2. ASSUME NEW t \in Task, Enqueue(t)
        PROVE  FramesAccounted' /\ OrderInv'
    BY <1>1, <2>2, EnqueueAccounted, EnqueueOrder
  <2>3. ASSUME NEW t \in Task, ShedTask(t)
        PROVE  FramesAccounted' /\ OrderInv'
    BY <1>1, <2>3, ShedAccounted, ShedOrder
  <2>4. ASSUME NEW t \in Task, Schedule(t)
        PROVE  FramesAccounted' /\ OrderInv'
    BY <1>1, <2>4, ScheduleAccounted, ScheduleOrder
  <2>5. ASSUME NEW latency \in Latencies, WorkerReturns(latency)
        PROVE  FramesAccounted' /\ OrderInv'
    BY <2>5, WorkerReturnsAccounted, WorkerReturnsOrder
  <2>6. QED
    BY <2>1, <2>2, <2>3, <2>4, <2>5, StepsOfFrames DEF FrameStep
<1>3. QED
  BY <1>1, <1>2 DEF AccountIInv, OrderInv

(* The account and the order hold throughout a run.                        *)
LEMMA AccountInvariant == Spec => []AccountIInv
BY StartedInit, AccountInit, AccountStep, PTL DEF Spec

(* Every frame a source has emitted is in exactly one place, whatever the  *)
(* tasks, the queue sizes, the drop policies and the load.                 *)
THEOREM RuntimeFramesAccounted == Spec => []FramesAccounted
BY AccountInvariant, PTL DEF AccountIInv

(* The frames of a task are served in the order of their arrival, through  *)
(* evictions and sheds.                                                    *)
THEOREM RuntimeServedInOrder == Spec => []ServedInOrder
<1>1. AccountIInv => ServedInOrder
  <2> SUFFICES ASSUME AccountIInv PROVE ServedInOrder
    OBVIOUS
  <2>1. \A t \in Task : \A i \in DOMAIN queue[t] :
          \A m \in Behind(t) : m < queue[t][i].sequence
    BY DEF AccountIInv, QueuesInOrder, Numbers
  <2>2. \A t \in Task : \A i \in DOMAIN queue[t] :
          \A f \in inFlight : f.task = t => f.sequence < queue[t][i].sequence
    BY <2>1 DEF Behind
  <2>3. \A t \in Task : \A i \in DOMAIN queue[t] :
          \A j \in DOMAIN resultEvents :
            resultEvents[j].frame.task = t
              => resultEvents[j].frame.sequence < queue[t][i].sequence
    BY <2>1 DEF Behind
  <2>4. \A t \in Task : \A i \in DOMAIN queue[t] :
          \A j \in DOMAIN dropEvents :
            (/\ dropEvents[j].frame.task = t
             /\ dropEvents[j].reason # "queue_overflow_drop_newest")
              => dropEvents[j].frame.sequence < queue[t][i].sequence
    BY <2>1 DEF Behind
  <2>5. QED
    BY <2>2, <2>3, <2>4
       DEF ServedInOrder, AccountIInv, QueuesInOrder, Increasing,
           ResultsInOrder
<1>2. QED
  BY AccountInvariant, <1>1, PTL

-----------------------------------------------------------------------------
(* A frame that leaves its queue is in no queue any more.                  *)
LEMMA HeadIsGone ==
  ASSUME AccountIInv, NEW t \in Task, RemoveOldest(t)
  PROVE  Queued' = Queued \ {Head(queue[t]).sequence}
<1> DEFINE head == Head(queue[t]).sequence
<1>1. /\ queue \in Queues /\ queue' \in Queues
      /\ \A s \in Task \ {t} : queue'[s] = queue[s]
      /\ queue'[t] = Tail(queue[t])
      /\ queue[t] \in Seq(Frame) /\ queue[t] # <<>>
  BY RemoveOldestEffect DEF AccountIInv, TypeOK, Queues, RemoveOldest
<1>2. Queued' \cup {head} = Queued
  BY RemoveOldestNumbers DEF AccountIInv
<1>3. head \in Numbers(queue[t]) /\ head \in Nat
      /\ \A n \in Numbers(Tail(queue[t])) : n \in Nat /\ head < n
  BY <1>1, TailNumbers, IncreasingTail, NumbersTyped, HeadTailProperties
     DEF AccountIInv, QueuesInOrder
<1>4. \A n : n \in Queued' => \E s \in Task : n \in Numbers(queue'[s])
  BY <1>1, QueuedNumbersNext DEF QueuedByTask, Numbers
<1> HIDE DEF head
<1>5. ASSUME NEW s \in Task PROVE head \notin Numbers(queue'[s])
  <2>1. CASE s = t
    <3>1. ASSUME head \in Numbers(Tail(queue[t])) PROVE FALSE
      <4>1. head < head
        BY <1>3, <3>1
      <4>2. QED
        BY <1>3, <4>1
    <3>2. QED
      BY <1>1, <2>1, <3>1
  <2>2. CASE s # t
    <3>1. Numbers(queue[s]) \cap Numbers(queue[t]) = {}
      BY <2>2 DEF AccountIInv, QueuesApart
    <3>2. QED
      BY <1>1, <1>3, <2>2, <3>1
  <2>3. QED
    BY <2>1, <2>2
<1>6. head \notin Queued'
  BY <1>4, <1>5
<1>7. QED
  BY <1>2, <1>6 DEF head

(* Nor is one that is evicted.                                             *)
LEMMA EvictedIsGone ==
  ASSUME AccountIInv, NEW t \in Task, AcceptEvictingOldest(NewFrame(t))
  PROVE  /\ Head(queue[t]).sequence \in Queued
         /\ Queued' = (Queued \cup {sequence + 1})
                        \ {Head(queue[t]).sequence}
<1> DEFINE head == Head(queue[t]).sequence
           f == NewFrame(t)
<1>1. f \in Frame /\ f.task = t /\ f.sequence = sequence + 1
  BY NewFrameTyped DEF AccountIInv, NewFrame
<1>2. /\ queue \in Queues /\ queue' \in Queues
      /\ \A s \in Task \ {t} : queue'[s] = queue[s]
      /\ queue'[t] = Append(Tail(queue[t]), f)
      /\ queue[t] \in Seq(Frame) /\ queue[t] # <<>>
  BY <1>1, EvictEffect DEF AccountIInv, TypeOK, Queues, AcceptEvictingOldest
<1>3. Queued' \cup {head} = Queued \cup {sequence + 1}
  BY <1>1, EvictNumbers DEF AccountIInv
<1>4. head \in Numbers(queue[t]) /\ Tail(queue[t]) \in Seq(Frame)
      /\ \A n \in Numbers(Tail(queue[t])) : n \in Nat /\ head < n
  BY <1>2, TailNumbers, IncreasingTail, NumbersTyped, HeadTailProperties
     DEF AccountIInv, QueuesInOrder
<1>5. head \in Queued /\ head \in 1 .. sequence /\ sequence \in Nat
  BY <1>4, NumbersBounded
<1>6. Numbers(queue'[t]) = Numbers(Tail(queue[t])) \cup {sequence + 1}
  BY <1>1, <1>2, <1>4, AppendNumbers
<1>7. \A n : n \in Queued' => \E s \in Task : n \in Numbers(queue'[s])
  BY <1>2, QueuedNumbersNext DEF QueuedByTask, Numbers
<1> HIDE DEF head, f
<1>8. \A s \in Task : head \notin Numbers(queue'[s])
  <2>1. head \notin Numbers(queue'[t])
    BY <1>4, <1>5, <1>6
  <2>2. \A s \in Task \ {t} : head \notin Numbers(queue[s])
    BY <1>4 DEF AccountIInv, QueuesApart
  <2>3. QED
    BY <1>2, <2>1, <2>2
<1>9. head \notin Queued'
  BY <1>7, <1>8
<1>10. QED
  BY <1>3, <1>5, <1>9 DEF head

(* An enqueue is an arrival.                                               *)
LEMMA EnqueueIsArrival ==
  ASSUME AccountIInv, NEW t \in Task, Enqueue(t)
  PROVE  Ledger!Arrive
<1> DEFINE f == NewFrame(t)
<1>1. TypeOK
  BY DEF AccountIInv
<1>2. /\ sequence' = sequence + 1 /\ inFlight = {} /\ inFlight' = {}
      /\ resultEvents' = resultEvents
      /\ f \in Frame /\ f.task = t /\ f.sequence = sequence + 1
  BY EnqueueCases
<1>3. InFlight = {} /\ InFlight' = {} /\ Executed' = Executed
  BY <1>2 DEF InFlight, Executed
<1>4. sequence + 1 \notin Queued
  <2>1. Queued \subseteq 1 .. sequence /\ sequence \in Nat
    BY DEF AccountIInv, FramesAccounted, TypeOK
  <2>2. QED
    BY <2>1
<1>5. CASE Accept(f) /\ dropEvents' = dropEvents
  <2>1. Queued' = Queued \cup {sequence + 1} /\ Dropped' = Dropped
    BY <1>1, <1>2, <1>5, AcceptNumbers DEF Dropped
  <2>2. QED
    BY <1>2, <1>3, <2>1 DEF Ledger!Arrive
<1>6. CASE /\ AcceptEvictingOldest(f)
           /\ queue[t] # <<>> /\ Head(queue[t]) \in Frame
           /\ RecordDrop(Head(queue[t]), "queue_overflow_drop_oldest")
  <2> DEFINE head == Head(queue[t]).sequence
  <2>1. head \in Queued /\ Queued' = (Queued \cup {sequence + 1}) \ {head}
    BY <1>6, EvictedIsGone
  <2>2. Dropped' = Dropped \cup {head}
    BY <1>1, <1>6, DropNumbers DEF DropReasons
  <2> HIDE DEF head
  <2>3. QED
    BY <1>2, <1>3, <2>1, <2>2 DEF Ledger!Arrive
<1>7. CASE /\ RejectNewest(f)
           /\ RecordDrop(f, "queue_overflow_drop_newest")
  <2>1. Queued' = (Queued \cup {sequence + 1}) \ {sequence + 1}
    <3>1. Queued' = Queued
      BY <1>7 DEF RejectNewest, Queued, Slots, Backlog
    <3>2. QED
      BY <1>4, <3>1
  <2>2. Dropped' = Dropped \cup {sequence + 1}
    BY <1>1, <1>2, <1>7, DropNumbers DEF DropReasons
  <2>3. QED
    BY <1>2, <1>3, <2>1, <2>2 DEF Ledger!Arrive
<1>8. QED
  BY <1>5, <1>6, <1>7, EnqueueCases

(* A shed frame is dropped.                                                *)
LEMMA ShedIsDrop ==
  ASSUME AccountIInv, NEW t \in Task, ShedTask(t)
  PROVE  \E n \in Queued \cup InFlight : Ledger!Drop(n)
<1> DEFINE head == Head(queue[t])
<1>1. /\ sequence' = sequence /\ resultEvents' = resultEvents
      /\ inFlight = {} /\ inFlight' = {} /\ RemoveOldest(t)
      /\ head \in Frame
      /\ RecordDrop(head, "load_shedding_backlog_threshold_exceeded")
  BY ShedCases
<1>2. InFlight = {} /\ InFlight' = {} /\ Executed' = Executed
  BY <1>1 DEF InFlight, Executed
<1>3. Queued' = Queued \ {head.sequence} /\ head.sequence \in Queued
  BY <1>1, HeadIsGone, RemoveOldestNumbers DEF AccountIInv
<1>4. Dropped' = Dropped \cup {head.sequence}
  BY <1>1, DropNumbers DEF DropReasons, AccountIInv
<1> HIDE DEF head
<1>5. Ledger!Drop(head.sequence)
  BY <1>1, <1>2, <1>3, <1>4 DEF Ledger!Drop
<1>6. QED
  BY <1>3, <1>5

(* The ledger does not tell a frame with the worker from one in a queue.   *)
LEMMA ScheduleIsStutter ==
  ASSUME AccountIInv, NEW t \in Task, Schedule(t)
  PROVE  UNCHANGED Ledger!vars
<1>1. /\ UNCHANGED <<sequence, resultEvents, dropEvents>>
      /\ inFlight = {} /\ inFlight' = {Head(queue[t])} /\ RemoveOldest(t)
  BY ScheduleCases
<1>2. Queued' \cup {Head(queue[t]).sequence} = Queued
  BY <1>1, RemoveOldestNumbers DEF AccountIInv
<1>3. InFlight = {} /\ InFlight' = {Head(queue[t]).sequence}
      /\ Executed' = Executed /\ Dropped' = Dropped
  BY <1>1 DEF InFlight, Executed, Dropped
<1>4. QED
  BY <1>1, <1>2, <1>3 DEF Ledger!vars

\* The frame with the worker is in no queue.
InFlightGone == Queued \cap InFlight = {}

(* It has left its queue for good.                                         *)
LEMMA InFlightGoneStep ==
  AccountIInv /\ InFlightGone /\ [Next]_vars => InFlightGone'
<1> SUFFICES ASSUME AccountIInv, InFlightGone, [Next]_vars
             PROVE  InFlightGone'
  OBVIOUS
<1>1. CASE NoFrameMoves
  BY <1>1 DEF NoFrameMoves, InFlightGone, Queued, Slots, Backlog, InFlight
<1>2. ASSUME inFlight' = {} PROVE InFlightGone'
  BY <1>2 DEF InFlightGone, InFlight
<1>3. ASSUME NEW t \in Task, Enqueue(t) \/ ShedTask(t) PROVE InFlightGone'
  BY <1>2, <1>3, EnqueueCases, ShedCases
<1>4. ASSUME NEW t \in Task, Schedule(t) PROVE InFlightGone'
  <2>1. inFlight' = {Head(queue[t])} /\ RemoveOldest(t)
    BY <1>4, ScheduleCases
  <2>2. InFlight' = {Head(queue[t]).sequence}
    BY <2>1 DEF InFlight
  <2>3. QED
    BY <2>1, <2>2, HeadIsGone DEF InFlightGone
<1>5. ASSUME NEW latency \in Latencies, WorkerReturns(latency)
      PROVE  InFlightGone'
  BY <1>2, <1>5 DEF WorkerReturns
<1>6. QED
  BY <1>1, <1>3, <1>4, <1>5, StepsOfFrames DEF FrameStep

(* A result is an execution.                                               *)
LEMMA ReturnIsExecution ==
  ASSUME AccountIInv, InFlightGone,
         NEW latency \in Latencies, WorkerReturns(latency)
  PROVE  \E n \in Queued \cup InFlight : Ledger!Execute(n)
<1>1. PICK f \in Frame : /\ inFlight = {f} /\ inFlight' = {}
                         /\ RecordExecution(f, latency, cycle)
  BY FrameOfWorker DEF AccountIInv
<1>2. UNCHANGED <<queue, sequence, dropEvents>>
  BY DEF WorkerReturns
<1>3. Queued' = Queued /\ Dropped' = Dropped
  BY <1>2 DEF Queued, Slots, Backlog, Dropped
<1>4. Executed' = Executed \cup {f.sequence}
  BY <1>1, ExecutionNumbers DEF AccountIInv
<1>5. InFlight = {f.sequence} /\ InFlight' = {}
  BY <1>1 DEF InFlight
<1>6. f.sequence \notin Queued
  BY <1>5 DEF InFlightGone
<1>7. Ledger!Execute(f.sequence)
  BY <1>2, <1>3, <1>4, <1>5, <1>6 DEF Ledger!Execute
<1>8. QED
  BY <1>5, <1>7

(* The runtime implements the ledger of its frames: whatever it does, a    *)
(* frame arrives, waits, and is executed or dropped once.                  *)
THEOREM RuntimeLedgerImplemented == Spec => LedgerImplemented
<1>1. Started => Ledger!Init /\ InFlightGone
  <2> SUFFICES ASSUME Started PROVE Ledger!Init /\ InFlightGone
    OBVIOUS
  <2>1. AccountIInv /\ sequence = 0
    BY AccountInit DEF Started
  <2>2. Queued \cup InFlight \cup Executed \cup Dropped = {}
    BY <2>1 DEF AccountIInv, FramesAccounted
  <2>3. QED
    BY <2>1, <2>2 DEF Ledger!Init, InFlightGone
<1>2. AccountIInv /\ InFlightGone /\ [Next]_vars
        => [Ledger!Next]_(Ledger!vars)
  <2> SUFFICES ASSUME AccountIInv, InFlightGone, [Next]_vars
               PROVE  Ledger!Next \/ UNCHANGED Ledger!vars
    OBVIOUS
  <2>1. CASE NoFrameMoves
    BY <2>1 DEF NoFrameMoves, Ledger!vars, Queued, Slots, Backlog,
                InFlight, Executed, Dropped
  <2>2. ASSUME NEW t \in Task, Enqueue(t) PROVE Ledger!Next
    BY <2>2, EnqueueIsArrival DEF Ledger!Next
  <2>3. ASSUME NEW t \in Task, ShedTask(t) PROVE Ledger!Next
    BY <2>3, ShedIsDrop DEF Ledger!Next
  <2>4. ASSUME NEW t \in Task, Schedule(t) PROVE UNCHANGED Ledger!vars
    BY <2>4, ScheduleIsStutter
  <2>5. ASSUME NEW latency \in Latencies, WorkerReturns(latency)
        PROVE  Ledger!Next
    BY <2>5, ReturnIsExecution DEF Ledger!Next
  <2>6. QED
    BY <2>1, <2>2, <2>3, <2>4, <2>5, StepsOfFrames DEF FrameStep
<1>3. QED
  BY StartedInit, AccountInvariant, InFlightGoneStep, <1>1, <1>2, PTL
     DEF Spec, LedgerImplemented, Ledger!Spec

=============================================================================
