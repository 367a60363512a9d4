--------------------------- MODULE ScenarioProofs ---------------------------
(***************************************************************************)
(* Proofs about OverloadScenario: its types, that its two passes account   *)
(* for the same frames, that a walk of the policy takes at most one frame  *)
(* of each task, and that the protected task gains frame by frame.         *)
(***************************************************************************)
EXTENDS OverloadScenario, QueueLemmas

-----------------------------------------------------------------------------
(***************************************************************************)
(* Types.                                                                  *)
(***************************************************************************)
(* The fields that the comparison reads have their types.                  *)
LEMMA ScenarioConfigTyped ==
  ASSUME ValidConfig(config)
  PROVE  /\ config.latency \in [Task -> Nat]
         /\ config.order \in [Task -> Nat]
         /\ config.emitEvery \in [Task -> PositiveNat]
         /\ config.interval \in Nat /\ config.interval >= 1
         /\ config.frames \in Nat
         /\ config.priority \in [Task -> Nat]
         /\ \A s, t \in Task : s # t => config.order[s] # config.order[t]
<1>1. config \in Config
      /\ \A s, t \in Task : s # t => config.order[s] # config.order[t]
  BY DEF ValidConfig
<1>2. QED
  BY <1>1 DEF Config, PositiveNat

(* The frame a source builds for a task is a frame of that task.           *)
LEMMA NewFrameTyped ==
  ASSUME cycle \in Nat, sequence \in Nat, NEW t \in Task
  PROVE  /\ NewFrame(t) \in Frame
         /\ NewFrame(t).task = t /\ NewFrame(t).sequence = sequence + 1
         /\ NewFrame(t).cycle = cycle
BY DEF NewFrame, Frame, PositiveNat

(* An execution ends when the worker, free no sooner than before, has      *)
(* spent the latency of the task on a frame that has arrived.              *)
LEMMA FinishedTyped ==
  ASSUME ValidConfig(config), availableAt \in Nat, NEW f \in Frame
  PROVE  /\ CreatedAt(f) \in Nat /\ FinishedAt(f) \in Nat
         /\ FinishedAt(f) >= CreatedAt(f) + config.latency[f.task]
         /\ FinishedAt(f) >= availableAt + config.latency[f.task]
         /\ FinishedAt(f) = CreatedAt(f) + config.latency[f.task]
            \/ FinishedAt(f) = availableAt + config.latency[f.task]
         /\ config.latency[f.task] \in Nat
         /\ Execution(f) \in Record
         /\ Execution(f).frame = f
         /\ Execution(f).latency = FinishedAt(f) - CreatedAt(f)
<1>1. /\ f.task \in Task /\ f.cycle \in Nat
      /\ config.interval \in Nat /\ config.latency \in [Task -> Nat]
  BY ScenarioConfigTyped DEF Frame
<1>2. CreatedAt(f) \in Nat /\ config.latency[f.task] \in Nat
  BY <1>1 DEF CreatedAt
<1>3. /\ FinishedAt(f) \in Nat
      /\ FinishedAt(f) >= CreatedAt(f) + config.latency[f.task]
      /\ FinishedAt(f) >= availableAt + config.latency[f.task]
      /\ FinishedAt(f) = CreatedAt(f) + config.latency[f.task]
         \/ FinishedAt(f) = availableAt + config.latency[f.task]
  BY <1>2 DEF FinishedAt
<1>4. /\ Execution(f) = [frame |-> f, latency |-> FinishedAt(f) - CreatedAt(f)]
      /\ FinishedAt(f) - CreatedAt(f) \in Nat
  BY <1>2, <1>3 DEF Execution
<1>5. QED
  BY <1>2, <1>3, <1>4 DEF Record

(* The comparison starts with the types it keeps.                          *)
LEMMA TypeInit == Init => TypeOK
<1>1. QueuesInit => queue \in Queues /\ SnapshotBacklog \in [Task -> Nat]
  <2>1. \A s : <<>> \in Seq(s) /\ Len(<<>>) = 0
    OBVIOUS
  <2>2. QED
    BY <2>1 DEF QueuesInit, Queues, SnapshotBacklog, Backlog
<1>2. QED
  BY <1>1, ConfigsAssumption DEF Init, TypeOK

(* A step of the baseline keeps them,                                      *)
LEMMA ExecuteBaselineTyped ==
  ASSUME TypeOK, NEW t \in Task, ExecuteBaseline(t)
  PROVE  TypeOK'
<1> DEFINE f == NewFrame(t)
<1>1. ValidConfig(config) /\ cycle \in Nat /\ sequence \in Nat
      /\ availableAt \in Nat /\ baseline \in Seq(Record)
  BY DEF TypeOK
<1>2. Execution(f) \in Record /\ FinishedAt(f) \in Nat
  BY <1>1, NewFrameTyped, FinishedTyped
<1>3. \/ UNCHANGED <<sequence, availableAt, baseline>>
      \/ /\ sequence' = sequence + 1 /\ availableAt' = FinishedAt(f)
         /\ baseline' = Append(baseline, Execution(f))
  BY DEF ExecuteBaseline
<1> HIDE DEF f
<1>4. Append(baseline, Execution(f)) \in Seq(Record)
  BY <1>1, <1>2, AppendProperties
<1>5. /\ sequence' \in Nat /\ availableAt' \in Nat
      /\ baseline' \in Seq(Record)
  BY <1>1, <1>2, <1>3, <1>4
<1>6. QED
  BY <1>5 DEF ExecuteBaseline, TypeOK

(* and so does an arrival,                                                 *)
LEMMA EnqueueTyped ==
  ASSUME TypeOK, NEW t \in Task, Enqueue(t)
  PROVE  TypeOK'
<1> DEFINE f == NewFrame(t)
<1>1. ValidConfig(config) /\ cycle \in Nat /\ sequence \in Nat
      /\ queue \in Queues /\ drops \in Seq(Frame)
  BY DEF TypeOK
<1>2. f \in Frame
  BY <1>1, NewFrameTyped
<1>3. queue' \in Queues /\ drops' \in Seq(Frame)
  <2>1. CASE Accept(f) /\ UNCHANGED drops
    BY <1>1, <1>2, <2>1, AcceptEffect
  <2>2. CASE AcceptEvictingOldest(f) /\ drops' = Append(drops, Head(queue[t]))
    <3>1. queue' \in Queues /\ queue[t] # <<>>
      BY <1>1, <1>2, <2>2, EvictEffect, NewFrameTyped
    <3>2. Head(queue[t]) \in Frame
      BY <1>1, <3>1, HeadIsFrame
    <3>3. QED
      BY <1>1, <2>2, <3>1, <3>2, AppendProperties
  <2>3. CASE RejectNewest(f) /\ drops' = Append(drops, f)
    BY <1>1, <1>2, <2>3, AppendProperties DEF RejectNewest
  <2>4. CASE UNCHANGED <<queue, drops>>
    BY <1>1, <2>4
  <2>5. QED
    BY <2>1, <2>2, <2>3, <2>4 DEF Enqueue
<1>4. sequence' \in Nat /\ toVisit' \in SUBSET Task
  BY <1>1 DEF Enqueue, TypeOK
<1>5. QED
  BY <1>3, <1>4 DEF Enqueue, TypeOK

(* a walk,                                                                 *)
LEMMA WalkTyped ==
  ASSUME TypeOK,
         \/ BeginShedding \/ EndShedding
         \/ \E t \in Task : PassByTask(t) \/ ShedTask(t)
  PROVE  TypeOK'
<1>1. queue \in Queues /\ drops \in Seq(Frame) /\ cycle \in Nat
  BY DEF TypeOK
<1>2. CASE BeginShedding
  <2>1. SnapshotBacklog \in [Task -> Nat]
    BY <1>1, BacklogTyped DEF SnapshotBacklog
  <2>2. protected' \in SUBSET Task
    BY <1>2 DEF BeginShedding, BeginWalk, HighestBacklogged, NonEmptyTasks
  <2>3. QED
    BY <1>2, <2>1, <2>2 DEF BeginShedding, BeginWalk, TypeOK
<1>3. CASE EndShedding
  BY <1>1, <1>3 DEF EndShedding, TypeOK
<1>4. ASSUME NEW t \in Task, PassByTask(t) PROVE TypeOK'
  BY <1>4 DEF PassByTask, PassBy, TypeOK
<1>5. ASSUME NEW t \in Task, ShedTask(t) PROVE TypeOK'
  <2>1. RemoveOldest(t) /\ queue[t] # <<>>
    BY <1>5 DEF ShedTask, Shed, RemoveOldest
  <2>2. queue' \in Queues /\ Head(queue[t]) \in Frame
    BY <1>1, <2>1, RemoveOldestEffect, HeadIsFrame
  <2>3. drops' \in Seq(Frame)
    BY <1>1, <1>5, <2>2, AppendProperties DEF ShedTask
  <2>4. QED
    BY <1>5, <2>2, <2>3 DEF ShedTask, Shed, TypeOK
<1>6. QED
  BY <1>2, <1>3, <1>4, <1>5

(* and an execution of the second pass.                                    *)
LEMMA ExecuteTyped ==
  ASSUME TypeOK, NEW t \in Task, Execute(t)
  PROVE  TypeOK'
<1>1. ValidConfig(config) /\ queue \in Queues /\ availableAt \in Nat
      /\ records \in Seq(Record) /\ RemoveOldest(t) /\ queue[t] # <<>>
  BY DEF TypeOK, Execute, RemoveOldest
<1>2. queue' \in Queues /\ Head(queue[t]) \in Frame
  BY <1>1, RemoveOldestEffect, HeadIsFrame
<1>3. /\ FinishedAt(Head(queue[t])) \in Nat
      /\ Execution(Head(queue[t])) \in Record
  BY <1>1, <1>2, FinishedTyped
<1>4. availableAt' \in Nat /\ records' \in Seq(Record)
  BY <1>1, <1>3, AppendProperties DEF Execute
<1>5. QED
  BY <1>2, <1>4 DEF Execute, TypeOK

(* Every step keeps the types.                                             *)
LEMMA TypeStep == TypeOK /\ [Next]_vars => TypeOK'
<1> SUFFICES ASSUME TypeOK, [Next]_vars PROVE TypeOK'
  OBVIOUS
<1>1. CASE NextBaselineCycle
  BY <1>1 DEF NextBaselineCycle, TypeOK
<1>2. CASE BeginScheduled
  BY <1>2 DEF BeginScheduled, TypeOK
<1>3. CASE Finish
  BY <1>3 DEF Finish, TypeOK
<1>4. CASE UNCHANGED vars
  BY <1>4 DEF vars, TypeOK
<1>5. QED
  BY <1>1, <1>2, <1>3, <1>4, ExecuteBaselineTyped, EnqueueTyped, WalkTyped,
     ExecuteTyped DEF Next

(* Every variable of the comparison keeps its type.                        *)
THEOREM ScenarioTypeOK == Spec => []TypeOK
BY TypeInit, TypeStep, PTL DEF Spec

-----------------------------------------------------------------------------
(***************************************************************************)
(* The position of the loops: the two passes draw the same frames.         *)
(***************************************************************************)
\* The loop over the cycles, and in it that over the tasks, are past t in
\* the cycle c.
Passed(t, c) == c < cycle \/ (c = cycle /\ t \notin toVisit)

\* The same of the second pass, in which a walk of the policy follows the
\* loop over the tasks.
Drawn(t, c) ==
  /\ pc = "arrivals" => Passed(t, c)
  /\ pc = "shed" => c <= cycle

LoopInv ==
  /\ pc \in {"baseline", "arrivals"} =>
       \A s \in Task \ toVisit, t \in toVisit :
         config.order[s] < config.order[t]
  /\ pc = "baseline" =>
       /\ cycle <= config.frames
       /\ cycle = config.frames => toVisit = Task
  /\ pc \in {"arrivals", "shed"} => cycle < config.frames

\* The order in which the source builds its frames.
Earlier(f, g) ==
  \/ f.cycle < g.cycle
  \/ f.cycle = g.cycle /\ config.order[f.task] < config.order[g.task]

\* The entry of the baseline at place i.
Listed(i) ==
  LET f == baseline[i].frame
  IN  /\ f.sequence = i
      /\ f.cycle < config.frames
      /\ Emits(f.task, f.cycle)
      /\ pc = "baseline" => Passed(f.task, f.cycle)

BaselineInOrder ==
  /\ \A i \in DOMAIN baseline : Listed(i)
  /\ \A i, j \in DOMAIN baseline :
       i < j => Earlier(baseline[i].frame, baseline[j].frame)
  /\ pc = "baseline" => sequence = Len(baseline)

BaselineComplete ==
  \A t \in Task, c \in Nat :
    (c < config.frames /\ Emits(t, c) /\ (pc # "baseline" \/ Passed(t, c)))
      => \E i \in DOMAIN baseline :
           baseline[i].frame.task = t /\ baseline[i].frame.cycle = c

\* The number of the last frame that the second pass has drawn is the place
\* of that frame in the baseline.
Position ==
  pc # "baseline" =>
    /\ sequence <= Len(baseline)
    /\ \A i \in DOMAIN baseline :
         i <= sequence
           <=> Drawn(baseline[i].frame.task, baseline[i].frame.cycle)

PositionInv ==
  TypeOK /\ LoopInv /\ BaselineInOrder /\ BaselineComplete /\ Position

(* What the loops do with cycle and toVisit.                               *)
LEMMA LoopStep == TypeOK /\ LoopInv /\ [Next]_vars => LoopInv'
<1> SUFFICES ASSUME TypeOK, LoopInv, [Next]_vars PROVE LoopInv'
  OBVIOUS
<1>1. /\ config.order \in [Task -> Nat] /\ config.frames \in Nat
      /\ cycle \in Nat /\ toVisit \in SUBSET Task
  BY ScenarioConfigTyped DEF TypeOK
<1>2. ASSUME NEW t \in Task, NextInOrder(t), toVisit' = toVisit \ {t},
             pc \in {"baseline", "arrivals"}, cycle < config.frames,
             UNCHANGED <<config, pc, cycle>>
      PROVE  LoopInv'
  <2>1. \A s \in Task \ toVisit', u \in toVisit' :
          config.order[s] < config.order[u]
    BY <1>1, <1>2 DEF LoopInv, NextInOrder
  <2>2. QED
    BY <1>1, <1>2, <2>1 DEF LoopInv
<1>3. ASSUME NEW t \in Task, ExecuteBaseline(t) PROVE LoopInv'
  BY <1>2, <1>3 DEF ExecuteBaseline
<1>4. ASSUME NEW t \in Task, Enqueue(t) PROVE LoopInv'
  BY <1>2, <1>4 DEF Enqueue, LoopInv
<1>5. CASE NextBaselineCycle
  BY <1>1, <1>5 DEF NextBaselineCycle, LoopInv
<1>6. CASE BeginScheduled
  BY <1>1, <1>6 DEF BeginScheduled, LoopInv
<1>7. CASE BeginShedding
  BY <1>7 DEF BeginShedding, LoopInv
<1>8. ASSUME NEW t \in Task, PassByTask(t) \/ ShedTask(t) PROVE LoopInv'
  BY <1>8 DEF PassByTask, ShedTask, LoopInv
<1>9. CASE EndShedding
  BY <1>1, <1>9 DEF EndShedding, LoopInv
<1>10. ASSUME NEW t \in Task, Execute(t) PROVE LoopInv'
  BY <1>10 DEF Execute, LoopInv
<1>11. CASE Finish
  BY <1>11 DEF Finish, LoopInv
<1>12. CASE UNCHANGED vars
  BY <1>12 DEF vars, LoopInv
<1>13. QED
  BY <1>3, <1>4, <1>5, <1>6, <1>7, <1>8, <1>9, <1>10, <1>11, <1>12 DEF Next

(* An entry of the baseline has a place and a frame.                       *)
LEMMA BaselineEntries ==
  ASSUME TypeOK
  PROVE  /\ DOMAIN baseline = 1 .. Len(baseline) /\ Len(baseline) \in Nat
         /\ \A i \in DOMAIN baseline :
              /\ i \in Nat /\ i >= 1
              /\ baseline[i] \in Record
              /\ baseline[i].frame \in Frame
              /\ baseline[i].frame.task \in Task
              /\ baseline[i].frame.cycle \in Nat
              /\ baseline[i].latency \in Nat
<1>1. /\ DOMAIN baseline = 1 .. Len(baseline) /\ Len(baseline) \in Nat
      /\ \A i \in DOMAIN baseline : baseline[i] \in Record
  BY LenProperties, ElementOfSeq DEF TypeOK
<1>2. \A r \in Record : /\ r.frame \in Frame /\ r.latency \in Nat
                        /\ r.frame.task \in Task /\ r.frame.cycle \in Nat
  BY DEF Record, Frame
<1>3. QED
  BY <1>1, <1>2

\* A frame of t is executed in the baseline, or t does not emit.
BaselineExecutes(t) ==
  /\ Emits(t, cycle)
  /\ sequence' = sequence + 1
  /\ availableAt' = FinishedAt(NewFrame(t))
  /\ baseline' = Append(baseline, Execution(NewFrame(t)))

BaselineSkips(t) ==
  ~ Emits(t, cycle) /\ UNCHANGED <<sequence, availableAt, baseline>>

(* What an execution of the baseline adds to its records.                  *)
LEMMA BaselineGrows ==
  ASSUME TypeOK, NEW t \in Task, BaselineExecutes(t)
  PROVE  LET n == Len(baseline) + 1
             f == baseline'[n].frame
         IN  /\ DOMAIN baseline' = 1 .. n
             /\ Len(baseline') = n
             /\ \A i \in DOMAIN baseline : i \in DOMAIN baseline' /\ i < n
             /\ \A i \in DOMAIN baseline : baseline'[i] = baseline[i]
             /\ n \in DOMAIN baseline'
             /\ \A i \in DOMAIN baseline' : i \in DOMAIN baseline \/ i = n
             /\ f = NewFrame(t) /\ f.task = t /\ f.cycle = cycle
             /\ f.sequence = sequence + 1 /\ f \in Frame
             /\ baseline'[n].latency = FinishedAt(f) - CreatedAt(f)
<1> DEFINE f == NewFrame(t)
           e == Execution(f)
<1>1. /\ f \in Frame /\ f.task = t /\ f.cycle = cycle
      /\ f.sequence = sequence + 1
  BY NewFrameTyped DEF TypeOK
<1>2. /\ e \in Record /\ e.frame = f
      /\ e.latency = FinishedAt(f) - CreatedAt(f)
  BY <1>1, FinishedTyped DEF TypeOK
<1>3. baseline \in Seq(Record) /\ baseline' = Append(baseline, e)
  BY DEF TypeOK, BaselineExecutes
<1> HIDE DEF f, e
<1>4. /\ DOMAIN baseline = 1 .. Len(baseline) /\ Len(baseline) \in Nat
      /\ DOMAIN baseline' = 1 .. Len(baseline) + 1
      /\ Len(baseline') = Len(baseline) + 1
      /\ \A i \in 1 .. Len(baseline) : baseline'[i] = baseline[i]
      /\ baseline'[Len(baseline) + 1] = e
  BY <1>2, <1>3, AppendProperties, LenProperties
<1>5. QED
  BY <1>1, <1>2, <1>4 DEF f

(* The baseline lists each frame the source builds, in its order.          *)
LEMMA BaselineExecutesListed ==
  ASSUME TypeOK, LoopInv, BaselineInOrder, BaselineComplete,
         NEW t \in Task, ExecuteBaseline(t), BaselineExecutes(t)
  PROVE  BaselineInOrder' /\ BaselineComplete'
<1>1. PICK n \in Nat : n = Len(baseline) + 1
  BY BaselineEntries
<1>2. /\ DOMAIN baseline' = 1 .. n /\ Len(baseline') = n
      /\ \A i \in DOMAIN baseline : i \in DOMAIN baseline' /\ i < n
      /\ \A i \in DOMAIN baseline : baseline'[i] = baseline[i]
      /\ n \in DOMAIN baseline'
      /\ \A i \in DOMAIN baseline' : i \in DOMAIN baseline \/ i = n
      /\ baseline'[n].frame.task = t /\ baseline'[n].frame.cycle = cycle
      /\ baseline'[n].frame.sequence = sequence + 1
  BY <1>1, BaselineGrows
<1>3. \A i \in DOMAIN baseline :
        /\ i \in Nat /\ baseline[i].frame.cycle \in Nat
        /\ baseline[i].frame.task \in Task
  BY BaselineEntries
<1>4. /\ pc = "baseline" /\ pc' = "baseline" /\ cycle < config.frames
      /\ t \in toVisit /\ toVisit' = toVisit \ {t}
      /\ cycle' = cycle /\ config' = config /\ Emits(t, cycle)
      /\ sequence = Len(baseline) /\ sequence' = sequence + 1
  BY DEF ExecuteBaseline, BaselineExecutes, NextInOrder, BaselineInOrder
<1>5. cycle \in Nat /\ config.order \in [Task -> Nat]
      /\ config.frames \in Nat
  BY ScenarioConfigTyped DEF TypeOK
<1>6. ASSUME NEW i \in DOMAIN baseline
      PROVE  Listed(i)' /\ Earlier(baseline[i].frame, baseline[n].frame)'
  <2> DEFINE g == baseline[i].frame
  <2>1. /\ g.sequence = i /\ g.cycle < config.frames
        /\ Emits(g.task, g.cycle) /\ Passed(g.task, g.cycle)
        /\ g.task \in Task /\ g.cycle \in Nat
    BY <1>3, <1>4 DEF BaselineInOrder, Listed
  <2>2. baseline'[i] = baseline[i]
    BY <1>2
  <2>3. Listed(i)'
    BY <1>4, <2>1, <2>2 DEF Emits, Passed, Listed
  <2>4. Earlier(baseline[i].frame, baseline[n].frame)'
    BY <1>2, <1>4, <1>5, <2>1, <2>2 DEF Earlier, Passed, LoopInv
  <2>5. QED
    BY <2>3, <2>4
<1>7. Listed(n)'
  BY <1>1, <1>2, <1>4 DEF Listed, Emits, Passed
<1>8. BaselineInOrder'
  <2>1. ASSUME NEW i \in DOMAIN baseline' PROVE Listed(i)'
    BY <1>2, <1>6, <1>7
  <2>2. ASSUME NEW i \in DOMAIN baseline', NEW j \in DOMAIN baseline', i < j
        PROVE  Earlier(baseline[i].frame, baseline[j].frame)'
    <3>1. CASE j = n
      BY <1>2, <1>3, <1>6, <2>2, <3>1
    <3>2. CASE j # n
      <4>1. i \in DOMAIN baseline /\ j \in DOMAIN baseline
        BY <1>2, <1>3, <2>2, <3>2
      <4>2. Earlier(baseline[i].frame, baseline[j].frame)
        BY <4>1, <2>2 DEF BaselineInOrder
      <4>3. baseline'[i] = baseline[i] /\ baseline'[j] = baseline[j]
        BY <1>2, <4>1
      <4>4. QED
        BY <1>4, <4>2, <4>3 DEF Earlier
    <3>3. QED
      BY <3>1, <3>2
  <2>3. sequence' = Len(baseline')
    BY <1>1, <1>2, <1>4
  <2>4. QED
    BY <2>1, <2>2, <2>3 DEF BaselineInOrder
<1>9. BaselineComplete'
  <2> SUFFICES ASSUME NEW s \in Task, NEW c \in Nat, c < config.frames,
                      Emits(s, c), Passed(s, c)'
               PROVE  \E i \in DOMAIN baseline' :
                        /\ baseline'[i].frame.task = s
                        /\ baseline'[i].frame.cycle = c
    BY <1>4 DEF BaselineComplete, Emits
  <2>1. CASE s = t /\ c = cycle
    BY <1>2, <2>1
  <2>2. CASE ~ (s = t /\ c = cycle)
    <3>1. Passed(s, c)
      BY <1>4, <2>2 DEF Passed
    <3>2. QED
      BY <1>2, <3>1 DEF BaselineComplete
  <2>3. QED
    BY <2>1, <2>2
<1>10. QED
  BY <1>8, <1>9

(* It does so in every step.                                               *)
LEMMA BaselineStep ==
  ASSUME TypeOK, LoopInv, BaselineInOrder, BaselineComplete, [Next]_vars
  PROVE  BaselineInOrder' /\ BaselineComplete'
<1>1. /\ config.frames \in Nat /\ cycle \in Nat
      /\ \A i \in DOMAIN baseline :
           /\ baseline[i].frame.cycle \in Nat
           /\ baseline[i].frame.task \in Task
  BY ScenarioConfigTyped, BaselineEntries DEF TypeOK
<1>2. ASSUME UNCHANGED <<config, baseline, sequence>>,
             pc' = pc,
             pc = "baseline"
               => \A t \in Task, c \in Nat :
                    Emits(t, c) => (Passed(t, c)' <=> Passed(t, c))
      PROVE  BaselineInOrder' /\ BaselineComplete'
  <2>1. \A i \in DOMAIN baseline : Listed(i)'
    BY <1>1, <1>2 DEF Listed, BaselineInOrder, Emits
  <2>2. \A i, j \in DOMAIN baseline :
          i < j => Earlier(baseline[i].frame, baseline[j].frame)'
    BY <1>2 DEF BaselineInOrder, Earlier
  <2>3. BaselineInOrder'
    BY <1>2, <2>1, <2>2 DEF BaselineInOrder
  <2>4. BaselineComplete'
    BY <1>2 DEF BaselineComplete, Emits
  <2>5. QED
    BY <2>3, <2>4
<1>3. ASSUME UNCHANGED <<config, baseline>>, pc' # "baseline",
             \A t \in Task, c \in Nat :
               c < config.frames /\ pc = "baseline" => Passed(t, c)
      PROVE  BaselineInOrder' /\ BaselineComplete'
  <2>1. \A i \in DOMAIN baseline : Listed(i)'
    BY <1>1, <1>3 DEF Listed, BaselineInOrder, Emits
  <2>2. \A i, j \in DOMAIN baseline :
          i < j => Earlier(baseline[i].frame, baseline[j].frame)'
    BY <1>3 DEF BaselineInOrder, Earlier
  <2>3. BaselineInOrder'
    BY <1>3, <2>1, <2>2 DEF BaselineInOrder
  <2>4. BaselineComplete'
    BY <1>3 DEF BaselineComplete, Emits
  <2>5. QED
    BY <2>3, <2>4
<1>4. ASSUME NEW t \in Task, ExecuteBaseline(t)
      PROVE  BaselineInOrder' /\ BaselineComplete'
  <2>1. CASE BaselineExecutes(t)
    BY <1>4, <2>1, BaselineExecutesListed
  <2>2. CASE BaselineSkips(t)
    <3>1. /\ UNCHANGED <<config, baseline, sequence, pc, cycle>>
          /\ toVisit' = toVisit \ {t} /\ ~ Emits(t, cycle)
      BY <1>4, <2>2 DEF ExecuteBaseline, BaselineSkips
    <3>2. \A s \in Task, c \in Nat :
            Emits(s, c) => (Passed(s, c)' <=> Passed(s, c))
      BY <3>1 DEF Passed
    <3>3. QED
      BY <1>2, <3>1, <3>2
  <2>3. QED
    BY <1>4, <2>1, <2>2 DEF ExecuteBaseline, BaselineExecutes, BaselineSkips
<1>5. CASE NextBaselineCycle
  <2>1. /\ UNCHANGED <<config, baseline, sequence, pc>>
        /\ toVisit = {} /\ toVisit' = Task /\ cycle' = cycle + 1
    BY <1>5 DEF NextBaselineCycle
  <2>2. \A s \in Task, c \in Nat : Passed(s, c)' <=> Passed(s, c)
    BY <1>1, <2>1 DEF Passed
  <2>3. QED
    BY <1>2, <2>1, <2>2
<1>6. CASE BeginScheduled
  <2>1. /\ UNCHANGED <<config, baseline>> /\ pc = "baseline"
        /\ pc' # "baseline" /\ cycle >= config.frames
    BY <1>6 DEF BeginScheduled
  <2>2. \A s \in Task, c \in Nat : c < config.frames => Passed(s, c)
    BY <1>1, <2>1 DEF Passed
  <2>3. QED
    BY <1>3, <2>1, <2>2
<1>7. ASSUME UNCHANGED <<config, baseline>>, pc # "baseline",
             pc' # "baseline"
      PROVE  BaselineInOrder' /\ BaselineComplete'
  BY <1>3, <1>7
<1>8. ASSUME NEW t \in Task,
             \/ Enqueue(t) \/ PassByTask(t) \/ ShedTask(t) \/ Execute(t)
             \/ BeginShedding \/ EndShedding \/ Finish
      PROVE  BaselineInOrder' /\ BaselineComplete'
  BY <1>7, <1>8 DEF Enqueue, PassByTask, ShedTask, Execute, BeginShedding,
                    EndShedding, Finish
<1>9. CASE UNCHANGED vars
  BY <1>2, <1>9 DEF vars, Passed
<1>10. QED
  BY <1>4, <1>5, <1>6, <1>8, <1>9, TaskAssumption DEF Next

\* The frame that the second pass draws next for t is the one the baseline
\* has at the same place.
DrawsSame(t) ==
  /\ sequence + 1 \in DOMAIN baseline
  /\ baseline[sequence + 1].frame = NewFrame(t)

(* An arrival draws the frame of the baseline.                             *)
LEMMA EnqueueDrawsSame ==
  ASSUME PositionInv, NEW t \in Task, Enqueue(t), Emits(t, cycle)
  PROVE  DrawsSame(t)
<1>1. /\ TypeOK /\ LoopInv /\ pc = "arrivals" /\ t \in toVisit
      /\ \A s \in toVisit \ {t} : config.order[t] < config.order[s]
      /\ cycle < config.frames /\ toVisit \subseteq Task
  BY DEF PositionInv, LoopInv, Enqueue, NextInOrder, TypeOK
<1>2. /\ cycle \in Nat /\ config.order \in [Task -> Nat] /\ sequence \in Nat
      /\ \A r, s \in Task : r # s => config.order[r] # config.order[s]
      /\ DOMAIN baseline = 1 .. Len(baseline) /\ Len(baseline) \in Nat
      /\ \A i \in DOMAIN baseline :
           /\ i \in Nat /\ i >= 1 /\ baseline[i].frame \in Frame
           /\ baseline[i].frame.cycle \in Nat
           /\ baseline[i].frame.task \in Task
  BY <1>1, ScenarioConfigTyped, BaselineEntries DEF TypeOK
<1>3. PICK i \in DOMAIN baseline :
        baseline[i].frame.task = t /\ baseline[i].frame.cycle = cycle
  BY <1>1, <1>2 DEF PositionInv, BaselineComplete
<1>4. i > sequence
  BY <1>1, <1>2, <1>3 DEF PositionInv, Position, Drawn, Passed
<1>5. ASSUME NEW j \in DOMAIN baseline, j < i PROVE j <= sequence
  <2>1. Earlier(baseline[j].frame, baseline[i].frame)
    BY <1>5 DEF PositionInv, BaselineInOrder
  <2>2. Passed(baseline[j].frame.task, baseline[j].frame.cycle)
    BY <1>1, <1>2, <1>3, <2>1 DEF Earlier, Passed, LoopInv
  <2>3. QED
    BY <1>1, <1>2, <2>2 DEF PositionInv, Position, Drawn
<1>6. i = sequence + 1
  <2>1. CASE i = 1
    BY <1>2, <1>4, <2>1
  <2>2. CASE i # 1
    <3>1. i - 1 \in DOMAIN baseline /\ i - 1 < i
      BY <1>2, <2>2
    <3>2. i - 1 <= sequence
      BY <1>5, <3>1
    <3>3. QED
      BY <1>2, <1>4, <3>2
  <2>3. QED
    BY <2>1, <2>2
<1>7. baseline[i].frame.sequence = i
  BY DEF PositionInv, BaselineInOrder, Listed
<1>8. baseline[i].frame = NewFrame(t)
  <2>1. \A f \in Frame :
          f = [task |-> f.task, sequence |-> f.sequence, cycle |-> f.cycle]
    BY DEF Frame
  <2>2. QED
    BY <1>2, <1>3, <1>6, <1>7, <2>1 DEF NewFrame
<1>9. QED
  BY <1>6, <1>8 DEF DrawsSame

(* The second pass stays in step with the baseline.                        *)
LEMMA PositionStep == PositionInv /\ [Next]_vars => Position'
<1> SUFFICES ASSUME PositionInv, [Next]_vars PROVE Position'
  OBVIOUS
<1>1. /\ TypeOK /\ LoopInv /\ BaselineInOrder /\ Position
      /\ config.frames \in Nat /\ cycle \in Nat /\ sequence \in Nat
      /\ toVisit \subseteq Task
      /\ DOMAIN baseline = 1 .. Len(baseline) /\ Len(baseline) \in Nat
      /\ \A i \in DOMAIN baseline :
           /\ i \in Nat /\ i >= 1
           /\ baseline[i].frame.cycle \in Nat
           /\ baseline[i].frame.cycle < config.frames
           /\ baseline[i].frame.task \in Task
  BY ScenarioConfigTyped, BaselineEntries
     DEF PositionInv, TypeOK, BaselineInOrder, Listed
<1>2. ASSUME UNCHANGED <<baseline, sequence>>, pc # "baseline",
             \A t \in Task, c \in Nat :
               c < config.frames => (Drawn(t, c)' <=> Drawn(t, c))
      PROVE  Position'
  BY <1>1, <1>2 DEF Position
<1>3. CASE BeginScheduled
  <2>1. /\ baseline' = baseline /\ sequence' = 0 /\ cycle' = 0
        /\ toVisit' = toVisit /\ toVisit = Task
        /\ config.frames = 0 \/ pc' = "arrivals"
    BY <1>1, <1>3 DEF BeginScheduled, LoopInv
  <2>2. \A i \in DOMAIN baseline :
          ~ Drawn(baseline[i].frame.task, baseline[i].frame.cycle)'
    BY <1>1, <2>1 DEF Drawn, Passed
  <2>3. QED
    BY <1>1, <2>1, <2>2 DEF Position
<1>4. ASSUME NEW t \in Task, Enqueue(t) PROVE Position'
  <2>1. /\ pc = "arrivals" /\ t \in toVisit /\ toVisit' = toVisit \ {t}
        /\ UNCHANGED <<config, pc, cycle, baseline>>
    BY <1>4 DEF Enqueue, NextInOrder
  <2>2. CASE Emits(t, cycle)
    <3>1. /\ sequence' = sequence + 1
          /\ sequence + 1 \in DOMAIN baseline
          /\ baseline[sequence + 1].frame = NewFrame(t)
          /\ NewFrame(t).task = t /\ NewFrame(t).cycle = cycle
      BY <1>1, <1>4, <2>2, EnqueueDrawsSame, NewFrameTyped
         DEF Enqueue, DrawsSame
    <3>2. PICK n \in DOMAIN baseline : n = sequence + 1
      BY <3>1
    <3>3. ASSUME NEW i \in DOMAIN baseline
          PROVE  i <= sequence + 1
                   <=> Passed(baseline[i].frame.task,
                              baseline[i].frame.cycle)'
      <4> DEFINE f == baseline[i].frame
      <4>1. i <= sequence <=> Passed(f.task, f.cycle)
        BY <1>1, <2>1 DEF Position, Drawn
      <4>2. CASE i = n
        BY <2>1, <3>1, <3>2, <4>2 DEF Passed
      <4>3. CASE i # n
        <5>1. ~ (f.task = t /\ f.cycle = cycle)
          <6> DEFINE g == baseline[n].frame
          <6>1. Earlier(f, g) \/ Earlier(g, f)
            <7>1. i < n \/ n < i
              BY <1>1, <4>3
            <7>2. QED
              BY <1>1, <7>1 DEF BaselineInOrder
          <6>2. g.task = t /\ g.cycle = cycle
            BY <3>1, <3>2
          <6>3. f.cycle \in Nat
            BY <1>1
          <6>4. t \in Task /\ config.order[t] \in Nat
            BY <1>1, ScenarioConfigTyped DEF TypeOK
          <6> HIDE DEF f, g
          <6>5. QED
            BY <1>1, <6>1, <6>2, <6>3, <6>4 DEF Earlier
        <5>2. i <= sequence + 1 <=> i <= sequence
          BY <1>1, <3>2, <4>3
        <5>3. QED
          BY <2>1, <4>1, <5>1, <5>2 DEF Passed
      <4>4. QED
        BY <4>2, <4>3
    <3>4. QED
      BY <1>1, <2>1, <3>1, <3>3 DEF Position, Drawn
  <2>3. CASE ~ Emits(t, cycle)
    <3>1. sequence' = sequence
      BY <1>4, <2>3 DEF Enqueue
    <3>2. \A i \in DOMAIN baseline :
            ~ (baseline[i].frame.task = t /\ baseline[i].frame.cycle = cycle)
      BY <1>1, <2>3 DEF BaselineInOrder, Listed
    <3>3. QED
      BY <1>1, <2>1, <3>1, <3>2 DEF Position, Drawn, Passed
  <2>4. QED
    BY <2>2, <2>3
<1>5. CASE BeginShedding
  <2>1. /\ pc = "arrivals" /\ pc' = "shed" /\ toVisit = {}
        /\ UNCHANGED <<cycle, sequence, baseline>>
    BY <1>5 DEF BeginShedding
  <2>2. \A t \in Task, c \in Nat : Drawn(t, c)' <=> Drawn(t, c)
    BY <1>1, <2>1 DEF Drawn, Passed
  <2>3. QED
    BY <1>2, <2>1, <2>2
<1>6. ASSUME NEW t \in Task, PassByTask(t) \/ ShedTask(t)
      PROVE  Position'
  BY <1>2, <1>6 DEF PassByTask, ShedTask, Drawn
<1>7. CASE EndShedding
  <2>1. /\ pc = "shed" /\ cycle' = cycle + 1
        /\ UNCHANGED <<sequence, baseline>>
        /\ \/ pc' = "arrivals" /\ toVisit' = Task
           \/ pc' = "execute" /\ cycle + 1 >= config.frames
    BY <1>1, <1>7 DEF EndShedding
  <2>2. \A t \in Task, c \in Nat :
          c < config.frames => (Drawn(t, c)' <=> Drawn(t, c))
    BY <1>1, <2>1 DEF Drawn, Passed
  <2>3. QED
    BY <1>2, <2>1, <2>2
<1>8. ASSUME NEW t \in Task, Execute(t) PROVE Position'
  BY <1>2, <1>8 DEF Execute, Drawn
<1>9. CASE Finish
  BY <1>2, <1>9 DEF Finish, Drawn
<1>10. CASE NextBaselineCycle \/ \E t \in Task : ExecuteBaseline(t)
  BY <1>10 DEF NextBaselineCycle, ExecuteBaseline, Position
<1>11. CASE UNCHANGED vars
  BY <1>1, <1>11 DEF vars, Position, Drawn, Passed
<1>12. QED
  BY <1>3, <1>4, <1>5, <1>6, <1>7, <1>8, <1>9, <1>10, <1>11 DEF Next

(* The first cycle has not begun.                                          *)
LEMMA PositionInit == Init => PositionInv
<1> SUFFICES ASSUME Init PROVE PositionInv
  OBVIOUS
<1>1. /\ TypeOK /\ pc = "baseline" /\ cycle = 0 /\ sequence = 0
      /\ toVisit = Task /\ baseline = <<>>
      /\ config.frames \in Nat
  BY TypeInit, ScenarioConfigTyped DEF Init, TypeOK
<1>2. DOMAIN baseline = {} /\ Len(baseline) = 0
  BY <1>1
<1>3. \A t \in Task, c \in Nat : ~ Passed(t, c)
  BY <1>1 DEF Passed
<1>4. QED
  BY <1>1, <1>2, <1>3
     DEF PositionInv, LoopInv, BaselineInOrder, BaselineComplete, Position

(* The two passes draw the same frames, in the same order.                 *)
LEMMA PositionInvariant == Spec => []PositionInv
<1>1. PositionInv /\ [Next]_vars => PositionInv'
  BY TypeStep, LoopStep, BaselineStep, PositionStep DEF PositionInv
<1>2. QED
  BY PositionInit, <1>1, PTL DEF Spec

-----------------------------------------------------------------------------
(***************************************************************************)
(* Accounting: each frame that the second pass has drawn is executed,      *)
(* dropped or queued.                                                      *)
(***************************************************************************)
OwnFrames ==
  \A t \in Task : \A i \in DOMAIN queue[t] : queue[t][i].task = t

DrawnOf(t) == {i \in Of(baseline, t) : i <= sequence}

Accounted(t) ==
  ExecutedCount(records, t) + DroppedCount(t) + Backlog(t)
    = Cardinality(DrawnOf(t))

AccountInv ==
  /\ pc = "baseline" => /\ records = <<>> /\ drops = <<>>
                        /\ \A t \in Task : queue[t] = <<>>
  /\ pc # "baseline" => \A t \in Task : Accounted(t)
  /\ pc = "done" => TotalBacklog = 0

SameFramesInv == PositionInv /\ OwnFrames /\ AccountInv

(* The parts of the account are numbers.                                   *)
LEMMA AccountTyped ==
  ASSUME TypeOK, NEW t \in Task
  PROVE  /\ Backlog(t) \in Nat
         /\ ExecutedCount(records, t) \in Nat
         /\ DroppedCount(t) \in Nat
         /\ Cardinality(DrawnOf(t)) \in Nat
<1>1. /\ DOMAIN records = 1 .. Len(records) /\ Len(records) \in Nat
      /\ DOMAIN drops = 1 .. Len(drops) /\ Len(drops) \in Nat
      /\ DOMAIN baseline = 1 .. Len(baseline) /\ Len(baseline) \in Nat
  BY LenProperties DEF TypeOK
<1>2. /\ Of(records, t) \subseteq 1 .. Len(records)
      /\ {i \in DOMAIN drops : drops[i].task = t} \subseteq 1 .. Len(drops)
      /\ DrawnOf(t) \subseteq 1 .. Len(baseline)
  BY <1>1 DEF Of, DrawnOf
<1>3. ASSUME NEW n \in Nat, NEW S \in SUBSET (1 .. n)
      PROVE  Cardinality(S) \in Nat
  <2>1. IsFiniteSet(1 .. n)
    BY FS_Interval
  <2>2. QED
    BY <2>1, FS_Subset, FS_CardinalityType
<1>4. QED
  BY <1>1, <1>2, <1>3, BacklogTyped DEF TypeOK, ExecutedCount, DroppedCount

(* A record counts for the task of its frame.                              *)
LEMMA RecordCounts ==
  ASSUME TypeOK, NEW f \in Frame, records' = Append(records, Execution(f)),
         NEW t \in Task
  PROVE  ExecutedCount(records', t)
           = ExecutedCount(records, t) + (IF f.task = t THEN 1 ELSE 0)
<1> DEFINE n == Len(records)
           A == Of(records, t)
           B == Of(records', t)
<1>1. Execution(f) \in Record /\ Execution(f).frame = f
  BY FinishedTyped DEF TypeOK
<1>2. /\ n \in Nat /\ DOMAIN records = 1 .. n /\ DOMAIN records' = 1 .. n + 1
      /\ \A i \in 1 .. n : records'[i] = records[i]
      /\ records'[n + 1] = Execution(f)
  BY <1>1, AppendProperties, LenProperties DEF TypeOK
<1> HIDE DEF n
<1>3. /\ A \in SUBSET (1 .. n) /\ B \in SUBSET (1 .. n + 1)
      /\ \A i \in 1 .. n : i \in B <=> i \in A
      /\ n + 1 \in B <=> f.task = t
  BY <1>1, <1>2 DEF Of
<1> HIDE DEF A, B
<1>4. /\ n + 1 \in B => Cardinality(B) = Cardinality(A) + 1
      /\ n + 1 \notin B => Cardinality(B) = Cardinality(A)
      /\ Cardinality(A) \in Nat
  <2>1. n \in Nat
    BY <1>2
  <2>2. QED
    BY <1>3, <2>1, CountAppended
<1>5. QED
  BY <1>3, <1>4 DEF A, B, ExecutedCount

(* A drop counts for the task of the frame.                                *)
LEMMA DropCounts ==
  ASSUME TypeOK, NEW f \in Frame, drops' = Append(drops, f), NEW t \in Task
  PROVE  DroppedCount(t)' = DroppedCount(t) + (IF f.task = t THEN 1 ELSE 0)
<1> DEFINE n == Len(drops)
           A == {i \in DOMAIN drops : drops[i].task = t}
           B == {i \in DOMAIN drops' : drops'[i].task = t}
<1>1. /\ n \in Nat /\ DOMAIN drops = 1 .. n /\ DOMAIN drops' = 1 .. n + 1
      /\ \A i \in 1 .. n : drops'[i] = drops[i]
      /\ drops'[n + 1] = f
  BY AppendProperties, LenProperties DEF TypeOK
<1> HIDE DEF n
<1>2. n \in Nat
  BY <1>1
<1>3. /\ A \in SUBSET (1 .. n) /\ B \in SUBSET (1 .. n + 1)
      /\ \A i \in 1 .. n : i \in B <=> i \in A
      /\ n + 1 \in B <=> f.task = t
  BY <1>1
<1>4. DroppedCount(t) = Cardinality(A) /\ DroppedCount(t)' = Cardinality(B)
  BY DEF DroppedCount
<1> HIDE DEF A, B
<1>5. /\ n + 1 \in B => Cardinality(B) = Cardinality(A) + 1
      /\ n + 1 \notin B => Cardinality(B) = Cardinality(A)
      /\ Cardinality(A) \in Nat
  BY <1>2, <1>3, CountAppended
<1>6. QED
  BY <1>3, <1>4, <1>5

(* A frame that is drawn counts for its task.                              *)
LEMMA DrawnCounts ==
  ASSUME TypeOK, NEW t \in Task, DrawsSame(t), NEW s \in Task,
         sequence' = sequence + 1, baseline' = baseline
  PROVE  Cardinality(DrawnOf(s)')
           = Cardinality(DrawnOf(s)) + (IF s = t THEN 1 ELSE 0)
<1> DEFINE A == DrawnOf(s)
           B == DrawnOf(s)'
<1>1. /\ sequence \in Nat
      /\ DOMAIN baseline = 1 .. Len(baseline) /\ Len(baseline) \in Nat
      /\ sequence + 1 \in DOMAIN baseline
      /\ baseline[sequence + 1].frame.task = t
  BY BaselineEntries, NewFrameTyped DEF TypeOK, DrawsSame
<1>2. /\ A \in SUBSET (1 .. sequence) /\ B \in SUBSET (1 .. sequence + 1)
      /\ \A i \in 1 .. sequence : i \in B <=> i \in A
      /\ sequence + 1 \in B <=> s = t
  BY <1>1 DEF DrawnOf, Of
<1> HIDE DEF A, B
<1>3. /\ sequence + 1 \in B => Cardinality(B) = Cardinality(A) + 1
      /\ sequence + 1 \notin B => Cardinality(B) = Cardinality(A)
      /\ Cardinality(A) \in Nat
  BY <1>1, <1>2, CountAppended
<1>4. QED
  BY <1>2, <1>3 DEF A, B

\* What a step does to the queue of t.
TakesHead(t) == queue[t] # <<>> /\ queue'[t] = Tail(queue[t])

PutsIn(t) ==
  /\ Enqueue(t)
  /\ pc = "arrivals" /\ Emits(t, cycle)
  /\ UNCHANGED <<config, baseline>> /\ sequence' = sequence + 1
  /\ \/ queue'[t] = Append(queue[t], NewFrame(t))
     \/ /\ queue[t] # <<>>
        /\ queue'[t] = Append(Tail(queue[t]), NewFrame(t))

(* Queues change in three ways only.                                       *)
LEMMA QueueChanges ==
  ASSUME TypeOK, [Next]_vars, NEW s \in Task
  PROVE  queue'[s] = queue[s] \/ TakesHead(s) \/ PutsIn(s)
<1>1. queue \in Queues /\ ValidConfig(config) /\ cycle \in Nat
      /\ sequence \in Nat
  BY DEF TypeOK
<1>2. ASSUME NEW t \in Task, RemoveOldest(t)
      PROVE  queue'[s] = queue[s] \/ TakesHead(s)
  BY <1>1, <1>2, RemoveOldestEffect DEF TakesHead, RemoveOldest
<1>3. ASSUME NEW t \in Task, Enqueue(t)
      PROVE  queue'[s] = queue[s] \/ PutsIn(s)
  <2> DEFINE f == NewFrame(t)
  <2>1. f \in Frame /\ f.task = t
    BY <1>1, NewFrameTyped
  <2> HIDE DEF f
  <2>2. Accept(f) => /\ \A r \in Task \ {t} : queue'[r] = queue[r]
                     /\ queue'[t] = Append(queue[t], f)
    BY <1>1, <2>1, AcceptEffect DEF Accept, Queues
  <2>3. AcceptEvictingOldest(f) =>
          /\ \A r \in Task \ {t} : queue'[r] = queue[r]
          /\ queue[t] # <<>> /\ queue'[t] = Append(Tail(queue[t]), f)
    BY <1>1, <2>1, EvictEffect DEF AcceptEvictingOldest, Queues
  <2>4. RejectNewest(f) => queue' = queue
    BY DEF RejectNewest
  <2>5. CASE Emits(t, cycle)
    <3>1. Accept(f) \/ AcceptEvictingOldest(f) \/ RejectNewest(f)
      BY <1>3, <2>5 DEF Enqueue, f
    <3>2. /\ pc = "arrivals" /\ UNCHANGED <<config, baseline>>
          /\ sequence' = sequence + 1
      BY <1>3, <2>5 DEF Enqueue
    <3>3. QED
      BY <1>3, <2>2, <2>3, <2>4, <2>5, <3>1, <3>2 DEF PutsIn, f
  <2>6. CASE ~ Emits(t, cycle)
    BY <1>3, <2>6 DEF Enqueue
  <2>7. QED
    BY <2>5, <2>6
<1>4. ASSUME NEW t \in Task, ShedTask(t) \/ Execute(t)
      PROVE  queue'[s] = queue[s] \/ TakesHead(s)
  BY <1>2, <1>4 DEF ShedTask, Shed, Execute
<1>5. ASSUME NEW t \in Task, ExecuteBaseline(t) \/ PassByTask(t)
      PROVE  queue' = queue
  BY <1>5 DEF ExecuteBaseline, PassByTask, PassBy
<1>6. CASE \/ NextBaselineCycle \/ BeginScheduled \/ BeginShedding
           \/ EndShedding \/ Finish \/ UNCHANGED vars
  BY <1>6 DEF NextBaselineCycle, BeginScheduled, BeginShedding, BeginWalk,
              EndShedding, Finish, vars
<1>7. QED
  BY <1>3, <1>4, <1>5, <1>6 DEF Next

(* A frame that is queued was queued before, or is the one just drawn.     *)
LEMMA QueuedBefore ==
  ASSUME TypeOK, [Next]_vars, NEW s \in Task, NEW i \in DOMAIN queue'[s]
  PROVE  \/ \E j \in DOMAIN queue[s] : queue'[s][i] = queue[s][j]
         \/ PutsIn(s) /\ queue'[s][i] = NewFrame(s)
<1>1. queue[s] \in Seq(Frame) /\ NewFrame(s) \in Frame
  BY NewFrameTyped DEF TypeOK, Queues
<1>2. CASE queue'[s] = queue[s]
  BY <1>2
<1>3. CASE TakesHead(s)
  BY <1>1, <1>3, TailElements DEF TakesHead
<1>4. CASE PutsIn(s)
  <2>1. CASE queue'[s] = Append(queue[s], NewFrame(s))
    BY <1>1, <1>4, <2>1, AppendElements
  <2>2. CASE queue[s] # <<>> /\ queue'[s] = Append(Tail(queue[s]), NewFrame(s))
    <3>1. Tail(queue[s]) \in Seq(Frame)
      BY <1>1, <2>2, HeadTailProperties
    <3>2. \/ queue'[s][i] = NewFrame(s)
          \/ /\ i \in DOMAIN Tail(queue[s])
             /\ queue'[s][i] = Tail(queue[s])[i]
      BY <1>1, <2>2, <3>1, AppendElements
    <3>3. i \in DOMAIN Tail(queue[s]) =>
            /\ i + 1 \in DOMAIN queue[s]
            /\ Tail(queue[s])[i] = queue[s][i + 1]
      BY <1>1, <2>2, TailElements
    <3>4. QED
      BY <1>4, <3>2, <3>3
  <2>3. QED
    BY <1>4, <2>1, <2>2 DEF PutsIn
<1>5. QED
  BY <1>2, <1>3, <1>4, QueueChanges

(* No frame is in the queue of another task.                               *)
LEMMA OwnFramesStep == TypeOK /\ OwnFrames /\ [Next]_vars => OwnFrames'
<1> SUFFICES ASSUME TypeOK, OwnFrames, [Next]_vars,
                    NEW s \in Task, NEW i \in DOMAIN queue'[s]
             PROVE  queue'[s][i].task = s
  BY DEF OwnFrames
<1>1. NewFrame(s).task = s
  BY DEF NewFrame
<1>2. QED
  BY <1>1, QueuedBefore DEF OwnFrames

(* An arrival is counted where it goes, with the frame it may evict.       *)
LEMMA EnqueueAccounted ==
  ASSUME PositionInv, OwnFrames, NEW t \in Task, Enqueue(t),
         NEW s \in Task, Accounted(s)
  PROVE  Accounted(s)'
<1> DEFINE f == NewFrame(t)
           one == IF s = t THEN 1 ELSE 0
<1>1. /\ TypeOK /\ queue \in Queues /\ ValidConfig(config)
      /\ f \in Frame /\ f.task = t
  BY NewFrameTyped DEF PositionInv, TypeOK
<1>2. /\ ExecutedCount(records, s)' = ExecutedCount(records, s)
      /\ baseline' = baseline
  BY DEF Enqueue, ExecutedCount, Of
<1>3. /\ Backlog(s) \in Nat /\ ExecutedCount(records, s) \in Nat
      /\ DroppedCount(s) \in Nat /\ Cardinality(DrawnOf(s)) \in Nat
  BY <1>1, AccountTyped
<1>4. ASSUME NEW g \in Frame, g.task = t, drops' = Append(drops, g)
      PROVE  DroppedCount(s)' = DroppedCount(s) + one
  BY <1>1, <1>4, DropCounts
<1> HIDE DEF f
<1>5. CASE Emits(t, cycle)
  <2>1. sequence' = sequence + 1 /\ DrawsSame(t)
    BY <1>5, EnqueueDrawsSame DEF Enqueue
  <2>2. Cardinality(DrawnOf(s))' = Cardinality(DrawnOf(s)) + one
    BY <1>1, <1>2, <2>1, DrawnCounts
  <2>3. \/ DroppedCount(s)' = DroppedCount(s) /\ Backlog(s)' = Backlog(s) + one
        \/ DroppedCount(s)' = DroppedCount(s) + one /\ Backlog(s)' = Backlog(s)
    <3>1. CASE Accept(f) /\ UNCHANGED drops
      <4>1. /\ Backlog(t)' = Backlog(t) + 1
            /\ \A r \in Task \ {t} : queue'[r] = queue[r]
        BY <1>1, <3>1, AcceptEffect
      <4>2. DroppedCount(s)' = DroppedCount(s)
        BY <3>1 DEF DroppedCount
      <4>3. CASE s = t
        BY <4>1, <4>2, <4>3
      <4>4. CASE s # t
        <5>1. Backlog(s)' = Backlog(s)
          BY <4>1, <4>4 DEF Backlog
        <5>2. QED
          BY <1>3, <4>2, <4>4, <5>1
      <4>5. QED
        BY <4>3, <4>4
    <3>2. CASE /\ AcceptEvictingOldest(f)
               /\ drops' = Append(drops, Head(queue[t]))
      <4>1. /\ Backlog(t)' = Backlog(t) /\ queue[t] # <<>>
            /\ \A r \in Task \ {t} : queue'[r] = queue[r]
        BY <1>1, <3>2, EvictEffect
      <4>2. Head(queue[t]) \in Frame /\ Head(queue[t]).task = t
        BY <1>1, <4>1, HeadIsFrame, HeadElement DEF OwnFrames, Queues
      <4>3. DroppedCount(s)' = DroppedCount(s) + one
        BY <1>4, <3>2, <4>2
      <4>4. QED
        BY <4>1, <4>3 DEF Backlog
    <3>3. CASE RejectNewest(f) /\ drops' = Append(drops, f)
      <4>1. DroppedCount(s)' = DroppedCount(s) + one
        BY <1>1, <1>4, <3>3
      <4>2. QED
        BY <3>3, <4>1 DEF RejectNewest, Backlog
    <3>4. QED
      BY <1>5, <3>1, <3>2, <3>3 DEF Enqueue, f
  <2>4. QED
    BY <1>2, <1>3, <2>2, <2>3 DEF Accounted
<1>6. CASE ~ Emits(t, cycle)
  <2>1. UNCHANGED <<queue, sequence, drops>>
    BY <1>6 DEF Enqueue
  <2>2. /\ DroppedCount(s)' = DroppedCount(s) /\ Backlog(s)' = Backlog(s)
        /\ DrawnOf(s)' = DrawnOf(s)
    BY <1>2, <2>1 DEF DroppedCount, Backlog, DrawnOf, Of
  <2>3. QED
    BY <1>2, <2>2 DEF Accounted
<1>7. QED
  BY <1>5, <1>6

(* A frame that the policy or the scheduler takes moves to the log.        *)
LEMMA TakenAccounted ==
  ASSUME TypeOK, OwnFrames, NEW t \in Task, ShedTask(t) \/ Execute(t),
         NEW s \in Task, Accounted(s)
  PROVE  Accounted(s)'
<1> DEFINE f == Head(queue[t])
           one == IF s = t THEN 1 ELSE 0
<1>1. /\ RemoveOldest(t) /\ queue[t] # <<>> /\ queue \in Queues
      /\ UNCHANGED <<sequence, baseline>>
  BY DEF ShedTask, Shed, Execute, RemoveOldest, TypeOK
<1>2. f \in Frame /\ f.task = t
  BY <1>1, HeadIsFrame, HeadElement DEF OwnFrames, Queues
<1>3. Backlog(s)' = Backlog(s) - one
  <2>1. /\ Backlog(t)' = Backlog(t) - 1 /\ Backlog(s) \in Nat
        /\ \A r \in Task \ {t} : queue'[r] = queue[r]
    BY <1>1, RemoveOldestEffect, BacklogTyped
  <2>2. CASE s = t
    BY <2>1, <2>2
  <2>3. CASE s # t
    BY <2>1, <2>3 DEF Backlog
  <2>4. QED
    BY <2>2, <2>3
<1>4. DrawnOf(s)' = DrawnOf(s)
  BY <1>1 DEF DrawnOf, Of
<1>5. /\ Backlog(s) \in Nat /\ ExecutedCount(records, s) \in Nat
      /\ DroppedCount(s) \in Nat /\ Cardinality(DrawnOf(s)) \in Nat
  BY AccountTyped
<1> HIDE DEF f
<1>6. CASE ShedTask(t)
  <2>1. drops' = Append(drops, f) /\ records' = records
    BY <1>6 DEF ShedTask, f
  <2>2. DroppedCount(s)' = DroppedCount(s) + one
    BY <1>2, <2>1, DropCounts
  <2>3. ExecutedCount(records, s)' = ExecutedCount(records, s)
    BY <2>1 DEF ExecutedCount, Of
  <2>4. QED
    BY <1>3, <1>4, <1>5, <2>2, <2>3 DEF Accounted
<1>7. CASE Execute(t)
  <2>1. records' = Append(records, Execution(f)) /\ drops' = drops
    BY <1>7 DEF Execute, f
  <2>2. ExecutedCount(records, s)' = ExecutedCount(records, s) + one
    BY <1>2, <2>1, RecordCounts DEF ExecutedCount
  <2>3. DroppedCount(s)' = DroppedCount(s)
    BY <2>1 DEF DroppedCount
  <2>4. QED
    BY <1>3, <1>4, <1>5, <2>2, <2>3 DEF Accounted
<1>8. QED
  BY <1>6, <1>7

(* A step that moves no frame leaves the account as it is.                 *)
LEMMA OthersAccounted ==
  ASSUME UNCHANGED <<queue, sequence, baseline, records, drops>>,
         NEW s \in Task, Accounted(s)
  PROVE  Accounted(s)'
BY DEF Accounted, ExecutedCount, DroppedCount, Backlog, DrawnOf, Of

(* The account is kept in every step.                                      *)
LEMMA AccountStep ==
  PositionInv /\ OwnFrames /\ AccountInv /\ [Next]_vars => AccountInv'
<1> SUFFICES ASSUME PositionInv, OwnFrames, AccountInv, [Next]_vars
             PROVE  AccountInv'
  OBVIOUS
<1>1. TypeOK /\ queue \in Queues
  BY DEF PositionInv, TypeOK
<1>2. ASSUME NEW t \in Task, ExecuteBaseline(t) PROVE AccountInv'
  BY <1>2 DEF ExecuteBaseline, AccountInv
<1>3. CASE NextBaselineCycle
  BY <1>3 DEF NextBaselineCycle, AccountInv
<1>4. CASE BeginScheduled
  <2>1. /\ pc' \in {"arrivals", "execute"} /\ sequence' = 0
        /\ UNCHANGED <<queue, baseline, records, drops>>
        /\ records = <<>> /\ drops = <<>> /\ \A t \in Task : queue[t] = <<>>
    BY <1>4 DEF BeginScheduled, AccountInv
  <2>2. ASSUME NEW t \in Task PROVE Accounted(t)'
    <3>1. /\ DOMAIN records' = {} /\ DOMAIN drops' = {}
          /\ Backlog(t)' = 0
      BY <2>1 DEF Backlog
    <3>2. /\ {i \in DOMAIN records' : records'[i].frame.task = t} = {}
          /\ {i \in DOMAIN drops' : drops'[i].task = t} = {}
      BY <3>1
    <3>3. \A i \in DOMAIN baseline' : ~ (i <= sequence')
      BY <1>1, <2>1, BaselineEntries
    <3>4. {i \in {j \in DOMAIN baseline' : baseline'[j].frame.task = t} :
             i <= sequence'} = {}
      BY <3>3
    <3>5. Cardinality({}) = 0
      BY FS_EmptySet
    <3>6. /\ ExecutedCount(records, t)' = 0 /\ DroppedCount(t)' = 0
      BY <3>2, <3>5 DEF ExecutedCount, DroppedCount, Of
    <3>7. Cardinality(DrawnOf(t))' = 0
      BY <3>4, <3>5 DEF DrawnOf, Of
    <3>8. QED
      BY <3>1, <3>6, <3>7 DEF Accounted
  <2>3. QED
    BY <2>1, <2>2 DEF AccountInv
<1>5. ASSUME NEW t \in Task, Enqueue(t) PROVE AccountInv'
  <2>1. pc = "arrivals" /\ pc' = "arrivals"
    BY <1>5 DEF Enqueue
  <2>2. \A s \in Task : Accounted(s)'
    BY <1>5, <2>1, EnqueueAccounted DEF AccountInv
  <2>3. QED
    BY <2>1, <2>2 DEF AccountInv
<1>6. ASSUME NEW t \in Task, ShedTask(t) \/ Execute(t) PROVE AccountInv'
  <2>1. pc \in {"shed", "execute"} /\ pc' = pc
    BY <1>6 DEF ShedTask, Execute
  <2>2. \A s \in Task : Accounted(s)'
    BY <1>1, <1>6, <2>1, TakenAccounted DEF AccountInv
  <2>3. QED
    BY <2>1, <2>2 DEF AccountInv
<1>7. ASSUME NEW t \in Task, PassByTask(t) \/ BeginShedding \/ EndShedding
      PROVE  AccountInv'
  <2>1. /\ pc \notin {"baseline", "done"} /\ pc' \notin {"baseline", "done"}
        /\ UNCHANGED <<queue, sequence, baseline, records, drops>>
    BY <1>7 DEF PassByTask, PassBy, BeginShedding, BeginWalk, EndShedding
  <2>2. QED
    BY <2>1, OthersAccounted DEF AccountInv
<1>8. CASE Finish
  <2>1. /\ pc = "execute" /\ pc' = "done" /\ TotalBacklog = 0
        /\ UNCHANGED <<queue, sequence, baseline, records, drops>>
    BY <1>8 DEF Finish
  <2>2. TotalBacklog' = 0
    BY <2>1, TotalSame DEF Backlog
  <2>3. QED
    BY <2>1, <2>2, OthersAccounted DEF AccountInv
<1>9. CASE UNCHANGED vars
  <2>1. UNCHANGED <<pc, queue, sequence, baseline, records, drops>>
    BY <1>9 DEF vars
  <2>2. TotalBacklog' = TotalBacklog
    BY <2>1, TotalSame DEF Backlog
  <2>3. QED
    BY <2>1, <2>2, OthersAccounted DEF AccountInv
<1>10. QED
  BY <1>2, <1>3, <1>4, <1>5, <1>6, <1>7, <1>8, <1>9, TaskAssumption DEF Next

(* It starts with empty queues and logs,                                   *)
LEMMA SameFramesInvariant == Spec => []SameFramesInv
<1>1. Init => SameFramesInv
  <2> SUFFICES ASSUME Init PROVE SameFramesInv
    OBVIOUS
  <2>1. /\ pc = "baseline" /\ records = <<>> /\ drops = <<>>
        /\ \A t \in Task : queue[t] = <<>>
    BY DEF Init, QueuesInit
  <2>2. \A t \in Task : DOMAIN queue[t] = {}
    BY <2>1
  <2>3. QED
    BY <2>1, <2>2, PositionInit DEF SameFramesInv, OwnFrames, AccountInv
<1>2. SameFramesInv /\ [Next]_vars => SameFramesInv'
  <2>1. PositionInv /\ [Next]_vars => PositionInv'
    BY TypeStep, LoopStep, BaselineStep, PositionStep DEF PositionInv
  <2>2. QED
    BY <2>1, OwnFramesStep, AccountStep DEF SameFramesInv, PositionInv
<1>3. QED
  BY <1>1, <1>2, PTL DEF Spec

(* and at its end, when nothing is queued, the two passes have accounted   *)
(* for the same frames of every task.                                      *)
THEOREM ScenarioSameFrames == Spec => []SameFrames
<1>1. SameFramesInv => SameFrames
  <2> SUFFICES ASSUME SameFramesInv, pc = "done", NEW t \in Task
               PROVE  ExecutedCount(records, t) + DroppedCount(t)
                        = ExecutedCount(baseline, t)
    BY DEF SameFrames
  <2>1. TypeOK /\ queue \in Queues
    BY DEF SameFramesInv, PositionInv, TypeOK
  <2>2. Accounted(t) /\ TotalBacklog = 0
    BY DEF SameFramesInv, AccountInv
  <2>3. Backlog(t) = 0
    BY <2>1, <2>2, TotalIsZero, BacklogTyped DEF NonEmptyTasks
  <2>4. \A i \in DOMAIN baseline : i <= sequence
    BY DEF SameFramesInv, PositionInv, Position, Drawn
  <2>5. DrawnOf(t) = Of(baseline, t)
    BY <2>4 DEF DrawnOf, Of
  <2>6. ExecutedCount(records, t) \in Nat /\ DroppedCount(t) \in Nat
    BY <2>1, AccountTyped
  <2>7. QED
    BY <2>2, <2>3, <2>5, <2>6 DEF Accounted, ExecutedCount
<1>2. QED
  BY SameFramesInvariant, <1>1, PTL

-----------------------------------------------------------------------------
(***************************************************************************)
(* A walk of the policy.                                                   *)
(***************************************************************************)
\* A task the walk has not reached has the depth it had as the walk began;
\* one it has passed has a frame less, or had none.
WalkInv ==
  pc = "shed" =>
    \A s \in Task :
      IF s \in toVisit \cup protected
        THEN Backlog(s) = walkFrom[s]
        ELSE \/ Backlog(s) = 0 /\ walkFrom[s] = 0
             \/ Backlog(s) = walkFrom[s] - 1

(* Every step of the walk takes one frame, or finds none to take.          *)
LEMMA WalkStep == TypeOK /\ WalkInv /\ [Next]_vars => WalkInv'
<1> SUFFICES ASSUME TypeOK, WalkInv, [Next]_vars PROVE WalkInv'
  OBVIOUS
<1>1. \A s \in Task : Backlog(s) \in Nat /\ walkFrom[s] \in Nat
  BY BacklogTyped DEF TypeOK
<1>2. CASE BeginShedding
  <2>1. \A s \in Task : s \in toVisit' /\ Backlog(s)' = walkFrom'[s]
    BY <1>2 DEF BeginShedding, BeginWalk, Backlog, SnapshotBacklog
  <2>2. QED
    BY <2>1 DEF WalkInv
<1>3. ASSUME NEW t \in Task, PassByTask(t) PROVE WalkInv'
  <2>1. /\ pc = "shed" /\ t \in toVisit /\ toVisit' = toVisit \ {t}
        /\ t \in protected \/ queue[t] = <<>>
        /\ UNCHANGED <<pc, queue, protected, walkFrom>>
    BY <1>3 DEF PassByTask, PassBy, NextLowFirst
  <2>2. /\ \A s \in Task : Backlog(s)' = Backlog(s)
        /\ t \in protected \/ Backlog(t) = 0
    BY <2>1, BacklogTyped DEF TypeOK, Backlog
  <2>3. QED
    BY <2>1, <2>2 DEF WalkInv
<1>4. ASSUME NEW t \in Task, ShedTask(t) PROVE WalkInv'
  <2>1. /\ pc = "shed" /\ t \in toVisit /\ toVisit' = toVisit \ {t}
        /\ t \notin protected /\ RemoveOldest(t)
        /\ UNCHANGED <<pc, protected, walkFrom>>
    BY <1>4 DEF ShedTask, Shed, NextLowFirst
  <2>2. /\ Backlog(t)' = Backlog(t) - 1
        /\ \A s \in Task \ {t} : Backlog(s)' = Backlog(s)
    BY <2>1, RemoveOldestEffect DEF TypeOK, Backlog
  <2>3. QED
    BY <2>1, <2>2 DEF WalkInv
<1>5. ASSUME NEW t \in Task, ExecuteBaseline(t) \/ Enqueue(t) \/ Execute(t)
      PROVE  WalkInv'
  BY <1>5 DEF ExecuteBaseline, Enqueue, Execute, WalkInv
<1>6. CASE NextBaselineCycle \/ BeginScheduled \/ EndShedding \/ Finish
  BY <1>6 DEF NextBaselineCycle, BeginScheduled, EndShedding, Finish, WalkInv
<1>7. CASE UNCHANGED vars
  BY <1>7 DEF vars, Backlog, WalkInv
<1>8. QED
  BY <1>2, <1>3, <1>4, <1>5, <1>6, <1>7 DEF Next

(* It takes at most one frame of each task, however far the backlog is     *)
(* over the threshold, and ends above it only when every task but the      *)
(* protected one has given the frame it had.                               *)
THEOREM ScenarioWalkTakesOneOfEach == Spec => WalkTakesOneOfEach
<1> DEFINE TakesOne ==
      pc = "shed" =>
        /\ \A t \in Task : Len(queue'[t]) >= walkFrom[t] - 1
        /\ pc' # "shed" =>
             \/ TotalBacklog <= config.threshold
             \/ \A t \in Task \ protected :
                  walkFrom[t] = 0 \/ Backlog(t) = walkFrom[t] - 1
<1>1. ASSUME TypeOK, WalkInv, [Next]_vars PROVE TakesOne
  <2> SUFFICES ASSUME pc = "shed" PROVE TakesOne
    OBVIOUS
  <2>1. \A s \in Task : Backlog(s) \in Nat /\ walkFrom[s] \in Nat
    BY <1>1, BacklogTyped DEF TypeOK
  <2>2. TotalBacklog \in Nat /\ config.threshold \in Nat
    BY <1>1, SlotsFinite, ConfigTyped DEF TypeOK
  <2>3. \A s \in Task : Backlog(s) >= walkFrom[s] - 1
    BY <1>1, <2>1 DEF WalkInv
  <2>4. ASSUME NEW t \in Task, ShedTask(t) PROVE TakesOne
    <3>1. /\ Backlog(t)' = Backlog(t) - 1 /\ Backlog(t) = walkFrom[t]
          /\ \A s \in Task \ {t} : queue'[s] = queue[s]
          /\ pc' = "shed"
      BY <1>1, <2>4, RemoveOldestEffect
         DEF TypeOK, ShedTask, Shed, NextLowFirst, WalkInv
    <3>2. \A s \in Task : Backlog(s)' >= walkFrom[s] - 1
      BY <2>1, <2>3, <3>1 DEF Backlog
    <3>3. QED
      BY <3>1, <3>2 DEF Backlog
  <2>5. CASE EndShedding
    <3>1. WalkEnded /\ queue' = queue
      BY <2>5 DEF EndShedding
    <3>2. TotalBacklog <= config.threshold \/ toVisit = {}
      BY <2>2, <3>1 DEF WalkEnded, OverThreshold
    <3>3. toVisit = {} => \A t \in Task \ protected :
                            walkFrom[t] = 0 \/ Backlog(t) = walkFrom[t] - 1
      BY <1>1 DEF WalkInv
    <3>4. QED
      BY <2>3, <3>1, <3>2, <3>3 DEF Backlog
  <2>6. ASSUME queue' = queue, pc' = "shed" PROVE TakesOne
    BY <2>3, <2>6 DEF Backlog
  <2>7. (\E t \in Task : PassByTask(t)) \/ UNCHANGED vars
          => queue' = queue /\ pc' = "shed"
    BY DEF PassByTask, PassBy, vars
  <2>8. \/ \E t \in Task : PassByTask(t) \/ ShedTask(t)
        \/ EndShedding \/ UNCHANGED vars
    BY <1>1 DEF Next, ExecuteBaseline, NextBaselineCycle, BeginScheduled,
                Enqueue, BeginShedding, Execute, Finish
  <2>9. QED
    BY <2>4, <2>5, <2>6, <2>7, <2>8
<1>2. TypeOK /\ WalkInv /\ [Next]_vars => [TakesOne]_vars
  BY <1>1
<1>3. Init => TypeOK /\ WalkInv
  BY TypeInit DEF Init, WalkInv
<1>4. TypeOK /\ WalkInv /\ [Next]_vars => TypeOK' /\ WalkInv'
  BY TypeStep, WalkStep
<1>5. QED
  BY <1>2, <1>3, <1>4, PTL DEF Spec, WalkTakesOneOfEach

-----------------------------------------------------------------------------
(***************************************************************************)
(* Cycles in which a task emits.                                           *)
(***************************************************************************)
(* emit_every_n_cycles divides the cycles a task emits in.                 *)
LEMMA MultipleExists ==
  ASSUME NEW a \in Nat, NEW e \in Nat, e >= 1, a % e = 0
  PROVE  \E q \in Nat : a = e * q
<1>1. a = e * (a \div e) /\ a \div e \in Nat
  OBVIOUS
<1>2. QED
  BY <1>1

(* A multiple leaves no remainder.                                         *)
LEMMA MultipleDivides ==
  ASSUME NEW q \in Nat, NEW e \in Nat, e >= 1
  PROVE  (e * q) % e = 0
OBVIOUS

(* Two cycles a task emits in are e apart at least, and it emits in the    *)
(* cycle e after the first.                                                *)
LEMMA EmissionsApart ==
  ASSUME NEW a \in Nat, NEW b \in Nat, NEW e \in Nat, e >= 1,
         a % e = 0, b % e = 0, a < b
  PROVE  a + e <= b /\ (a + e) % e = 0
<1>1. PICK p \in Nat : a = e * p
  BY MultipleExists
<1>2. PICK q \in Nat : b = e * q
  BY MultipleExists
<1>3. p < q
  <2>1. ASSUME q <= p PROVE FALSE
    <3>1. PICK d \in Nat : p = q + d
      BY <2>1
    <3>2. e * d \in Nat /\ a = e * q + e * d
      BY <1>1, <3>1
    <3>3. QED
      BY <1>2, <3>2
  <2>2. QED
    BY <2>1
<1>4. PICK d \in Nat : q = p + 1 + d
  BY <1>3
<1>5. e * d \in Nat /\ b = a + e + e * d
  BY <1>1, <1>2, <1>4
<1>6. a + e = e * (p + 1)
  BY <1>1
<1>7. (e * (p + 1)) % e = 0
  <2>1. p + 1 \in Nat
    OBVIOUS
  <2>2. QED
    BY <2>1, MultipleDivides
<1>8. (a + e) % e = 0
  BY <1>6, <1>7, Zenon
<1>9. a + e <= b
  BY <1>5
<1>10. QED
  BY <1>8, <1>9

-----------------------------------------------------------------------------
(***************************************************************************)
(* The baseline executes one frame after the other.                        *)
(***************************************************************************)
\* The time at which the execution of the frame at place i ends.
Ended(i) == baseline[i].latency + CreatedAt(baseline[i].frame)

Paced ==
  /\ \A i \in DOMAIN baseline :
       /\ baseline[i].latency >= config.latency[baseline[i].frame.task]
       /\ pc = "baseline" => Ended(i) <= availableAt
  /\ \A i, j \in DOMAIN baseline :
       i < j => Ended(i) + config.latency[baseline[j].frame.task] <= Ended(j)

(* Each execution of the baseline begins after the one before it.          *)
LEMMA PacedStep ==
  TypeOK /\ Paced /\ [Next]_vars => Paced'
<1> SUFFICES ASSUME TypeOK, Paced, [Next]_vars PROVE Paced'
  OBVIOUS
<1>1. /\ ValidConfig(config) /\ availableAt \in Nat
      /\ config.latency \in [Task -> Nat]
  BY ScenarioConfigTyped DEF TypeOK
<1>2. \A i \in DOMAIN baseline :
        /\ i \in Nat /\ Ended(i) \in Nat
        /\ baseline[i].frame.task \in Task /\ baseline[i].latency \in Nat
  BY <1>1, BaselineEntries, FinishedTyped DEF Ended
<1>3. ASSUME UNCHANGED <<config, baseline>>,
             pc' = "baseline" => pc = "baseline" /\ availableAt' = availableAt
      PROVE  Paced'
  BY <1>3 DEF Paced, Ended, CreatedAt
<1>4. ASSUME NEW t \in Task, ExecuteBaseline(t), BaselineExecutes(t)
      PROVE  Paced'
  <2>1. PICK n \in Nat : n = Len(baseline) + 1
    BY BaselineEntries
  <2>2. PICK f \in Frame : f = NewFrame(t) /\ f.task = t
    BY NewFrameTyped DEF TypeOK
  <2>3. /\ \A i \in DOMAIN baseline : i \in DOMAIN baseline' /\ i < n
        /\ \A i \in DOMAIN baseline : baseline'[i] = baseline[i]
        /\ n \in DOMAIN baseline'
        /\ \A i \in DOMAIN baseline' : i \in DOMAIN baseline \/ i = n
        /\ baseline'[n].frame = f
        /\ baseline'[n].latency = FinishedAt(f) - CreatedAt(f)
    BY <1>4, <2>1, <2>2, BaselineGrows
  <2>4. /\ pc = "baseline" /\ pc' = "baseline" /\ config' = config
        /\ availableAt' = FinishedAt(f)
    BY <1>4, <2>2 DEF ExecuteBaseline, BaselineExecutes
  <2>5. /\ CreatedAt(f) \in Nat /\ FinishedAt(f) \in Nat
        /\ FinishedAt(f) >= CreatedAt(f) + config.latency[t]
        /\ FinishedAt(f) >= availableAt + config.latency[t]
        /\ config.latency[t] \in Nat
    BY <1>1, <2>2, FinishedTyped
  <2>6. CreatedAt(f)' = CreatedAt(f)
    BY <2>4 DEF CreatedAt
  <2>7. Ended(n)' = FinishedAt(f)
    BY <2>3, <2>5, <2>6 DEF Ended, CreatedAt
  <2>8. \A i \in DOMAIN baseline : Ended(i)' = Ended(i)
    BY <2>3, <2>4 DEF Ended, CreatedAt
  <2>9. \A i \in DOMAIN baseline :
          /\ Ended(i) <= availableAt
          /\ baseline[i].latency >= config.latency[baseline[i].frame.task]
    BY <2>4 DEF Paced
  <2>10. \A i, j \in DOMAIN baseline' :
           i < j =>
             Ended(i)' + config.latency[baseline'[j].frame.task] <= Ended(j)'
    <3> SUFFICES ASSUME NEW i \in DOMAIN baseline', NEW j \in DOMAIN baseline',
                        i < j
                 PROVE  Ended(i)' + config.latency[baseline'[j].frame.task]
                          <= Ended(j)'
      OBVIOUS
    <3>1. i \in DOMAIN baseline
      BY <1>2, <2>3
    <3>2. CASE j = n
      <4>1. /\ baseline'[j].frame.task = t /\ Ended(j)' = FinishedAt(f)
            /\ Ended(i)' = Ended(i)
        BY <2>2, <2>3, <2>7, <2>8, <3>1, <3>2
      <4>2. Ended(i) \in Nat /\ Ended(i) <= availableAt
        BY <1>2, <2>9, <3>1
      <4>3. QED
        BY <1>1, <2>5, <4>1, <4>2
    <3>3. CASE j # n
      <4>1. j \in DOMAIN baseline
        BY <2>3, <3>3
      <4>2. Ended(i) + config.latency[baseline[j].frame.task] <= Ended(j)
        BY <3>1, <4>1 DEF Paced
      <4>3. QED
        BY <2>3, <2>8, <3>1, <4>1, <4>2
    <3>4. QED
      BY <3>2, <3>3
  <2>11. \A i \in DOMAIN baseline' :
           /\ baseline'[i].latency >= config.latency[baseline'[i].frame.task]
           /\ Ended(i)' <= availableAt'
    <3> SUFFICES ASSUME NEW i \in DOMAIN baseline'
                 PROVE  /\ baseline'[i].latency
                             >= config.latency[baseline'[i].frame.task]
                        /\ Ended(i)' <= availableAt'
      OBVIOUS
    <3>1. CASE i = n
      BY <2>2, <2>3, <2>4, <2>5, <2>7, <3>1
    <3>2. CASE i # n
      <4>1. i \in DOMAIN baseline
        BY <2>3, <3>2
      <4>2. QED
        BY <1>1, <1>2, <2>3, <2>4, <2>5, <2>8, <2>9, <4>1
    <3>3. QED
      BY <3>1, <3>2
  <2>12. QED
    BY <2>4, <2>10, <2>11 DEF Paced
<1>5. ASSUME NEW t \in Task, ExecuteBaseline(t) PROVE Paced'
  <2>1. CASE Emits(t, cycle)
    BY <1>4, <1>5, <2>1 DEF ExecuteBaseline, BaselineExecutes
  <2>2. CASE ~ Emits(t, cycle)
    BY <1>3, <1>5, <2>2 DEF ExecuteBaseline
  <2>3. QED
    BY <2>1, <2>2
<1>6. CASE NextBaselineCycle \/ BeginScheduled
  BY <1>3, <1>6 DEF NextBaselineCycle, BeginScheduled
<1>7. ASSUME NEW t \in Task,
             \/ Enqueue(t) \/ PassByTask(t) \/ ShedTask(t) \/ Execute(t)
             \/ BeginShedding \/ EndShedding \/ Finish
      PROVE  Paced'
  BY <1>3, <1>7 DEF Enqueue, PassByTask, ShedTask, Execute, BeginShedding,
                    EndShedding, Finish
<1>8. CASE UNCHANGED vars
  BY <1>3, <1>8 DEF vars
<1>9. QED
  BY <1>5, <1>6, <1>7, <1>8, TaskAssumption DEF Next

\* The frames of h that the baseline executes next to each other.
Successive(h, m, n) ==
  /\ m \in Of(baseline, h) /\ n \in Of(baseline, h) /\ m < n
  /\ \A i \in Of(baseline, h) : ~ (m < i /\ i < n)

(* Two such frames arrive emit_every_n_cycles apart.                       *)
LEMMA SuccessiveApart ==
  ASSUME PositionInv, pc # "baseline", NEW h \in Task, NEW m, NEW n,
         Successive(h, m, n)
  PROVE  baseline[n].frame.cycle
           = baseline[m].frame.cycle + config.emitEvery[h]
<1>1. /\ TypeOK /\ BaselineInOrder /\ BaselineComplete
      /\ config.order \in [Task -> Nat] /\ config.frames \in Nat
      /\ config.emitEvery[h] \in Nat /\ config.emitEvery[h] >= 1
  BY ScenarioConfigTyped DEF PositionInv, TypeOK, PositiveNat
<1>2. PICK e \in Nat : e = config.emitEvery[h] /\ e >= 1
  BY <1>1
<1>3. /\ m \in DOMAIN baseline /\ baseline[m].frame.task = h
      /\ n \in DOMAIN baseline /\ baseline[n].frame.task = h
      /\ m < n /\ m \in Nat /\ n \in Nat
      /\ baseline[m].frame.cycle \in Nat /\ baseline[n].frame.cycle \in Nat
  BY <1>1, BaselineEntries DEF Successive, Of
<1>4. PICK a \in Nat : a = baseline[m].frame.cycle
  BY <1>3
<1>5. PICK b \in Nat : b = baseline[n].frame.cycle
  BY <1>3
<1>6. a < b
  BY <1>1, <1>3, <1>4, <1>5 DEF BaselineInOrder, Earlier
<1>7. a % e = 0 /\ b % e = 0 /\ b < config.frames
  BY <1>2, <1>3, <1>4, <1>5, <1>1 DEF BaselineInOrder, Listed, Emits
<1>8. PICK c \in Nat : c = a + e
  OBVIOUS
<1>9. c <= b /\ c % e = 0
  BY <1>2, <1>6, <1>7, <1>8, EmissionsApart
<1>10. ASSUME c < b PROVE FALSE
  <2>1. PICK i \in DOMAIN baseline :
          baseline[i].frame.task = h /\ baseline[i].frame.cycle = c
    <3>1. c < config.frames /\ Emits(h, c)
      BY <1>1, <1>2, <1>7, <1>9, <1>10 DEF Emits
    <3>2. QED
      BY <1>1, <3>1 DEF BaselineComplete
  <2>2. i \in Nat /\ a < c
    BY <1>1, <1>2, <1>8, BaselineEntries
  <2>3. m < i
    <3>1. i # m
      BY <1>4, <2>1, <2>2
    <3>2. ~ Earlier(baseline[i].frame, baseline[m].frame)
      BY <1>1, <1>3, <1>4, <2>1, <2>2 DEF Earlier
    <3>3. QED
      BY <1>1, <1>3, <2>2, <3>1, <3>2 DEF BaselineInOrder
  <2>4. i < n
    <3>1. i # n
      BY <1>5, <1>10, <2>1
    <3>2. ~ Earlier(baseline[n].frame, baseline[i].frame)
      BY <1>1, <1>3, <1>5, <1>10, <2>1 DEF Earlier
    <3>3. QED
      BY <1>1, <1>3, <2>2, <3>1, <3>2 DEF BaselineInOrder
  <2>5. QED
    BY <2>1, <2>3, <2>4 DEF Successive, Of
<1>11. QED
  BY <1>2, <1>4, <1>5, <1>8, <1>9, <1>10

-----------------------------------------------------------------------------
(***************************************************************************)
(* The place of a frame among those of its task.                           *)
(***************************************************************************)
Rank(h, n) == Cardinality({i \in Of(baseline, h) : i <= n})

(* The frames of a task are finitely many.                                 *)
LEMMA RankTyped ==
  ASSUME TypeOK, NEW h, NEW n
  PROVE  /\ IsFiniteSet({i \in Of(baseline, h) : i <= n})
         /\ Rank(h, n) \in Nat
<1>1. /\ Len(baseline) \in Nat
      /\ {i \in Of(baseline, h) : i <= n} \in SUBSET (1 .. Len(baseline))
  BY BaselineEntries DEF Of
<1>2. IsFiniteSet(1 .. Len(baseline))
  BY <1>1, FS_Interval
<1>3. IsFiniteSet({i \in Of(baseline, h) : i <= n})
  BY <1>1, <1>2, FS_Subset
<1>4. QED
  BY <1>3, FS_CardinalityType DEF Rank

(* The rank of a frame is 1 at least.                                      *)
LEMMA RankPositive ==
  ASSUME TypeOK, NEW h, NEW n \in Of(baseline, h)
  PROVE  Rank(h, n) >= 1
<1> DEFINE S == {i \in Of(baseline, h) : i <= n}
<1>1. IsFiniteSet(S) /\ Rank(h, n) \in Nat
  BY RankTyped
<1>2. n \in S
  BY BaselineEntries DEF Of
<1>3. Cardinality(S) = Rank(h, n)
  BY DEF Rank
<1> HIDE DEF S
<1>4. Cardinality(S) # 0
  BY <1>1, <1>2, FS_EmptySet
<1>5. QED
  BY <1>1, <1>3, <1>4

(* The next frame of a task has the next rank.                             *)
LEMMA RankSuccessive ==
  ASSUME TypeOK, NEW h, NEW m, NEW n, Successive(h, m, n)
  PROVE  Rank(h, n) = Rank(h, m) + 1
<1> DEFINE A == {i \in Of(baseline, h) : i <= m}
           B == {i \in Of(baseline, h) : i <= n}
<1>1. m \in Nat /\ n \in Nat /\ m < n /\ n \in Of(baseline, h)
  BY BaselineEntries DEF Successive, Of
<1>2. \A i \in Of(baseline, h) : i \in Nat
  BY BaselineEntries DEF Of
<1>3. n \notin A /\ B = A \cup {n}
  <2>1. n \notin A /\ n \in B
    BY <1>1
  <2>2. ASSUME NEW i \in B, i # n PROVE i \in A
    BY <1>1, <1>2, <2>2 DEF Successive
  <2>3. ASSUME NEW i \in A PROVE i \in B
    BY <1>1, <1>2
  <2> HIDE DEF A, B
  <2>4. QED
    BY <2>1, <2>2, <2>3
<1>4. IsFiniteSet(A) /\ Cardinality(A) = Rank(h, m)
      /\ Cardinality(B) = Rank(h, n)
  BY RankTyped DEF Rank
<1> HIDE DEF A, B
<1>5. QED
  BY <1>3, <1>4, FS_AddElement

(* A frame that is not the first of its task has one before it.            *)
LEMMA PredecessorExists ==
  ASSUME TypeOK, NEW h, NEW n \in Of(baseline, h), Rank(h, n) >= 2
  PROVE  \E m : Successive(h, m, n)
<1> DEFINE S == {d \in Nat : d >= 1 /\ n - d \in Of(baseline, h)}
<1>1. n \in Nat /\ \A i \in Of(baseline, h) : i \in Nat
  BY BaselineEntries DEF Of
<1>2. S # {}
  <2>1. PICK i \in Of(baseline, h) : i <= n /\ i # n
    <3>1. ASSUME \A i \in Of(baseline, h) : i <= n => i = n PROVE FALSE
      <4>1. {i \in Of(baseline, h) : i <= n} = {n}
        <5>1. n \in {i \in Of(baseline, h) : i <= n}
          BY <1>1
        <5>2. \A i \in {j \in Of(baseline, h) : j <= n} : i = n
          BY <3>1
        <5>3. QED
          BY <5>1, <5>2
      <4>2. Rank(h, n) = Cardinality({n})
        BY <4>1 DEF Rank
      <4>3. Cardinality({n}) = 1
        BY FS_Singleton
      <4>4. QED
        BY <4>2, <4>3
    <3>2. QED
      BY <3>1
  <2>2. n - i \in Nat /\ n - i >= 1 /\ n - (n - i) = i
    BY <1>1, <2>1
  <2>3. QED
    BY <2>1, <2>2
<1>3. S \in SUBSET Nat
  OBVIOUS
<1>4. PICK d \in S : \A e \in S : d <= e
  <2> HIDE DEF S
  <2>1. QED
    BY <1>2, <1>3, LeastNumber
<1>5. d \in Nat /\ d >= 1 /\ n - d \in Of(baseline, h)
  OBVIOUS
<1>6. ASSUME NEW i \in Of(baseline, h), n - d < i, i < n PROVE FALSE
  <2>1. i \in Nat /\ n - i \in Nat /\ n - i >= 1 /\ n - (n - i) = i
    BY <1>1, <1>6
  <2>2. n - i \in S
    BY <1>6, <2>1
  <2>3. d <= n - i
    BY <1>4, <2>2
  <2>4. QED
    BY <1>1, <1>5, <1>6, <2>1, <2>3
<1>7. Successive(h, n - d, n)
  BY <1>1, <1>5, <1>6 DEF Successive
<1>8. QED
  BY <1>7

-----------------------------------------------------------------------------
(***************************************************************************)
(* The frames of the second pass are those of the baseline.                *)
(***************************************************************************)
InBaseline(f) ==
  f.sequence \in DOMAIN baseline /\ baseline[f.sequence].frame = f

ListedInv ==
  /\ \A t \in Task : \A i \in DOMAIN queue[t] :
       InBaseline(queue[t][i]) /\ queue[t][i].sequence <= sequence
  /\ \A i \in DOMAIN records : InBaseline(records[i].frame)

(* The baseline is complete before a frame is queued.                      *)
LEMMA BaselineKept ==
  ASSUME [Next]_vars, pc # "baseline"
  PROVE  baseline' = baseline /\ config' = config
BY DEF Next, ExecuteBaseline, NextBaselineCycle, BeginScheduled, Enqueue,
       BeginShedding, PassByTask, ShedTask, EndShedding, Execute, Finish, vars

(* A frame that is queued is at its place in the baseline,                 *)
LEMMA QueuedListedStep ==
  ASSUME SameFramesInv, ListedInv, [Next]_vars, pc # "baseline",
         NEW t \in Task, NEW i \in DOMAIN queue'[t]
  PROVE  InBaseline(queue[t][i])' /\ queue'[t][i].sequence <= sequence'
<1>1. /\ PositionInv /\ TypeOK /\ sequence \in Nat /\ cycle \in Nat
      /\ baseline' = baseline
  BY BaselineKept DEF SameFramesInv, PositionInv, TypeOK
<1>2. ASSUME NEW j \in DOMAIN queue[t], queue'[t][i] = queue[t][j]
      PROVE  InBaseline(queue[t][i])' /\ queue'[t][i].sequence <= sequence'
  <2>1. sequence' \in Nat /\ sequence' >= sequence
    BY <1>1 DEF Next, ExecuteBaseline, NextBaselineCycle, BeginScheduled,
                Enqueue, BeginShedding, PassByTask, ShedTask, EndShedding,
                Execute, Finish, vars
  <2>2. /\ InBaseline(queue[t][j]) /\ queue[t][j].sequence <= sequence
    BY DEF ListedInv
  <2>3. queue[t][j].sequence \in Nat
    BY <1>1, <2>2, BaselineEntries DEF InBaseline
  <2>4. QED
    BY <1>1, <1>2, <2>1, <2>2, <2>3 DEF InBaseline
<1>3. CASE PutsIn(t) /\ queue'[t][i] = NewFrame(t)
  <2>1. DrawsSame(t) /\ sequence' = sequence + 1
    BY <1>1, <1>3, EnqueueDrawsSame DEF PutsIn
  <2>2. NewFrame(t).sequence = sequence + 1
    BY <1>1, NewFrameTyped
  <2>3. QED
    BY <1>1, <1>3, <2>1, <2>2 DEF DrawsSame, InBaseline
<1>4. QED
  BY <1>1, <1>2, <1>3, QueuedBefore

(* and so is one that is executed.                                         *)
LEMMA ListedStep ==
  SameFramesInv /\ ListedInv /\ [Next]_vars => ListedInv'
<1> SUFFICES ASSUME SameFramesInv, ListedInv, [Next]_vars PROVE ListedInv'
  OBVIOUS
<1>1. TypeOK /\ records \in Seq(Record) /\ ValidConfig(config)
      /\ availableAt \in Nat /\ queue \in Queues
  BY DEF SameFramesInv, PositionInv, TypeOK
<1>2. CASE pc = "baseline"
  <2>1. records = <<>> /\ \A t \in Task : queue[t] = <<>>
    BY <1>2 DEF SameFramesInv, AccountInv
  <2>2. queue' = queue /\ records' = records
    BY <1>2 DEF Next, ExecuteBaseline, NextBaselineCycle, BeginScheduled,
                Enqueue, BeginShedding, PassByTask, ShedTask, EndShedding,
                Execute, Finish, vars
  <2>3. DOMAIN records' = {} /\ \A t \in Task : DOMAIN queue'[t] = {}
    BY <2>1, <2>2
  <2>4. QED
    BY <2>3 DEF ListedInv
<1>3. CASE pc # "baseline"
  <2>1. baseline' = baseline
    BY <1>3, BaselineKept
  <2>2. ASSUME NEW i \in DOMAIN records' PROVE InBaseline(records[i].frame)'
    <3>1. ASSUME NEW t \in Task, Execute(t) PROVE InBaseline(records[i].frame)'
      <4>1. /\ records' = Append(records, Execution(Head(queue[t])))
            /\ queue[t] # <<>>
        BY <3>1 DEF Execute, RemoveOldest
      <4>2. /\ Head(queue[t]) \in Frame /\ InBaseline(Head(queue[t]))
        BY <1>1, <4>1, HeadIsFrame, HeadElement DEF ListedInv, Queues
      <4>3. /\ Execution(Head(queue[t])) \in Record
            /\ Execution(Head(queue[t])).frame = Head(queue[t])
        BY <1>1, <4>2, FinishedTyped
      <4>4. \/ records'[i] = Execution(Head(queue[t]))
            \/ i \in DOMAIN records /\ records'[i] = records[i]
        BY <1>1, <2>2, <4>1, <4>3, AppendElements
      <4>5. QED
        BY <2>1, <4>2, <4>3, <4>4 DEF ListedInv, InBaseline
    <3>2. CASE records' = records
      BY <2>1, <2>2, <3>2 DEF ListedInv, InBaseline
    <3>3. (\E t \in Task : Execute(t)) \/ records' = records
      BY DEF Next, ExecuteBaseline, NextBaselineCycle, BeginScheduled,
             Enqueue, BeginShedding, PassByTask, ShedTask, EndShedding,
             Finish, vars
    <3>4. QED
      BY <3>1, <3>2, <3>3
  <2>3. QED
    BY <1>3, <2>2, QueuedListedStep DEF ListedInv
<1>4. QED
  BY <1>2, <1>3

-----------------------------------------------------------------------------
(***************************************************************************)
(* The queue of a task that is alone at the highest priority.              *)
(***************************************************************************)
\* No frame of h has been drawn since the last one that is queued.
NothingSince(h) ==
  \A i \in DrawnOf(h) : i <= queue[h][Len(queue[h])].sequence

\* The frames in the queue of h follow each other in the baseline.  A full
\* queue that rejects new frames stays as it is until the arrivals end.
Gapless(h) ==
  /\ \A a, b \in DOMAIN queue[h] :
       b = a + 1
         => Successive(h, queue[h][a].sequence, queue[h][b].sequence)
  /\ (/\ pc \in {"arrivals", "shed"} /\ queue[h] # <<>>
      /\ HasRoom(h) \/ config.dropPolicy[h] = "drop_oldest")
       => NothingSince(h)

\* The policy takes no frame of h.
SparesAlone(h) ==
  (pc = "shed" /\ OverThreshold /\ queue[h] # <<>>) => h \in protected

(* The walk protects the task with the most urgent backlog.                *)
LEMMA SparesAloneStep ==
  ASSUME TypeOK, [Next]_vars, NEW h \in Task, Alone(h), SparesAlone(h)
  PROVE  SparesAlone(h)'
<1>1. /\ queue \in Queues /\ ValidConfig(config) /\ protected \subseteq Task
      /\ config.priority \in [Task -> Nat]
  BY ScenarioConfigTyped DEF TypeOK
<1>2. CASE BeginShedding
  <2>1. /\ config' = config /\ queue' = queue
        /\ protected' = IF OverThreshold THEN HighestBacklogged ELSE {}
    BY <1>2 DEF BeginShedding, BeginWalk
  <2>2. TotalBacklog' = TotalBacklog
    BY <2>1, TotalSame DEF Backlog
  <2>3. OverThreshold' <=> OverThreshold
    BY <2>1, <2>2 DEF OverThreshold
  <2>4. queue[h] # <<>> => h \in HighestBacklogged
    BY <1>1 DEF HighestBacklogged, NonEmptyTasks, HighFirst, Alone
  <2>5. QED
    BY <2>1, <2>3, <2>4 DEF SparesAlone
<1>3. ASSUME NEW t \in Task, ShedTask(t) PROVE SparesAlone(h)'
  <2>1. /\ RemoveOldest(t) /\ pc = "shed" /\ OverThreshold
        /\ UNCHANGED <<config, protected>>
    BY <1>3 DEF ShedTask, Shed
  <2>2. queue'[h] # <<>> => queue[h] # <<>>
    <3>1. CASE t = h
      BY <2>1, <3>1 DEF RemoveOldest
    <3>2. CASE t # h
      BY <1>1, <2>1, <3>2, RemoveOldestEffect
    <3>3. QED
      BY <3>1, <3>2
  <2>3. QED
    BY <2>1, <2>2 DEF SparesAlone
<1>4. ASSUME NEW t \in Task, PassByTask(t) PROVE SparesAlone(h)'
  <2>1. UNCHANGED <<config, queue, protected, pc>>
    BY <1>4 DEF PassByTask, PassBy
  <2>2. TotalBacklog' = TotalBacklog
    BY <2>1, TotalSame DEF Backlog
  <2>3. QED
    BY <2>1, <2>2 DEF SparesAlone, OverThreshold
<1>5. CASE UNCHANGED vars
  <2>1. UNCHANGED <<config, queue, protected, pc>>
    BY <1>5 DEF vars
  <2>2. TotalBacklog' = TotalBacklog
    BY <2>1, TotalSame DEF Backlog
  <2>3. QED
    BY <2>1, <2>2 DEF SparesAlone, OverThreshold
<1>6. ASSUME NEW t \in Task, ExecuteBaseline(t) \/ Enqueue(t) \/ Execute(t)
      PROVE  SparesAlone(h)'
  BY <1>6 DEF ExecuteBaseline, Enqueue, Execute, SparesAlone
<1>7. CASE NextBaselineCycle \/ BeginScheduled \/ EndShedding \/ Finish
  BY <1>7 DEF NextBaselineCycle, BeginScheduled, EndShedding, Finish,
              SparesAlone
<1>8. QED
  BY <1>2, <1>3, <1>4, <1>5, <1>6, <1>7 DEF Next

(* A queue stays without gaps when nothing is put in or drawn,             *)
LEMMA GaplessSame ==
  ASSUME NEW h, Gapless(h), UNCHANGED <<config, baseline>>,
         queue'[h] = queue[h], DrawnOf(h)' = DrawnOf(h),
         pc' \in {"arrivals", "shed"} => pc \in {"arrivals", "shed"}
  PROVE  Gapless(h)'
<1>1. Of(baseline, h)' = Of(baseline, h)
  BY DEF Of
<1>2. \A m, n : Successive(h, m, n)' <=> Successive(h, m, n)
  BY DEF Successive, Of
<1>3. NothingSince(h)' <=> NothingSince(h)
  BY DEF NothingSince
<1>4. HasRoom(h)' <=> HasRoom(h)
  BY DEF HasRoom, Backlog
<1>5. QED
  BY <1>2, <1>3, <1>4 DEF Gapless

(* or when its oldest frame is taken.                                      *)
LEMMA GaplessTail ==
  ASSUME TypeOK, NEW h \in Task, Gapless(h), queue[h] # <<>>,
         NEW a \in DOMAIN Tail(queue[h]), NEW b \in DOMAIN Tail(queue[h]),
         b = a + 1
  PROVE  Successive(h, Tail(queue[h])[a].sequence, Tail(queue[h])[b].sequence)
<1>1. queue[h] \in Seq(Frame) /\ Tail(queue[h]) \in Seq(Frame)
  BY HeadIsFrame DEF TypeOK, Queues
<1>2. /\ a + 1 \in DOMAIN queue[h] /\ Tail(queue[h])[a] = queue[h][a + 1]
      /\ b + 1 \in DOMAIN queue[h] /\ Tail(queue[h])[b] = queue[h][b + 1]
  BY <1>1, TailElements
<1>3. b + 1 = (a + 1) + 1
  OBVIOUS
<1>4. QED
  BY <1>2, <1>3 DEF Gapless

(* A new frame follows the last one that is queued.                        *)
LEMMA NewIsSuccessive ==
  ASSUME SameFramesInv, ListedInv, NEW h \in Task, Enqueue(h),
         Emits(h, cycle), queue[h] # <<>>, NothingSince(h)
  PROVE  Successive(h, queue[h][Len(queue[h])].sequence, sequence + 1)
<1> DEFINE l == Len(queue[h])
           m == queue[h][l].sequence
<1>1. PositionInv /\ TypeOK /\ queue[h] \in Seq(Frame) /\ sequence \in Nat
  BY DEF SameFramesInv, PositionInv, TypeOK, Queues
<1>2. l \in DOMAIN queue[h]
  BY <1>1
<1>3. InBaseline(queue[h][l]) /\ m <= sequence /\ queue[h][l].task = h
  BY <1>2 DEF ListedInv, SameFramesInv, OwnFrames
<1>4. m \in Of(baseline, h) /\ m \in Nat
  BY <1>1, <1>3, BaselineEntries DEF InBaseline, Of
<1>5. sequence + 1 \in Of(baseline, h)
  BY <1>1, EnqueueDrawsSame, NewFrameTyped DEF DrawsSame, Of, TypeOK
<1>6. ASSUME NEW i \in Of(baseline, h), m < i, i < sequence + 1 PROVE FALSE
  <2>1. i \in Nat
    BY <1>1, BaselineEntries DEF Of
  <2>2. i \in DrawnOf(h)
    BY <1>1, <1>6, <2>1 DEF DrawnOf
  <2>3. QED
    BY <1>4, <1>6, <2>1, <2>2 DEF NothingSince
<1> HIDE DEF m
<1>7. QED
  BY <1>1, <1>3, <1>4, <1>5, <1>6 DEF Successive, m

(* An arrival of h is accepted, evicts the oldest frame, or is rejected.   *)
LEMMA GaplessAppend ==
  ASSUME TypeOK, NEW h \in Task, NEW q \in Seq(Frame), NEW f \in Frame,
         f.sequence = sequence + 1,
         queue' = [queue EXCEPT ![h] = Append(q, f)],
         UNCHANGED <<config, baseline>>, sequence' = sequence + 1,
         \A a, b \in DOMAIN q :
           b = a + 1 => Successive(h, q[a].sequence, q[b].sequence),
         q # <<>> => Successive(h, q[Len(q)].sequence, sequence + 1)
  PROVE  Gapless(h)'
<1>1. queue \in [Task -> Seq(Frame)] /\ sequence \in Nat
  BY DEF TypeOK, Queues
<1>2. queue'[h] = Append(q, f)
  BY <1>1
<1>3. PICK n \in Nat : n = Len(q)
  BY LenProperties
<1>4. /\ DOMAIN q = 1 .. n
      /\ DOMAIN queue'[h] = 1 .. n + 1 /\ Len(queue'[h]) = n + 1
      /\ \A i \in 1 .. n : queue'[h][i] = q[i]
      /\ queue'[h][n + 1] = f
  BY <1>2, <1>3, AppendProperties, LenProperties
<1>5. \A k, m : Successive(h, k, m)' <=> Successive(h, k, m)
  BY DEF Successive, Of
<1>6. ASSUME NEW a \in DOMAIN queue'[h], NEW b \in DOMAIN queue'[h],
             b = a + 1
      PROVE  Successive(h, queue'[h][a].sequence, queue'[h][b].sequence)
  <2>1. a \in 1 .. n
    BY <1>3, <1>4, <1>6
  <2>2. CASE b = n + 1
    <3>1. a = n /\ q # <<>>
      BY <1>3, <1>4, <1>6, <2>1, <2>2
    <3>2. queue'[h][a] = q[n] /\ queue'[h][b] = f
      BY <1>4, <2>1, <2>2, <3>1
    <3>3. QED
      BY <1>3, <3>1, <3>2
  <2>3. CASE b # n + 1
    <3>1. b \in 1 .. n /\ a \in DOMAIN q /\ b \in DOMAIN q
      BY <1>3, <1>4, <1>6, <2>1, <2>3
    <3>2. queue'[h][a] = q[a] /\ queue'[h][b] = q[b]
      BY <1>4, <2>1, <3>1
    <3>3. Successive(h, q[a].sequence, q[b].sequence)
      BY <1>6, <3>1
    <3>4. QED
      BY <3>2, <3>3
  <2>4. QED
    BY <2>2, <2>3
<1>7. NothingSince(h)'
  <2>1. \A i \in DrawnOf(h)' : i <= sequence + 1
    BY DEF DrawnOf
  <2>2. queue'[h][Len(queue'[h])].sequence = sequence + 1
    BY <1>3, <1>4
  <2>3. QED
    BY <2>1, <2>2 DEF NothingSince
<1>8. QED
  BY <1>5, <1>6, <1>7 DEF Gapless

(* Each of these keeps the queue of h without gaps.                        *)
LEMMA GaplessArrival ==
  ASSUME SameFramesInv, ListedInv, NEW h \in Task, Gapless(h),
         Enqueue(h), Emits(h, cycle)
  PROVE  Gapless(h)'
<1> DEFINE f == NewFrame(h)
<1>1. /\ PositionInv /\ TypeOK /\ queue[h] \in Seq(Frame)
      /\ queue \in Queues /\ ValidConfig(config) /\ sequence \in Nat
  BY DEF SameFramesInv, PositionInv, TypeOK, Queues
<1>2. f \in Frame /\ f.task = h /\ f.sequence = sequence + 1
  BY <1>1, NewFrameTyped DEF TypeOK
<1>3. /\ pc = "arrivals" /\ pc' = "arrivals" /\ sequence' = sequence + 1
      /\ UNCHANGED <<config, baseline>>
  BY DEF Enqueue
<1>4. queue[h] # <<>> /\ NothingSince(h) =>
        Successive(h, queue[h][Len(queue[h])].sequence, sequence + 1)
  BY NewIsSuccessive
<1> HIDE DEF f
<1>5. CASE Accept(f)
  <2>1. /\ queue' = [queue EXCEPT ![h] = Append(queue[h], f)]
        /\ HasRoom(h)
    BY <1>2, <1>5 DEF Accept
  <2>2. queue[h] # <<>> => NothingSince(h)
    BY <1>3, <2>1 DEF Gapless
  <2>3. \A a, b \in DOMAIN queue[h] : b = a + 1
          => Successive(h, queue[h][a].sequence, queue[h][b].sequence)
    BY DEF Gapless
  <2>4. QED
    BY <1>1, <1>2, <1>3, <1>4, <2>1, <2>2, <2>3, GaplessAppend
<1>6. CASE AcceptEvictingOldest(f)
  <2>1. /\ queue' = [queue EXCEPT ![h] = Append(Tail(queue[h]), f)]
        /\ config.dropPolicy[h] = "drop_oldest" /\ queue[h] # <<>>
    BY <1>1, <1>2, <1>6, EvictEffect DEF AcceptEvictingOldest
  <2>2. PICK q \in Seq(Frame) : q = Tail(queue[h])
    BY <1>1, <2>1, HeadTailProperties
  <2>3. Successive(h, queue[h][Len(queue[h])].sequence, sequence + 1)
    BY <1>3, <1>4, <2>1 DEF Gapless
  <2>4. q # <<>> => q[Len(q)] = queue[h][Len(queue[h])]
    <3>1. Len(q) = Len(queue[h]) - 1 /\ Len(q) \in Nat /\ Len(queue[h]) \in Nat
      BY <1>1, <2>1, <2>2, HeadTailProperties, LenProperties
    <3>2. ASSUME q # <<>> PROVE Len(q) \in DOMAIN q
      BY <3>2, <2>2
    <3>3. ASSUME q # <<>> PROVE q[Len(q)] = queue[h][Len(q) + 1]
      BY <1>1, <2>1, <2>2, <3>2, <3>3, TailElements
    <3>4. QED
      BY <3>1, <3>3
  <2>5. \A a, b \in DOMAIN q :
          b = a + 1 => Successive(h, q[a].sequence, q[b].sequence)
    BY <1>1, <2>1, <2>2, GaplessTail
  <2>6. queue' = [queue EXCEPT ![h] = Append(q, f)]
    BY <2>1, <2>2
  <2>7. q # <<>> => Successive(h, q[Len(q)].sequence, sequence + 1)
    BY <2>3, <2>4
  <2>8. QED
    BY <1>1, <1>2, <1>3, <2>5, <2>6, <2>7, GaplessAppend
<1>7. CASE RejectNewest(f)
  <2>1. queue' = queue /\ ~ HasRoom(h) /\ config.dropPolicy[h] # "drop_oldest"
    BY <1>2, <1>7 DEF RejectNewest
  <2>2. ~ HasRoom(h)' /\ config'.dropPolicy[h] # "drop_oldest"
    BY <1>3, <2>1 DEF HasRoom, Backlog
  <2>3. \A m, n : Successive(h, m, n)' <=> Successive(h, m, n)
    BY <1>3 DEF Successive, Of
  <2>4. QED
    BY <2>1, <2>2, <2>3 DEF Gapless
<1>8. QED
  BY <1>5, <1>6, <1>7 DEF Enqueue, f

(* So does every step, since the policy takes nothing from h.              *)
LEMMA GaplessStep ==
  ASSUME SameFramesInv, ListedInv, [Next]_vars, NEW h \in Task, Gapless(h),
         SparesAlone(h)
  PROVE  Gapless(h)'
<1>1. /\ PositionInv /\ TypeOK /\ queue[h] \in Seq(Frame)
      /\ queue \in Queues /\ sequence \in Nat
  BY DEF SameFramesInv, PositionInv, TypeOK, Queues
<1>2. ASSUME NEW t \in Task, ExecuteBaseline(t) PROVE Gapless(h)'
  <2>1. queue'[h] = <<>> /\ pc' = "baseline"
    BY <1>2 DEF ExecuteBaseline, SameFramesInv, AccountInv
  <2>2. DOMAIN queue'[h] = {}
    BY <2>1
  <2>3. QED
    BY <2>1, <2>2 DEF Gapless
<1>3. CASE NextBaselineCycle \/ BeginScheduled
  <2>1. queue'[h] = <<>>
    BY <1>3 DEF NextBaselineCycle, BeginScheduled, SameFramesInv, AccountInv
  <2>2. DOMAIN queue'[h] = {}
    BY <2>1
  <2>3. QED
    BY <2>1, <2>2 DEF Gapless
<1>4. ASSUME NEW t \in Task, Enqueue(t) PROVE Gapless(h)'
  <2>1. CASE t = h /\ Emits(h, cycle)
    BY <1>4, <2>1, GaplessArrival
  <2>2. CASE ~ (t = h /\ Emits(h, cycle))
    <3>1. UNCHANGED <<config, baseline>> /\ pc = "arrivals" /\ pc' = pc
      BY <1>4 DEF Enqueue
    <3>2. CASE ~ Emits(t, cycle)
      <4>1. UNCHANGED <<queue, sequence>>
        BY <1>4, <3>2 DEF Enqueue
      <4>2. DrawnOf(h)' = DrawnOf(h)
        BY <3>1, <4>1 DEF DrawnOf, Of
      <4>3. QED
        BY <3>1, <4>1, <4>2, GaplessSame
    <3>3. CASE t # h /\ Emits(t, cycle)
      <4>1. sequence' = sequence + 1 /\ DrawsSame(t)
            /\ baseline[sequence + 1].frame.task = t
        BY <1>1, <1>4, <3>3, EnqueueDrawsSame, NewFrameTyped
           DEF Enqueue, DrawsSame, TypeOK
      <4>2. \A i \in Of(baseline, h) : i \in Nat /\ i # sequence + 1
        BY <1>1, <3>3, <4>1, BaselineEntries DEF Of
      <4>3. \A i \in Of(baseline, h) : i <= sequence + 1 <=> i <= sequence
        BY <1>1, <4>2
      <4>4. DrawnOf(h)' = DrawnOf(h)
        BY <3>1, <4>1, <4>3 DEF DrawnOf, Of
      <4>5. queue'[h] = queue[h]
        <5>1. NewFrame(t) \in Frame /\ NewFrame(t).task = t
          BY <1>1, NewFrameTyped DEF TypeOK
        <5>2. \/ Accept(NewFrame(t)) \/ AcceptEvictingOldest(NewFrame(t))
              \/ RejectNewest(NewFrame(t))
          BY <1>4, <3>3 DEF Enqueue
        <5>3. QED
          BY <1>1, <3>3, <5>1, <5>2
             DEF Accept, AcceptEvictingOldest, RejectNewest, Queues
      <4>6. QED
        BY <3>1, <4>4, <4>5, GaplessSame
    <3>4. QED
      BY <2>2, <3>2, <3>3
  <2>3. QED
    BY <2>1, <2>2
<1>5. ASSUME NEW t \in Task, ShedTask(t) PROVE Gapless(h)'
  <2>1. /\ pc = "shed" /\ pc' = pc /\ OverThreshold /\ t \notin protected
        /\ RemoveOldest(t) /\ UNCHANGED <<config, baseline, sequence>>
    BY <1>5 DEF ShedTask, Shed
  <2>2. t # h
    BY <2>1 DEF SparesAlone, RemoveOldest
  <2>3. queue'[h] = queue[h]
    BY <1>1, <2>1, <2>2, RemoveOldestEffect
  <2>4. DrawnOf(h)' = DrawnOf(h)
    BY <2>1 DEF DrawnOf, Of
  <2>5. QED
    BY <2>1, <2>3, <2>4, GaplessSame
<1>6. ASSUME NEW t \in Task, Execute(t) PROVE Gapless(h)'
  <2>1. /\ pc' = "execute" /\ RemoveOldest(t)
        /\ UNCHANGED <<config, baseline, sequence>>
    BY <1>6 DEF Execute
  <2>2. CASE t = h
    <3>1. queue[h] # <<>> /\ queue'[h] = Tail(queue[h])
      BY <1>1, <2>1, <2>2, RemoveOldestEffect DEF RemoveOldest
    <3>2. \A m, n : Successive(h, m, n)' <=> Successive(h, m, n)
      BY <2>1 DEF Successive, Of
    <3>3. \A a, b \in DOMAIN queue'[h] : b = a + 1 =>
            Successive(h, queue'[h][a].sequence, queue'[h][b].sequence)
      BY <1>1, <3>1, GaplessTail
    <3>4. QED
      BY <2>1, <3>2, <3>3 DEF Gapless
  <2>3. CASE t # h
    <3>1. queue'[h] = queue[h]
      BY <1>1, <2>1, <2>3, RemoveOldestEffect
    <3>2. DrawnOf(h)' = DrawnOf(h)
      BY <2>1 DEF DrawnOf, Of
    <3>3. QED
      BY <2>1, <3>1, <3>2, GaplessSame
  <2>4. QED
    BY <2>2, <2>3
<1>7. ASSUME NEW t \in Task, PassByTask(t) \/ BeginShedding \/ EndShedding
                             \/ Finish \/ UNCHANGED vars
      PROVE  Gapless(h)'
  <2>1. /\ UNCHANGED <<config, baseline, queue, sequence>>
        /\ pc' \in {"arrivals", "shed"} => pc \in {"arrivals", "shed"}
    BY <1>7 DEF PassByTask, PassBy, BeginShedding, BeginWalk, EndShedding,
                Finish, vars
  <2>2. DrawnOf(h)' = DrawnOf(h)
    BY <2>1 DEF DrawnOf, Of
  <2>3. QED
    BY <2>1, <2>2, GaplessSame
<1>8. QED
  BY <1>2, <1>3, <1>4, <1>5, <1>6, <1>7, TaskAssumption DEF Next

-----------------------------------------------------------------------------
(***************************************************************************)
(* Its executions.                                                         *)
(***************************************************************************)
\* The time between two arrivals of h.
Gap(h) == config.emitEvery[h] * config.interval

\* Nothing else is executed while h has a frame, and its executions follow
\* each other in the baseline.
ServedFirst(h) ==
  /\ pc \notin {"execute", "done"} => records = <<>>
  /\ pc \in {"arrivals", "shed"} => availableAt = 0
  /\ pc = "execute" /\ queue[h] # <<>> =>
       /\ \A k \in DOMAIN records : records[k].frame.task = h
       /\ records = <<>> => availableAt = 0
       /\ records # <<>> =>
            LET r == records[Len(records)]
            IN  /\ Successive(h, r.frame.sequence, Head(queue[h]).sequence)
                /\ availableAt = r.latency + CreatedAt(r.frame)

\* The execution of h at place k takes no longer than one of the baseline
\* that is the k-th of h or a later one.
Gains(h) ==
  \A k \in Of(records, h) :
    /\ \A j \in 1 .. k :
         j \in Of(records, h) /\ records[j].latency <= records[k].latency
    /\ records[k].latency >= config.latency[h]
    /\ config.latency[h] <= Gap(h) => records[k].latency = config.latency[h]
    /\ k <= Rank(h, records[k].frame.sequence)
    /\ \A i \in Of(baseline, h) :
         k <= Rank(h, i) => records[k].latency <= baseline[i].latency

GainInv ==
  /\ SameFramesInv /\ ListedInv /\ Paced
  /\ \A h \in Task :
       Alone(h) => Gapless(h) /\ SparesAlone(h) /\ ServedFirst(h) /\ Gains(h)

(* Two frames of h that follow each other arrive emit_every_n_cycles times *)
(* the interval apart.                                                     *)
LEMMA ArrivalsApart ==
  ASSUME PositionInv, pc # "baseline", NEW h \in Task, NEW m, NEW n,
         Successive(h, m, n)
  PROVE  /\ Gap(h) \in Nat
         /\ CreatedAt(baseline[m].frame) \in Nat
         /\ CreatedAt(baseline[n].frame)
              = CreatedAt(baseline[m].frame) + Gap(h)
<1>1. /\ TypeOK /\ config.interval \in Nat
      /\ config.emitEvery[h] \in Nat
  BY ScenarioConfigTyped DEF PositionInv, TypeOK, PositiveNat
<1>2. baseline[m].frame.cycle \in Nat
  BY <1>1, BaselineEntries DEF Successive, Of
<1>3. baseline[n].frame.cycle
        = baseline[m].frame.cycle + config.emitEvery[h]
  BY SuccessiveApart
<1>4. PICK c \in Nat : c = baseline[m].frame.cycle
  BY <1>2
<1>5. PICK e \in Nat : e = config.emitEvery[h]
  BY <1>1
<1>6. PICK i \in Nat : i = config.interval
  BY <1>1
<1>7. (c + e) * i = c * i + e * i /\ c * i \in Nat /\ e * i \in Nat
  OBVIOUS
<1>8. QED
  BY <1>3, <1>4, <1>5, <1>6, <1>7 DEF CreatedAt, Gap

(* What the baseline makes a frame of h wait for the one before it.        *)
LEMMA BaselineRecurrence ==
  ASSUME PositionInv, Paced, pc # "baseline", NEW h \in Task, NEW m, NEW n,
         Successive(h, m, n)
  PROVE  /\ baseline[m].latency \in Nat /\ baseline[n].latency \in Nat
         /\ baseline[n].latency >= config.latency[h]
         /\ baseline[n].latency
              >= baseline[m].latency - Gap(h) + config.latency[h]
<1>1. TypeOK /\ config.latency[h] \in Nat
  BY ScenarioConfigTyped DEF PositionInv, TypeOK
<1>2. /\ m \in DOMAIN baseline /\ n \in DOMAIN baseline /\ m < n
      /\ baseline[n].frame.task = h
  BY DEF Successive, Of
<1>3. baseline[m].latency \in Nat /\ baseline[n].latency \in Nat
  BY <1>1, <1>2, BaselineEntries
<1>4. /\ baseline[n].latency >= config.latency[h]
      /\ Ended(m) + config.latency[h] <= Ended(n)
  BY <1>2 DEF Paced
<1>5. /\ Gap(h) \in Nat /\ CreatedAt(baseline[m].frame) \in Nat
      /\ CreatedAt(baseline[n].frame)
           = CreatedAt(baseline[m].frame) + Gap(h)
  BY ArrivalsApart
<1>6. QED
  BY <1>1, <1>3, <1>4, <1>5 DEF Ended

(* The scheduler executes h as long as it has a frame.                     *)
LEMMA AloneIsChosen ==
  ASSUME TypeOK, NEW h \in Task, Alone(h), NEW t \in Task, Execute(t),
         queue[h] # <<>>
  PROVE  t = h
<1>1. config.priority \in [Task -> Nat]
  BY ScenarioConfigTyped DEF TypeOK
<1>2. t # h => ServedBefore(t, h) /\ config.priority[t] < config.priority[h]
  BY DEF Execute, ChosenNext, NonEmptyTasks, Alone
<1>3. QED
  BY <1>1, <1>2 DEF ServedBefore

(* The first execution of h begins as its frame arrives.                   *)
LEMMA FirstLatency ==
  ASSUME TypeOK, NEW h \in Task, queue[h] # <<>>, Head(queue[h]).task = h,
         availableAt = 0
  PROVE  Execution(Head(queue[h])).latency = config.latency[h]
<1>1. Head(queue[h]) \in Frame /\ ValidConfig(config) /\ availableAt \in Nat
  BY HeadIsFrame DEF TypeOK
<1>2. /\ CreatedAt(Head(queue[h])) \in Nat
      /\ Execution(Head(queue[h])).latency
           = FinishedAt(Head(queue[h])) - CreatedAt(Head(queue[h]))
      /\ config.latency[h] \in Nat
  BY <1>1, FinishedTyped
<1>3. FinishedAt(Head(queue[h]))
        = CreatedAt(Head(queue[h])) + config.latency[h]
  BY <1>2 DEF FinishedAt
<1>4. QED
  BY <1>2, <1>3

(* Any other begins as its frame arrives, or as the one before it ends.    *)
LEMMA NextLatency ==
  ASSUME SameFramesInv, ListedInv, NEW h \in Task, queue[h] # <<>>,
         pc = "execute", records # <<>>, ServedFirst(h)
  PROVE  LET before == records[Len(records)].latency
             this   == Execution(Head(queue[h])).latency
         IN  /\ before \in Nat /\ this \in Nat /\ Gap(h) \in Nat
             /\ config.latency[h] \in Nat
             /\ \/ this = config.latency[h] /\ before <= Gap(h)
                \/ this = before - Gap(h) + config.latency[h]
                   /\ before >= Gap(h)
<1> DEFINE r == records[Len(records)]
           f == Head(queue[h])
<1>1. /\ PositionInv /\ TypeOK /\ ValidConfig(config) /\ availableAt \in Nat
      /\ queue[h] \in Seq(Frame) /\ records \in Seq(Record)
  BY DEF SameFramesInv, PositionInv, TypeOK, Queues
<1>2. Len(records) \in DOMAIN records
  BY <1>1
<1>3. r \in Record /\ r.latency \in Nat /\ r.frame \in Frame
      /\ InBaseline(r.frame)
  <2>1. r \in Record
    BY <1>1, <1>2, ElementOfSeq
  <2>2. InBaseline(r.frame)
    BY <1>2 DEF ListedInv
  <2>3. \A e \in Record : e.latency \in Nat /\ e.frame \in Frame
    BY DEF Record
  <2>4. QED
    BY <2>1, <2>2, <2>3
<1>4. /\ f \in Frame /\ f.task = h /\ InBaseline(f)
  BY <1>1, HeadIsFrame, HeadElement
     DEF SameFramesInv, OwnFrames, ListedInv, TypeOK
<1>5. /\ Successive(h, r.frame.sequence, f.sequence)
      /\ availableAt = r.latency + CreatedAt(r.frame)
  BY DEF ServedFirst
<1>6. /\ Gap(h) \in Nat /\ CreatedAt(r.frame) \in Nat
      /\ CreatedAt(f) = CreatedAt(r.frame) + Gap(h)
  BY <1>1, <1>3, <1>4, <1>5, ArrivalsApart DEF InBaseline
<1>7. /\ Execution(f).latency = FinishedAt(f) - CreatedAt(f)
      /\ config.latency[h] \in Nat
      /\ FinishedAt(f) = (IF availableAt > CreatedAt(f) THEN availableAt
                                                        ELSE CreatedAt(f))
                           + config.latency[h]
  BY <1>1, <1>4, FinishedTyped DEF FinishedAt
<1> HIDE DEF r, f
<1>8. \/ /\ Execution(f).latency = config.latency[h]
         /\ r.latency <= Gap(h)
      \/ /\ Execution(f).latency = r.latency - Gap(h) + config.latency[h]
         /\ r.latency >= Gap(h)
  <2>1. PICK l \in Nat : l = config.latency[h]
    BY <1>7
  <2>2. PICK c \in Nat : c = CreatedAt(r.frame)
    BY <1>6
  <2>3. PICK g \in Nat : g = Gap(h)
    BY <1>6
  <2>4. PICK b \in Nat : b = r.latency
    BY <1>3
  <2>0. CreatedAt(f) = c + g /\ availableAt = b + c
    BY <1>5, <1>6, <2>2, <2>3, <2>4
  <2>a. FinishedAt(f) = (IF b + c > c + g THEN b + c ELSE c + g) + l
    BY <1>7, <2>0, <2>1
  <2>5. Execution(f).latency
          = (IF b + c > c + g THEN b + c ELSE c + g) + l - (c + g)
    BY <1>7, <2>0, <2>a
  <2>6. CASE b + c > c + g
    <3>1. Execution(f).latency = b - g + l /\ b >= g
      BY <2>5, <2>6
    <3>2. QED
      BY <2>1, <2>3, <2>4, <3>1
  <2>7. CASE ~ (b + c > c + g)
    <3>1. Execution(f).latency = l /\ b <= g
      BY <2>5, <2>7
    <3>2. QED
      BY <2>1, <2>3, <2>4, <3>1
  <2>8. QED
    BY <2>6, <2>7
<1>9. Execution(f).latency \in Nat
  BY <1>3, <1>6, <1>7, <1>8
<1>10. QED
  BY <1>3, <1>6, <1>7, <1>8, <1>9 DEF r, f

(* What comes with a frame of h that is executed.                          *)
LEMMA ExecuteAlone ==
  ASSUME GainInv, NEW h \in Task, Alone(h), Execute(h)
  PROVE  /\ TypeOK /\ PositionInv /\ pc = "execute" /\ pc # "baseline"
         /\ queue[h] \in Seq(Frame) /\ queue[h] # <<>>
         /\ queue'[h] = Tail(queue[h])
         /\ Head(queue[h]) \in Frame /\ Head(queue[h]).task = h
         /\ InBaseline(Head(queue[h]))
         /\ Head(queue[h]).sequence \in Of(baseline, h)
         /\ Execution(Head(queue[h])) \in Record
         /\ Execution(Head(queue[h])).frame = Head(queue[h])
         /\ records \in Seq(Record)
         /\ records' = Append(records, Execution(Head(queue[h])))
         /\ availableAt' = FinishedAt(Head(queue[h]))
         /\ UNCHANGED <<config, baseline, pc>>
         /\ Gapless(h) /\ ServedFirst(h) /\ Gains(h)
<1>1. /\ SameFramesInv /\ ListedInv /\ Paced /\ PositionInv /\ TypeOK
      /\ Gapless(h) /\ ServedFirst(h) /\ Gains(h)
  BY DEF GainInv, SameFramesInv, PositionInv
<1>2. /\ queue[h] \in Seq(Frame) /\ queue \in Queues
      /\ records \in Seq(Record) /\ ValidConfig(config) /\ availableAt \in Nat
  BY <1>1 DEF TypeOK, Queues
<1>3. /\ RemoveOldest(h) /\ queue[h] # <<>> /\ pc = "execute"
      /\ records' = Append(records, Execution(Head(queue[h])))
      /\ availableAt' = FinishedAt(Head(queue[h]))
      /\ UNCHANGED <<config, baseline, pc>>
  BY DEF Execute, RemoveOldest
<1>4. queue'[h] = Tail(queue[h])
  BY <1>2, <1>3, RemoveOldestEffect
<1>5. /\ Head(queue[h]) \in Frame /\ Head(queue[h]).task = h
      /\ InBaseline(Head(queue[h]))
  BY <1>1, <1>2, <1>3, HeadIsFrame, HeadElement
     DEF SameFramesInv, OwnFrames, ListedInv
<1>6. Head(queue[h]).sequence \in Of(baseline, h)
  BY <1>5 DEF InBaseline, Of
<1>7. /\ Execution(Head(queue[h])) \in Record
      /\ Execution(Head(queue[h])).frame = Head(queue[h])
  BY <1>2, <1>5, FinishedTyped
<1>8. QED
  BY <1>1, <1>2, <1>3, <1>4, <1>5, <1>6, <1>7

(* The next execution of h takes at least as long as those before it, and  *)
(* no longer than one of the baseline that is not earlier in its order.    *)
LEMMA NewGains ==
  ASSUME GainInv, NEW h \in Task, Alone(h), Execute(h),
         NEW m \in Nat, m = Len(records), NEW f, f = Head(queue[h]),
         NEW this, this = Execution(f).latency
  PROVE  /\ \A j \in 1 .. m :
              j \in Of(records, h) /\ records[j].latency <= this
         /\ this >= config.latency[h]
         /\ config.latency[h] <= Gap(h) => this = config.latency[h]
         /\ m + 1 <= Rank(h, f.sequence)
         /\ \A i \in Of(baseline, h) :
              m + 1 <= Rank(h, i) => this <= baseline[i].latency
<1>1. /\ TypeOK /\ PositionInv /\ pc = "execute" /\ pc # "baseline"
      /\ queue[h] # <<>> /\ f.task = h /\ f.sequence \in Of(baseline, h)
      /\ records \in Seq(Record)
      /\ ServedFirst(h) /\ Gains(h) /\ SameFramesInv /\ ListedInv /\ Paced
  BY ExecuteAlone DEF GainInv
<1>2. config.latency[h] \in Nat
  BY <1>1, ScenarioConfigTyped DEF TypeOK
<1>3. DOMAIN records = 1 .. m /\ Of(records, h) = 1 .. m
  BY <1>1 DEF ServedFirst, Of
<1>4. \A i \in Of(baseline, h) :
        /\ baseline[i].latency \in Nat
        /\ baseline[i].latency >= config.latency[h]
  BY <1>1, BaselineEntries DEF Of, Paced
<1>5. CASE m = 0
  <2>1. records = <<>>
    BY <1>1, <1>5, EmptySeq
  <2>2. this = config.latency[h]
    BY <1>1, <2>1, FirstLatency DEF ServedFirst
  <2>3. Rank(h, f.sequence) >= 1
    BY <1>1, RankPositive
  <2>4. QED
    BY <1>2, <1>4, <1>5, <2>2, <2>3
<1>6. CASE m # 0
  <2> DEFINE before == records[m].latency
  <2>1. records # <<>> /\ m \in Of(records, h)
    BY <1>1, <1>3, <1>6
  <2>2. /\ before \in Nat /\ this \in Nat /\ Gap(h) \in Nat
        /\ \/ this = config.latency[h] /\ before <= Gap(h)
           \/ this = before - Gap(h) + config.latency[h] /\ before >= Gap(h)
    BY <1>1, <2>1, NextLatency
  <2>3. /\ \A j \in 1 .. m : records[j].latency <= before
        /\ before >= config.latency[h]
        /\ config.latency[h] <= Gap(h) => before = config.latency[h]
        /\ m <= Rank(h, records[m].frame.sequence)
        /\ \A i \in Of(baseline, h) :
             m <= Rank(h, i) => before <= baseline[i].latency
    BY <1>1, <2>1 DEF Gains
  <2>4. Successive(h, records[m].frame.sequence, f.sequence)
    BY <1>1, <2>1 DEF ServedFirst
  <2>5. ASSUME NEW j \in 1 .. m PROVE records[j].latency \in Nat
    <3>1. records[j] \in Record
      BY <1>1, <1>3, ElementOfSeq
    <3>2. \A e \in Record : e.latency \in Nat
      BY DEF Record
    <3>3. QED
      BY <3>1, <3>2
  <2> HIDE DEF before
  <2>6. this >= before /\ this >= config.latency[h]
        /\ (config.latency[h] <= Gap(h) => this = config.latency[h])
    BY <1>2, <2>2, <2>3
  <2>7. \A j \in 1 .. m : j \in Of(records, h) /\ records[j].latency <= this
    BY <1>3, <2>2, <2>3, <2>5, <2>6
  <2>8. m + 1 <= Rank(h, f.sequence)
    <3>1. /\ Rank(h, f.sequence) = Rank(h, records[m].frame.sequence) + 1
          /\ Rank(h, records[m].frame.sequence) \in Nat
      BY <1>1, <2>4, RankSuccessive, RankTyped
    <3>2. QED
      BY <2>3, <3>1
  <2>9. ASSUME NEW i \in Of(baseline, h), m + 1 <= Rank(h, i)
        PROVE  this <= baseline[i].latency
    <3>0. Rank(h, i) \in Nat
      BY <1>1, RankTyped
    <3>1. Rank(h, i) >= 2
      BY <1>6, <2>9, <3>0
    <3>2. PICK j : Successive(h, j, i)
      BY <1>1, <3>0, <3>1, PredecessorExists
    <3>3. Rank(h, i) = Rank(h, j) + 1 /\ Rank(h, j) \in Nat
      BY <1>1, <3>2, RankSuccessive, RankTyped
    <3>4. j \in Of(baseline, h)
      BY <3>2 DEF Successive
    <3>5. before <= baseline[j].latency
      BY <2>3, <2>9, <3>3, <3>4
    <3>6. /\ baseline[j].latency \in Nat /\ baseline[i].latency \in Nat
          /\ baseline[i].latency >= config.latency[h]
          /\ baseline[i].latency
               >= baseline[j].latency - Gap(h) + config.latency[h]
      BY <1>1, <3>2, BaselineRecurrence
    <3>7. QED
      BY <1>2, <2>2, <3>5, <3>6
  <2>10. QED
    BY <2>6, <2>7, <2>8, <2>9
<1>7. QED
  BY <1>5, <1>6

(* The first two frames in the queue follow each other.                    *)
LEMMA SecondFollows ==
  ASSUME TypeOK, NEW h \in Task, Gapless(h), queue[h] # <<>>,
         Tail(queue[h]) # <<>>
  PROVE  Successive(h, Head(queue[h]).sequence, Head(Tail(queue[h])).sequence)
<1>1. queue[h] \in Seq(Frame) /\ Tail(queue[h]) \in Seq(Frame)
  BY HeadIsFrame DEF TypeOK, Queues
<1>2. /\ 1 \in DOMAIN queue[h] /\ Head(queue[h]) = queue[h][1]
      /\ 1 \in DOMAIN Tail(queue[h])
      /\ Head(Tail(queue[h])) = Tail(queue[h])[1]
  BY <1>1, HeadElement
<1>3. 1 + 1 \in DOMAIN queue[h] /\ Tail(queue[h])[1] = queue[h][1 + 1]
  BY <1>1, <1>2, TailElements
<1>4. QED
  BY <1>2, <1>3 DEF Gapless

(* So do its executions, and nothing is executed between them.             *)
LEMMA ServedFirstStep ==
  ASSUME GainInv, [Next]_vars, NEW h \in Task, Alone(h)
  PROVE  ServedFirst(h)'
<1>1. /\ TypeOK /\ PositionInv /\ SameFramesInv /\ ServedFirst(h)
      /\ queue \in Queues /\ records \in Seq(Record)
  BY DEF GainInv, SameFramesInv, PositionInv, TypeOK
<1>2. CASE Execute(h)
  <2>0. PICK f \in Frame : f = Head(queue[h])
    BY <1>2, ExecuteAlone
  <2>e. PICK e \in Record : e = Execution(f)
    BY <1>2, <2>0, ExecuteAlone
  <2>1. /\ e.frame = f /\ f.task = h
        /\ pc' = "execute" /\ records' = Append(records, e)
        /\ availableAt' = FinishedAt(f)
        /\ queue'[h] = Tail(queue[h]) /\ queue[h] # <<>>
        /\ UNCHANGED <<config, baseline>> /\ Gapless(h)
    BY <1>2, <2>0, <2>e, ExecuteAlone
  <2>2. /\ FinishedAt(f) \in Nat /\ CreatedAt(f) \in Nat
        /\ e.latency = FinishedAt(f) - CreatedAt(f)
    BY <1>1, <2>e, <2>1, FinishedTyped DEF TypeOK
  <2>3. availableAt' = e.latency + CreatedAt(f)
    BY <2>1, <2>2
  <2>4. /\ records' # <<>> /\ Len(records') \in DOMAIN records'
        /\ records'[Len(records')] = e
    BY <1>1, <2>1, AppendProperties, LenProperties
  <2>5. \A k \in DOMAIN records' : records'[k].frame.task = h
    <3>1. ASSUME NEW k \in DOMAIN records' PROVE records'[k].frame.task = h
      <4>1. records'[k] = e \/ (k \in DOMAIN records
                                  /\ records'[k] = records[k])
        BY <1>1, <2>1, AppendElements
      <4>2. \A j \in DOMAIN records : records[j].frame.task = h
        BY <1>1, <1>2, <2>1 DEF ServedFirst, Execute
      <4>3. QED
        BY <2>1, <4>1, <4>2
    <3>2. QED
      BY <3>1
  <2>6. queue'[h] # <<>> =>
          Successive(h, f.sequence, Head(queue'[h]).sequence)
    BY <1>1, <2>0, <2>1, SecondFollows
  <2>7. /\ \A m, n : Successive(h, m, n)' <=> Successive(h, m, n)
        /\ CreatedAt(f)' = CreatedAt(f)
    BY <2>1 DEF Successive, Of, CreatedAt
  <2>8. /\ pc' \notin {"arrivals", "shed"} /\ pc' \in {"execute", "done"}
        /\ e.frame = f /\ records' # <<>>
    BY <2>1, <2>4
  <2>9. availableAt' = e.latency + CreatedAt(f)'
    BY <2>3, <2>7
  <2>10. (queue[h] # <<>>
            => Successive(h, e.frame.sequence, Head(queue[h]).sequence))'
    BY <2>1, <2>6, <2>8 DEF Successive, Of
  <2>11. QED
    BY <2>4, <2>5, <2>8, <2>9, <2>10 DEF ServedFirst
<1>3. ASSUME NEW t \in Task, t # h, Execute(t) PROVE ServedFirst(h)'
  <2>1. queue[h] = <<>> /\ pc' = "execute" /\ RemoveOldest(t)
    BY <1>1, <1>3, AloneIsChosen DEF Execute
  <2>2. queue'[h] = <<>>
    BY <1>1, <1>3, <2>1, RemoveOldestEffect
  <2>3. QED
    BY <2>1, <2>2 DEF ServedFirst
<1>4. CASE ~ \E t \in Task : Execute(t)
  <2>1. records' = records
    BY <1>4 DEF Next, ExecuteBaseline, NextBaselineCycle, BeginScheduled,
                Enqueue, BeginShedding, PassByTask, ShedTask, EndShedding,
                Finish, vars
  <2>2. CASE pc' = "baseline"
    BY <1>1, <1>4, <2>1, <2>2
       DEF ServedFirst, Next, ExecuteBaseline, NextBaselineCycle,
           BeginScheduled, Enqueue, BeginShedding, PassByTask, ShedTask,
           EndShedding, Finish, vars
  <2>3. CASE pc' \in {"arrivals", "shed"}
    <3>1. availableAt' = 0 /\ records = <<>>
      BY <1>1, <1>4, <2>3
         DEF ServedFirst, Next, ExecuteBaseline, NextBaselineCycle,
             BeginScheduled, Enqueue, BeginShedding, BeginWalk, PassByTask,
             ShedTask, EndShedding, Finish, vars
    <3>2. QED
      BY <2>1, <2>3, <3>1 DEF ServedFirst
  <2>4. CASE pc' = "execute" /\ pc # "execute"
    <3>1. availableAt' = 0 /\ records = <<>>
      BY <1>1, <1>4, <2>4
         DEF ServedFirst, Next, ExecuteBaseline, NextBaselineCycle,
             BeginScheduled, Enqueue, BeginShedding, BeginWalk, PassByTask,
             ShedTask, EndShedding, Finish, vars
    <3>2. QED
      BY <2>1, <2>4, <3>1 DEF ServedFirst
  <2>5. CASE pc' = "execute" /\ pc = "execute"
    <3>1. UNCHANGED vars
      BY <1>4, <2>5
         DEF Next, ExecuteBaseline, NextBaselineCycle, BeginScheduled, Enqueue,
             BeginShedding, PassByTask, ShedTask, EndShedding, Finish
    <3>2. QED
      BY <1>1, <3>1
         DEF vars, ServedFirst, Successive, Of, CreatedAt
  <2>6. CASE pc' = "done"
    BY <2>6 DEF ServedFirst
  <2>7. pc' \in {"baseline", "arrivals", "shed", "execute", "done"}
    BY <1>1, TypeStep DEF TypeOK
  <2>8. QED
    BY <2>2, <2>3, <2>4, <2>5, <2>6, <2>7
<1>5. QED
  BY <1>2, <1>3, <1>4

\* What Gains says of the execution at place k.
GainsAt(h, k) ==
  /\ \A j \in 1 .. k :
       j \in Of(records, h) /\ records[j].latency <= records[k].latency
  /\ records[k].latency >= config.latency[h]
  /\ config.latency[h] <= Gap(h) => records[k].latency = config.latency[h]
  /\ k <= Rank(h, records[k].frame.sequence)
  /\ \A i \in Of(baseline, h) :
       k <= Rank(h, i) => records[k].latency <= baseline[i].latency

(* An execution that was there before gains what it gained.                *)
LEMMA GainsAtSame ==
  ASSUME NEW h, NEW k \in Nat, GainsAt(h, k),
         UNCHANGED <<config, baseline>>,
         \A j \in 1 .. k :
           j \in Of(records, h)
             => j \in Of(records, h)' /\ records'[j] = records[j],
         k \in 1 .. k
  PROVE  GainsAt(h, k)'
<1>1. /\ \A n : Rank(h, n)' = Rank(h, n)
      /\ Of(baseline, h)' = Of(baseline, h) /\ Gap(h)' = Gap(h)
  BY DEF Rank, Of, Gap
<1>2. records'[k] = records[k]
  BY DEF GainsAt
<1>3. \A j \in 1 .. k :
        /\ j \in Of(records, h)'
        /\ records'[j].latency <= records'[k].latency
  BY <1>2 DEF GainsAt
<1>4. QED
  BY <1>1, <1>2, <1>3 DEF GainsAt

(* The gains hold after every step.                                        *)
LEMMA GainsStep ==
  ASSUME GainInv, [Next]_vars, NEW h \in Task, Alone(h)
  PROVE  Gains(h)'
<1>1. /\ TypeOK /\ SameFramesInv /\ ServedFirst(h) /\ Gains(h)
      /\ queue \in Queues /\ records \in Seq(Record)
      /\ availableAt \in Nat /\ ValidConfig(config)
  BY DEF GainInv, SameFramesInv, PositionInv, TypeOK
<1>2. PICK m \in Nat : m = Len(records)
  BY <1>1, LenProperties
<1>3. DOMAIN records = 1 .. m
  BY <1>1, <1>2, LenProperties
<1>4. \A k \in Of(records, h) : GainsAt(h, k) /\ k \in Nat /\ k \in 1 .. k
  BY <1>1, <1>3 DEF Gains, GainsAt, Of
<1>5. CASE Execute(h)
  <2>1. PICK f \in Frame : f = Head(queue[h])
    BY <1>5, ExecuteAlone
  <2>2. PICK e \in Record : e = Execution(f)
    BY <1>5, <2>1, ExecuteAlone
  <2>3. PICK this : this = e.latency
    OBVIOUS
  <2>4. /\ e.frame = f /\ f.task = h /\ UNCHANGED <<config, baseline>>
        /\ records' = Append(records, e)
    BY <1>5, <2>1, <2>2, ExecuteAlone
  <2>5. /\ DOMAIN records' = 1 .. m + 1 /\ records'[m + 1] = e
        /\ \A j \in 1 .. m : records'[j] = records[j]
    BY <1>1, <1>2, <2>4, AppendProperties, LenProperties
  <2>6. ASSUME NEW j \in 1 .. m, j \in Of(records, h)
        PROVE  j \in Of(records, h)' /\ records'[j] = records[j]
    BY <1>2, <2>5, <2>6 DEF Of
  <2>7. ASSUME NEW k \in Of(records, h) PROVE GainsAt(h, k)'
    <3>1. k \in 1 .. m
      BY <1>3 DEF Of
    <3>2. \A j \in 1 .. k : j \in 1 .. m
      BY <1>2, <3>1
    <3>3. QED
      BY <1>4, <2>4, <2>6, <3>1, <3>2, GainsAtSame
  <2>8. GainsAt(h, m + 1)'
    <3>1. /\ \A j \in 1 .. m :
               j \in Of(records, h) /\ records[j].latency <= this
          /\ this >= config.latency[h]
          /\ config.latency[h] <= Gap(h) => this = config.latency[h]
          /\ m + 1 <= Rank(h, f.sequence)
          /\ \A i \in Of(baseline, h) :
               m + 1 <= Rank(h, i) => this <= baseline[i].latency
      BY <1>2, <1>5, <2>1, <2>2, <2>3, NewGains
    <3>2. /\ \A n : Rank(h, n)' = Rank(h, n)
          /\ Of(baseline, h)' = Of(baseline, h) /\ Gap(h)' = Gap(h)
      BY <2>4 DEF Rank, Of, Gap
    <3>3. this \in Nat
      BY <2>3 DEF Record
    <3>4. m + 1 \in Of(records, h)'
      BY <1>2, <2>4, <2>5 DEF Of
    <3>5. ASSUME NEW j \in 1 .. m + 1
          PROVE  j \in Of(records, h)' /\ records'[j].latency <= this
      <4>1. CASE j \in 1 .. m
        BY <2>5, <2>6, <3>1, <4>1
      <4>2. CASE j = m + 1
        BY <2>3, <2>5, <3>3, <3>4, <4>2
      <4>3. QED
        BY <1>2, <4>1, <4>2
    <3>6. /\ records'[m + 1].latency = this
          /\ records'[m + 1].frame.sequence = f.sequence
      BY <2>3, <2>4, <2>5
    <3>7. QED
      BY <2>4, <3>1, <3>2, <3>5, <3>6 DEF GainsAt
  <2>9. ASSUME NEW k \in Of(records, h)' PROVE GainsAt(h, k)'
    <3>1. k \in 1 .. m + 1 /\ (k \in 1 .. m => k \in Of(records, h))
      BY <1>3, <2>5 DEF Of
    <3>2. CASE k \in 1 .. m
      BY <2>7, <3>1, <3>2
    <3>3. CASE k = m + 1
      BY <2>8, <3>3
    <3>4. QED
      BY <1>2, <3>1, <3>2, <3>3
  <2>10. QED
    BY <2>9 DEF Gains, GainsAt
<1>6. ASSUME NEW t \in Task, t # h, Execute(t) PROVE Gains(h)'
  <2>1. /\ records' = Append(records, Execution(Head(queue[t])))
        /\ UNCHANGED <<config, baseline>> /\ queue[t] # <<>>
        /\ queue[t] \in Seq(Frame)
    BY <1>1, <1>6 DEF Execute, RemoveOldest, Queues
  <2>2. Head(queue[t]) \in Frame /\ Head(queue[t]).task = t
    BY <1>1, <2>1, HeadIsFrame, HeadElement DEF SameFramesInv, OwnFrames
  <2>3. /\ Execution(Head(queue[t])) \in Record
        /\ Execution(Head(queue[t])).frame = Head(queue[t])
    BY <1>1, <2>2, FinishedTyped
  <2>4. PICK e \in Record : e = Execution(Head(queue[t])) /\ e.frame.task = t
    BY <2>2, <2>3
  <2>5. /\ DOMAIN records' = 1 .. m + 1 /\ records'[m + 1] = e
        /\ \A j \in 1 .. m : records'[j] = records[j]
    BY <1>1, <1>2, <2>1, <2>4, AppendProperties, LenProperties
  <2>6. ASSUME NEW j \in 1 .. m, j \in Of(records, h)
        PROVE  j \in Of(records, h)' /\ records'[j] = records[j]
    BY <1>2, <2>5, <2>6 DEF Of
  <2>7. ASSUME NEW k \in Of(records, h)' PROVE GainsAt(h, k)'
    <3>1. k \in 1 .. m + 1 /\ k # m + 1
      BY <1>6, <2>4, <2>5 DEF Of
    <3>2. k \in 1 .. m
      BY <1>2, <3>1
    <3>3. k \in Of(records, h)
      BY <1>3, <2>5, <2>7, <3>2 DEF Of
    <3>4. \A j \in 1 .. k : j \in 1 .. m
      BY <1>2, <3>2
    <3>5. QED
      BY <1>4, <2>1, <2>6, <3>3, <3>4, GainsAtSame
  <2>8. QED
    BY <2>7 DEF Gains, GainsAt
<1>7. CASE ~ \E t \in Task : Execute(t)
  <2>1. records' = records
    BY <1>7 DEF Next, ExecuteBaseline, NextBaselineCycle, BeginScheduled,
                Enqueue, BeginShedding, PassByTask, ShedTask, EndShedding,
                Finish, vars
  <2>2. CASE pc = "baseline"
    <3>1. records = <<>>
      BY <1>1, <2>2 DEF ServedFirst
    <3>2. DOMAIN records' = {}
      BY <2>1, <3>1
    <3>3. QED
      BY <3>2 DEF Gains, Of
  <2>3. CASE pc # "baseline"
    <3>1. UNCHANGED <<config, baseline>>
      BY <2>3, BaselineKept
    <3>2. /\ \A n : Rank(h, n)' = Rank(h, n) /\ Gap(h)' = Gap(h)
          /\ Of(baseline, h)' = Of(baseline, h)
          /\ Of(records, h)' = Of(records, h)
      BY <2>1, <3>1 DEF Rank, Of, Gap
    <3>3. QED
      BY <1>1, <2>1, <3>1, <3>2 DEF Gains
  <2>4. QED
    BY <2>2, <2>3
<1>8. QED
  BY <1>5, <1>6, <1>7

(* The configuration stays as it is read.                                  *)
LEMMA ConfigKept == ASSUME [Next]_vars PROVE config' = config
BY DEF Next, ExecuteBaseline, NextBaselineCycle, BeginScheduled, Enqueue,
       BeginShedding, PassByTask, ShedTask, EndShedding, Execute, Finish, vars

(* Everything above holds in every state.                                  *)
LEMMA GainInvariant == Spec => []GainInv
<1>1. Init => GainInv
  <2> SUFFICES ASSUME Init PROVE GainInv
    OBVIOUS
  <2>1. /\ pc = "baseline" /\ records = <<>> /\ baseline = <<>>
        /\ drops = <<>> /\ \A t \in Task : queue[t] = <<>>
    BY DEF Init, QueuesInit
  <2>2. /\ DOMAIN records = {} /\ DOMAIN baseline = {}
        /\ \A t \in Task : DOMAIN queue[t] = {}
    BY <2>1
  <2>3. SameFramesInv
    BY <2>1, <2>2, PositionInit
       DEF SameFramesInv, OwnFrames, AccountInv
  <2>4. ListedInv /\ Paced
    BY <2>2 DEF ListedInv, Paced
  <2>5. ASSUME NEW h \in Task
        PROVE  Gapless(h) /\ SparesAlone(h) /\ ServedFirst(h) /\ Gains(h)
    BY <2>1, <2>2 DEF Gapless, SparesAlone, ServedFirst, Gains, Of
  <2>6. QED
    BY <2>3, <2>4, <2>5 DEF GainInv
<1>2. GainInv /\ [Next]_vars => GainInv'
  <2> SUFFICES ASSUME GainInv, [Next]_vars PROVE GainInv'
    OBVIOUS
  <2>1. SameFramesInv /\ ListedInv /\ Paced /\ PositionInv /\ TypeOK
    BY DEF GainInv, SameFramesInv, PositionInv
  <2>2. PositionInv'
    BY <2>1, TypeStep, LoopStep, BaselineStep, PositionStep DEF PositionInv
  <2>3. SameFramesInv'
    BY <2>1, <2>2, OwnFramesStep, AccountStep DEF SameFramesInv
  <2>4. ListedInv' /\ Paced'
    BY <2>1, ListedStep, PacedStep
  <2>5. ASSUME NEW h \in Task, Alone(h)'
        PROVE  (Gapless(h) /\ SparesAlone(h) /\ ServedFirst(h) /\ Gains(h))'
    <3>1. Alone(h)
      BY <2>5, ConfigKept DEF Alone
    <3>2. Gapless(h) /\ SparesAlone(h)
      BY <3>1 DEF GainInv
    <3>3. QED
      BY <2>1, <3>1, <3>2, GaplessStep, SparesAloneStep, ServedFirstStep,
         GainsStep
  <2>6. QED
    BY <2>3, <2>4, <2>5 DEF GainInv
<1>3. QED
  BY <1>1, <1>2, PTL DEF Spec

(* No frame of a task that is alone at the highest priority takes longer   *)
(* in the second pass than in the baseline.                                *)
LEMMA FrameByFrame ==
  ASSUME GainInv, NEW k \in DOMAIN records, Alone(records[k].frame.task)
  PROVE  records[k].latency <= baseline[records[k].frame.sequence].latency
<1>1. records \in Seq(Record)
  BY DEF GainInv, SameFramesInv, PositionInv, TypeOK
<1>2. PICK h \in Task : h = records[k].frame.task
  <2>1. records[k] \in Record
    BY <1>1, ElementOfSeq
  <2>2. QED
    BY <2>1 DEF Record, Frame
<1>3. k \in Of(records, h) /\ Gains(h)
  BY <1>2 DEF Of, GainInv
<1>4. records[k].frame.sequence \in Of(baseline, h)
  BY <1>2 DEF GainInv, ListedInv, InBaseline, Of
<1>5. QED
  BY <1>3, <1>4 DEF Gains

-----------------------------------------------------------------------------
(***************************************************************************)
(* The percentile of the summaries.                                        *)
(***************************************************************************)
\* ceil(0.95 * n)
NinetyFive(n) == (19 * n + 19) \div 20

UpTo(rs, t, v)  == {i \in Of(rs, t) : rs[i].latency <= v}
Below(rs, t, v) == {i \in Of(rs, t) : rs[i].latency < v}

IsP95(rs, t, v) ==
  /\ Cardinality(Below(rs, t, v)) < NinetyFive(Cardinality(Of(rs, t)))
  /\ Cardinality(UpTo(rs, t, v)) >= NinetyFive(Cardinality(Of(rs, t)))

(* The rank of the percentile is that of an execution, and never decreases *)
(* with their number.                                                      *)
LEMMA NinetyFiveRank ==
  /\ \A n \in Nat : NinetyFive(n) \in Nat
  /\ \A n \in Nat : n >= 1 => NinetyFive(n) >= 1 /\ NinetyFive(n) <= n
  /\ \A m, n \in Nat : m <= n => NinetyFive(m) <= NinetyFive(n)
BY DEF NinetyFive

(* The executions of a task are finitely many.                             *)
LEMMA OfTyped ==
  ASSUME NEW rs \in Seq(Record), NEW t
  PROVE  /\ IsFiniteSet(Of(rs, t)) /\ Cardinality(Of(rs, t)) \in Nat
         /\ \A i \in Of(rs, t) : i \in 1 .. Len(rs) /\ rs[i].latency \in Nat
         /\ \A v : /\ IsFiniteSet(UpTo(rs, t, v))
                   /\ IsFiniteSet(Below(rs, t, v))
                   /\ Cardinality(UpTo(rs, t, v)) \in Nat
                   /\ Cardinality(Below(rs, t, v)) \in Nat
<1>1. Len(rs) \in Nat /\ DOMAIN rs = 1 .. Len(rs)
  BY LenProperties
<1>2. IsFiniteSet(1 .. Len(rs))
  BY <1>1, FS_Interval
<1>3. Of(rs, t) \in SUBSET (1 .. Len(rs))
  BY <1>1 DEF Of
<1>4. IsFiniteSet(Of(rs, t))
  BY <1>2, <1>3, FS_Subset
<1>5. ASSUME NEW i \in Of(rs, t) PROVE rs[i].latency \in Nat
  <2>1. rs[i] \in Record
    BY ElementOfSeq DEF Of
  <2>2. \A e \in Record : e.latency \in Nat
    BY DEF Record
  <2>3. QED
    BY <2>1, <2>2
<1>6. ASSUME NEW v
      PROVE  IsFiniteSet(UpTo(rs, t, v)) /\ IsFiniteSet(Below(rs, t, v))
  <2>1. /\ UpTo(rs, t, v) \in SUBSET Of(rs, t)
        /\ Below(rs, t, v) \in SUBSET Of(rs, t)
    BY DEF UpTo, Below
  <2>2. QED
    BY <1>4, <2>1, FS_Subset
<1>7. QED
  BY <1>3, <1>4, <1>5, <1>6, FS_CardinalityType

(* Finitely many numbers are bounded.                                      *)
LEMMA BoundExists ==
  ASSUME NEW n \in Nat, NEW S \in SUBSET (1 .. n), NEW g \in [S -> Nat]
  PROVE  \E v \in Nat : \A i \in S : g[i] <= v
<1> DEFINE Bounds(m, v) == \A i \in S : i <= m => g[i] <= v
           Unbounded == {m \in 0 .. n : \A v \in Nat : ~ Bounds(m, v)}
<1>1. \A i \in S : i \in 1 .. n /\ g[i] \in Nat
  OBVIOUS
<1>2. ASSUME Unbounded # {} PROVE FALSE
  <2>1. Unbounded \in SUBSET Nat
    OBVIOUS
  <2>2. PICK m \in Unbounded : \A e \in Unbounded : m <= e
    <3> HIDE DEF Unbounded
    <3>1. QED
      BY <1>2, <2>1, LeastNumber
  <2>3. m \in 0 .. n /\ \A v \in Nat : ~ Bounds(m, v)
    OBVIOUS
  <2>4. m # 0
    <3>1. \A i \in S : ~ (i <= 0)
      BY <1>1
    <3>2. Bounds(0, 0)
      BY <3>1
    <3>3. QED
      BY <2>3, <3>2
  <2>5. m - 1 \in 0 .. n /\ ~ (m <= m - 1)
    BY <2>3, <2>4
  <2>6. m - 1 \notin Unbounded
    BY <2>2, <2>5
  <2>7. PICK v \in Nat : Bounds(m - 1, v)
    BY <2>5, <2>6
  <2>8. PICK w \in Nat : m \in S => w = g[m]
    BY <1>1
  <2>9. v + w \in Nat
    OBVIOUS
  <2>10. Bounds(m, v + w)
    <3>1. ASSUME NEW i \in S, i <= m PROVE g[i] <= v + w
      <4>1. CASE i = m
        BY <1>1, <2>8, <4>1
      <4>2. CASE i # m
        <5>1. i <= m - 1
          BY <1>1, <2>3, <3>1, <4>2
        <5>2. g[i] <= v /\ g[i] \in Nat
          BY <1>1, <2>7, <5>1
        <5>3. QED
          BY <5>2
      <4>3. QED
        BY <4>1, <4>2
    <3>2. QED
      BY <3>1
  <2>11. QED
    BY <2>3, <2>9, <2>10
<1>3. n \in 0 .. n
  OBVIOUS
<1>0. n \notin Unbounded
  BY <1>2
<1>4. PICK v \in Nat : Bounds(n, v)
  BY <1>3, <1>0
<1>5. \A i \in S : i <= n
  BY <1>1
<1>6. QED
  BY <1>4, <1>5

(* A latency that no execution of a task exceeds.                          *)
LEMMA LatencyBound ==
  ASSUME NEW rs \in Seq(Record), NEW t
  PROVE  \E v \in Nat : \A i \in Of(rs, t) : rs[i].latency <= v
<1>1. /\ Len(rs) \in Nat /\ Of(rs, t) \in SUBSET (1 .. Len(rs))
      /\ \A i \in Of(rs, t) : rs[i].latency \in Nat
  BY OfTyped, LenProperties
<1>2. PICK g : g = [i \in Of(rs, t) |-> rs[i].latency]
  OBVIOUS
<1>3. g \in [Of(rs, t) -> Nat] /\ \A i \in Of(rs, t) : g[i] = rs[i].latency
  BY <1>1, <1>2
<1>4. PICK v \in Nat : \A i \in Of(rs, t) : g[i] <= v
  BY <1>1, <1>3, BoundExists
<1>5. QED
  BY <1>3, <1>4

(* The percentile of a task that has executed is one of its latencies, at  *)
(* the rank the code sorts for.                                            *)
LEMMA PercentileIsLatency ==
  ASSUME NEW rs \in Seq(Record), NEW t, Of(rs, t) # {}
  PROVE  /\ \E i \in Of(rs, t) : P95Latency(rs, t) = rs[i].latency
         /\ IsP95(rs, t, P95Latency(rs, t))
<1> DEFINE n == Cardinality(Of(rs, t))
           r == NinetyFive(n)
           Enough == {v \in Nat : Cardinality(UpTo(rs, t, v)) >= r}
           Latencies == {rs[i].latency : i \in Of(rs, t)}
<1>1. /\ IsFiniteSet(Of(rs, t)) /\ n \in Nat
      /\ \A i \in Of(rs, t) : rs[i].latency \in Nat
      /\ \A v : /\ Cardinality(UpTo(rs, t, v)) \in Nat
                /\ Cardinality(Below(rs, t, v)) \in Nat
  BY OfTyped
<1>2. n # 0
  BY <1>1, FS_EmptySet
<1>3. r \in Nat /\ r >= 1 /\ r <= n
  BY <1>1, <1>2, NinetyFiveRank
<1>4. Enough # {}
  <2>1. PICK v \in Nat : \A i \in Of(rs, t) : rs[i].latency <= v
    BY LatencyBound
  <2>2. UpTo(rs, t, v) = Of(rs, t)
    BY <2>1 DEF UpTo
  <2>3. QED
    BY <1>3, <2>1, <2>2
<1>5. PICK v \in Enough : \A w \in Enough : v <= w
  <2>1. Enough \in SUBSET Nat
    OBVIOUS
  <2> HIDE DEF Enough
  <2>2. QED
    BY <1>4, <2>1, LeastNumber
<1>6. v \in Nat /\ Cardinality(UpTo(rs, t, v)) >= r
  BY <1>5
<1>7. Cardinality(Below(rs, t, v)) < r
  <2>1. CASE v = 0
    <3>1. Below(rs, t, v) = {}
      BY <1>1, <2>1 DEF Below
    <3>2. QED
      BY <1>3, <3>1, FS_EmptySet
  <2>2. CASE v # 0
    <3>1. v - 1 \in Nat /\ ~ (v <= v - 1)
      BY <1>6, <2>2
    <3>2. v - 1 \notin Enough
      BY <1>5, <3>1
    <3>3. ~ (Cardinality(UpTo(rs, t, v - 1)) >= r)
      BY <3>1, <3>2
    <3>4. UpTo(rs, t, v - 1) = Below(rs, t, v)
      BY <1>1, <1>6 DEF UpTo, Below
    <3>5. QED
      BY <1>1, <1>3, <3>3, <3>4
  <2>3. QED
    BY <2>1, <2>2
<1>8. v \in Latencies
  <2>1. UpTo(rs, t, v) # Below(rs, t, v)
    BY <1>1, <1>3, <1>6, <1>7
  <2>2. PICK i \in Of(rs, t) : rs[i].latency <= v /\ ~ (rs[i].latency < v)
    <3>1. ASSUME \A i \in Of(rs, t) :
                   rs[i].latency <= v => rs[i].latency < v
          PROVE  UpTo(rs, t, v) = Below(rs, t, v)
      <4>1. \A i \in UpTo(rs, t, v) : i \in Below(rs, t, v)
        BY <3>1 DEF UpTo, Below
      <4>2. \A i \in Below(rs, t, v) : i \in UpTo(rs, t, v)
        BY <1>1, <1>6 DEF UpTo, Below
      <4>3. QED
        BY <4>1, <4>2
    <3>2. QED
      BY <2>1, <3>1
  <2>3. rs[i].latency = v
    BY <1>1, <1>6, <2>2
  <2>4. QED
    BY <2>3
<1>9. P95Latency(rs, t) = CHOOSE w \in Latencies : IsP95(rs, t, w)
  BY DEF P95Latency, IsP95, NinetyFive, UpTo, Below
<1>10. IsP95(rs, t, v)
  BY <1>6, <1>7 DEF IsP95
<1> HIDE DEF Latencies
<1>11. P95Latency(rs, t) \in Latencies /\ IsP95(rs, t, P95Latency(rs, t))
  BY <1>8, <1>9, <1>10
<1>12. QED
  BY <1>11 DEF Latencies

(* When fewer than r executions of the task are faster than v, and one is  *)
(* not, one of the first r is not: they only get slower.                   *)
LEMMA SlowerAtRank ==
  ASSUME GainInv, NEW h \in Task, Alone(h), NEW v \in Nat,
         NEW r \in Nat, Cardinality(Below(records, h, v)) < r,
         NEW k0 \in Of(records, h), records[k0].latency >= v
  PROVE  \E k \in Of(records, h) : k <= r /\ records[k].latency >= v
<1>1. records \in Seq(Record) /\ Gains(h)
  BY DEF GainInv, SameFramesInv, PositionInv, TypeOK
<1>2. /\ \A i \in Of(records, h) :
           i \in 1 .. Len(records) /\ records[i].latency \in Nat
      /\ IsFiniteSet(Below(records, h, v))
      /\ Cardinality(Below(records, h, v)) \in Nat
      /\ Len(records) \in Nat
  BY <1>1, OfTyped, LenProperties
<1> DEFINE Slow == {i \in Of(records, h) : records[i].latency >= v}
<1>3. PICK k \in Slow : \A e \in Slow : k <= e
  <2>1. Slow \in SUBSET Nat
    BY <1>2
  <2>2. Slow # {}
    OBVIOUS
  <2> HIDE DEF Slow
  <2>3. QED
    BY <2>1, <2>2, LeastNumber
<1>4. k \in Of(records, h) /\ records[k].latency >= v /\ k \in Nat /\ k >= 1
  BY <1>2, <1>3
<1>5. ASSUME NEW j \in 1 .. k - 1 PROVE j \in Below(records, h, v)
  <2>1. j \in 1 .. k /\ ~ (k <= j)
    BY <1>4
  <2>2. j \in Of(records, h)
    BY <1>1, <1>4, <2>1 DEF Gains
  <2>3. j \notin Slow
    BY <1>3, <2>1
  <2>4. ~ (records[j].latency >= v) /\ records[j].latency \in Nat
    BY <1>2, <2>2, <2>3
  <2>5. QED
    BY <2>2, <2>4 DEF Below
<1>6. 1 .. k - 1 \in SUBSET Below(records, h, v)
  BY <1>5
<1>7. Cardinality(1 .. k - 1) <= Cardinality(Below(records, h, v))
  BY <1>2, <1>6, FS_Subset
<1>8. Cardinality(1 .. k - 1) = k - 1
  <2>1. k - 1 \in Int /\ 1 <= k
    BY <1>4
  <2>2. \A a, b \in Int : Cardinality(a .. b) = IF a > b THEN 0 ELSE b - a + 1
    BY FS_Interval
  <2>3. QED
    BY <1>4, <2>1, <2>2
<1>9. k <= r
  BY <1>2, <1>4, <1>7, <1>8
<1>10. QED
  BY <1>4, <1>9

(* The baseline has fewer executions that are faster than one of the       *)
(* second pass than the place of that one.                                 *)
LEMMA FewerFaster ==
  ASSUME GainInv, NEW h \in Task, Alone(h), NEW k \in Of(records, h),
         NEW v \in Nat, v < records[k].latency
  PROVE  Cardinality(UpTo(baseline, h, v)) < k
<1>1. /\ TypeOK /\ records \in Seq(Record) /\ baseline \in Seq(Record)
      /\ Gains(h)
  BY DEF GainInv, SameFramesInv, PositionInv, TypeOK
<1>2. /\ k \in Nat /\ k >= 1 /\ records[k].latency \in Nat
      /\ \A i \in Of(baseline, h) :
           i \in 1 .. Len(baseline) /\ baseline[i].latency \in Nat
      /\ IsFiniteSet(UpTo(baseline, h, v)) /\ Len(baseline) \in Nat
      /\ Cardinality(UpTo(baseline, h, v)) \in Nat
  BY <1>1, OfTyped, LenProperties
<1>3. CASE UpTo(baseline, h, v) = {}
  BY <1>2, <1>3, FS_EmptySet
<1>4. CASE UpTo(baseline, h, v) # {}
  <2> DEFINE l == Len(baseline)
             Back == {d \in Nat : l - d \in UpTo(baseline, h, v)}
  <2>1. Back # {}
    <3>1. PICK i : i \in UpTo(baseline, h, v)
      BY <1>4
    <3>2. i \in 1 .. l
      BY <1>2, <3>1 DEF UpTo
    <3>3. l - i \in Nat /\ l - (l - i) = i
      BY <1>2, <3>2
    <3>4. QED
      BY <3>1, <3>3
  <2>2. PICK d \in Back : \A e \in Back : d <= e
    <3>1. Back \in SUBSET Nat
      OBVIOUS
    <3> HIDE DEF Back
    <3>2. QED
      BY <2>1, <3>1, LeastNumber
  <2>3. PICK n : n = l - d
    OBVIOUS
  <2>4. d \in Nat /\ n \in UpTo(baseline, h, v)
    BY <2>2, <2>3
  <2>5. n \in Of(baseline, h) /\ baseline[n].latency <= v
    BY <2>4 DEF UpTo
  <2>6. ASSUME NEW i \in UpTo(baseline, h, v)
        PROVE  i \in {j \in Of(baseline, h) : j <= n}
    <3>1. i \in Of(baseline, h) /\ i \in 1 .. l
      BY <1>2 DEF UpTo
    <3>2. l - i \in Nat /\ l - (l - i) = i
      BY <1>2, <3>1
    <3>3. l - i \in Back
      BY <3>2
    <3>4. d <= l - i
      BY <2>2, <3>3
    <3>5. i <= n
      BY <1>2, <2>3, <2>4, <3>1, <3>4
    <3>6. QED
      BY <3>1, <3>5
  <2> HIDE DEF l, Back
  <2>7. /\ IsFiniteSet({j \in Of(baseline, h) : j <= n})
        /\ Rank(h, n) \in Nat
    BY <1>1, RankTyped
  <2>8. UpTo(baseline, h, v) \in SUBSET {j \in Of(baseline, h) : j <= n}
    BY <2>6
  <2>9. Cardinality(UpTo(baseline, h, v)) <= Rank(h, n)
    BY <2>7, <2>8, FS_Subset DEF Rank
  <2>10. Rank(h, n) < k
    <3>1. k <= Rank(h, n) => records[k].latency <= baseline[n].latency
      BY <1>1, <2>5 DEF Gains
    <3>2. baseline[n].latency \in Nat
      BY <1>2, <2>5
    <3>3. QED
      BY <1>2, <2>5, <2>7, <3>1, <3>2
  <2>11. QED
    BY <1>2, <2>7, <2>9, <2>10
<1>5. QED
  BY <1>3, <1>4

(* The 95th percentile of the task improves, or stays as it is.            *)
LEMMA PercentileGains ==
  ASSUME GainInv, SameFrames, pc = "done", NEW h \in Task, Alone(h),
         Of(records, h) # {}
  PROVE  P95Latency(baseline, h) - P95Latency(records, h) >= 0
<1>1. records \in Seq(Record) /\ baseline \in Seq(Record) /\ TypeOK
  BY DEF GainInv, SameFramesInv, PositionInv, TypeOK
<1>2. PICK a \in Nat : a = Cardinality(Of(records, h))
  BY <1>1, OfTyped
<1>3. PICK b \in Nat : b = Cardinality(Of(baseline, h))
  BY <1>1, OfTyped
<1>4. 1 <= a /\ a <= b
  <2>1. a # 0
    BY <1>1, <1>2, OfTyped, FS_EmptySet
  <2>2. ExecutedCount(records, h) + DroppedCount(h)
          = ExecutedCount(baseline, h)
    BY DEF SameFrames
  <2>3. DroppedCount(h) \in Nat
    BY <1>1, AccountTyped
  <2>4. QED
    BY <1>2, <1>3, <2>1, <2>2, <2>3 DEF ExecutedCount
<1>5. /\ NinetyFive(a) \in Nat /\ NinetyFive(b) \in Nat
      /\ NinetyFive(a) <= NinetyFive(b) /\ 1 <= NinetyFive(b)
  BY <1>4, NinetyFiveRank
<1>6. Of(baseline, h) # {}
  BY <1>3, <1>4, FS_EmptySet
<1>7. PICK k0 \in Of(records, h) :
        P95Latency(records, h) = records[k0].latency
  BY <1>1, PercentileIsLatency
<1>8. PICK i \in Of(baseline, h) :
        P95Latency(baseline, h) = baseline[i].latency
  BY <1>1, <1>6, PercentileIsLatency
<1>9. PICK vr \in Nat : vr = P95Latency(records, h)
  BY <1>1, <1>7, OfTyped
<1>10. PICK vb \in Nat : vb = P95Latency(baseline, h)
  BY <1>1, <1>8, OfTyped
<1>11. IsP95(records, h, vr) /\ IsP95(baseline, h, vb)
  BY <1>1, <1>6, <1>9, <1>10, PercentileIsLatency
<1>12. ASSUME vb < vr PROVE FALSE
  <2>1. Cardinality(Below(records, h, vr)) < NinetyFive(a)
    BY <1>2, <1>11 DEF IsP95
  <2>2. records[k0].latency >= vr
    BY <1>7, <1>9
  <2>3. PICK k \in Of(records, h) :
          k <= NinetyFive(a) /\ records[k].latency >= vr
    BY <1>5, <2>1, <2>2, SlowerAtRank
  <2>4. records[k].latency \in Nat /\ k \in Nat
    BY <1>1, OfTyped
  <2>5. vb < records[k].latency
    BY <1>12, <2>3, <2>4
  <2>6. Cardinality(UpTo(baseline, h, vb)) < k
    BY <2>5, FewerFaster
  <2>7. Cardinality(UpTo(baseline, h, vb)) >= NinetyFive(b)
    BY <1>3, <1>11 DEF IsP95
  <2>8. Cardinality(UpTo(baseline, h, vb)) \in Nat
    BY <1>1, OfTyped
  <2>9. QED
    BY <1>5, <2>3, <2>4, <2>6, <2>7, <2>8
<1>13. vb - vr >= 0
  BY <1>12
<1>14. QED
  BY <1>9, <1>10, <1>13

(* The protected task of the comparison gains: frame by frame, and in the  *)
(* percentile that the comparison reports of it.                           *)
THEOREM ScenarioProtectedNotSlower == Spec => []ProtectedNotSlower
<1>1. GainInv /\ SameFrames => ProtectedNotSlower
  <2> SUFFICES ASSUME GainInv, SameFrames PROVE ProtectedNotSlower
    OBVIOUS
  <2>1. ASSUME NEW k \in DOMAIN records, Alone(records[k].frame.task)
        PROVE  records[k].latency
                 <= baseline[records[k].frame.sequence].latency
    BY <2>1, FrameByFrame
  <2>2. ASSUME pc = "done", Alone(ProtectedTask),
               Of(records, ProtectedTask) # {}
        PROVE  Improvement >= 0
    <3>1. records \in Seq(Record)
      BY DEF GainInv, SameFramesInv, PositionInv, TypeOK
    <3>2. ProtectedTask \in Task
      <4>1. PICK i \in DOMAIN records : records[i].frame.task = ProtectedTask
        BY <2>2 DEF Of
      <4>2. records[i] \in Record
        BY <3>1, ElementOfSeq
      <4>3. QED
        BY <4>1, <4>2 DEF Record, Frame
    <3>3. QED
      BY <2>2, <3>2, PercentileGains DEF Improvement
  <2>3. QED
    BY <2>1, <2>2 DEF ProtectedNotSlower
<1>2. QED
  BY GainInvariant, ScenarioSameFrames, <1>1, PTL

=============================================================================
