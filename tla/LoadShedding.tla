----------------------------- MODULE LoadShedding -----------------------------
(***************************************************************************)
(* LoadSheddingPolicy.apply (policy.py): one walk over the tasks, from the *)
(* lowest priority up, that takes the oldest frame of each queue but the   *)
(* protected one until the backlog is back at the threshold.               *)
(*                                                                         *)
(* A step of this module is one iteration of the walk.  The callers        *)
(* (OrchestratorRuntime and OverloadScenario) say what is recorded of it.  *)
(***************************************************************************)
EXTENDS TaskQueues

VARIABLES
  toVisit,    \* the tasks that the loop over the tasks has not reached yet
  protected   \* protected_task: a set of one task, or of none

sheddingVars == <<queue, toVisit, protected>>

OverThreshold == TotalBacklog > config.threshold

\* Mutated form: protects the lowest priority.
LowestBacklogged ==
  {t \in NonEmptyTasks : \A s \in NonEmptyTasks \ {t} : LowFirst(t, s)}

\* Mutated form: protects every task that ties for the highest priority.
AllHighestBacklogged ==
  {t \in NonEmptyTasks :
     \A s \in NonEmptyTasks : config.priority[s] <= config.priority[t]}

\* _highest_priority_backlogged_task
HighestBacklogged ==
  {t \in NonEmptyTasks : \A s \in NonEmptyTasks \ {t} : HighFirst(t, s)}

\* The task that a loop over the tasks in their configured order, as those
\* of the frame sources are, reaches next.
NextInOrder(t) ==
  /\ t \in toVisit
  /\ \A s \in toVisit \ {t} : config.order[t] < config.order[s]

\* The task the walk reaches next.  Mutated form: from the highest priority.
NextHighFirst(t) == t \in toVisit /\ \A s \in toVisit \ {t} : HighFirst(t, s)

NextLowFirst(t) == t \in toVisit /\ \A s \in toVisit \ {t} : LowFirst(t, s)

\* apply is called.  At or below the threshold it returns at once, which is
\* the walk that stops before its first task.
BeginWalk ==
  /\ toVisit' = Task
  /\ protected' = IF OverThreshold THEN HighestBacklogged ELSE {}
  /\ UNCHANGED queue

\* The protected task, and a task whose queue is empty, are passed by.
PassBy(t) ==
  /\ OverThreshold
  /\ NextLowFirst(t)
  /\ t \in protected \/ queue[t] = <<>>
  /\ toVisit' = toVisit \ {t}
  /\ UNCHANGED <<queue, protected>>

\* Mutated form: the walk stays at a task until it has no frame left.
ShedRepeatedly(t) ==
  /\ OverThreshold
  /\ NextLowFirst(t)
  /\ t \notin protected
  /\ RemoveOldest(t)
  /\ UNCHANGED <<toVisit, protected>>

\* drop_oldest on the task the walk has reached.
Shed(t) ==
  /\ OverThreshold
  /\ NextLowFirst(t)
  /\ t \notin protected
  /\ RemoveOldest(t)
  /\ toVisit' = toVisit \ {t}
  /\ UNCHANGED protected

\* break, or the end of the list.
WalkEnded == ~ OverThreshold \/ toVisit = {}

=============================================================================
