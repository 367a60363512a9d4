-------------------------- MODULE PriorityScheduler --------------------------
(***************************************************************************)
(* PriorityScheduler.choose_next (scheduler.py): the next task to serve,   *)
(* compared by the frame at the head of its queue.                         *)
(***************************************************************************)
EXTENDS TaskQueues

\* Mutated form: the deadline ahead of the priority.
ServedBeforeByDeadline(s, t) ==
  LET f == Head(queue[s])
      g == Head(queue[t])
  IN  \/ DeadlineAt(f) < DeadlineAt(g)
      \/ DeadlineAt(f) = DeadlineAt(g) /\ HighFirst(s, t)

\* The sort key (-priority, deadline_at_ms, created_at_ms, name) of s is
\* smaller than that of t.
ServedBefore(s, t) ==
  LET f == Head(queue[s])
      g == Head(queue[t])
  IN  \/ config.priority[s] > config.priority[t]
      \/ /\ config.priority[s] = config.priority[t]
         /\ \/ DeadlineAt(f) < DeadlineAt(g)
            \/ /\ DeadlineAt(f) = DeadlineAt(g)
               /\ \/ CreatedAt(f) < CreatedAt(g)
                  \/ CreatedAt(f) = CreatedAt(g) /\ s < t

ChosenNext(t) ==
  /\ t \in NonEmptyTasks
  /\ \A s \in NonEmptyTasks \ {t} : ServedBefore(t, s)

=============================================================================
