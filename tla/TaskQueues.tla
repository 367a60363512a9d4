----------------------------- MODULE TaskQueues -----------------------------
(***************************************************************************)
(* BoundedTaskQueues (task_queue.py): one bounded FIFO queue per task.     *)
(***************************************************************************)
EXTENDS RunConfig

VARIABLE queue    \* the frames of each task that wait, oldest first

Queues == [Task -> Seq(Frame)]

QueuesInit == queue = [t \in Task |-> <<>>]

Backlog(t) == Len(queue[t])

\* Each queued frame, as the pair of its task and its place: total_backlog
\* adds the lengths of the queues, which is the number of these pairs.
Slots == UNION {{t} \X (1 .. Backlog(t)) : t \in Task}

TotalBacklog == Cardinality(Slots)

NonEmptyTasks == {t \in Task : queue[t] # <<>>}

SnapshotBacklog == [t \in Task |-> Backlog(t)]

\* Mutated form: one frame too many.
HasRoomForOneMore(t) == Backlog(t) <= config.queueSize[t]

HasRoom(t) == Backlog(t) < config.queueSize[t]

-----------------------------------------------------------------------------
\* The branches of enqueue.  A drop policy other than drop_oldest, and so
\* drop_low_priority too, rejects the new frame of a full queue.

Accept(f) ==
  /\ HasRoom(f.task)
  /\ queue' = [queue EXCEPT ![f.task] = Append(@, f)]

\* Mutated form: the newest queued frame is the one that makes room.
AcceptEvictingNewest(f) ==
  /\ ~ HasRoom(f.task)
  /\ config.dropPolicy[f.task] = "drop_oldest"
  /\ queue' = [queue EXCEPT ![f.task] = [@ EXCEPT ![Len(@)] = f]]

AcceptEvictingOldest(f) ==
  /\ ~ HasRoom(f.task)
  /\ config.dropPolicy[f.task] = "drop_oldest"
  /\ queue' = [queue EXCEPT ![f.task] = Append(Tail(@), f)]

RejectNewest(f) ==
  /\ ~ HasRoom(f.task)
  /\ config.dropPolicy[f.task] # "drop_oldest"
  /\ UNCHANGED queue

\* pop, and drop_oldest: both remove the frame that has waited longest.
RemoveOldest(t) ==
  /\ queue[t] # <<>>
  /\ queue' = [queue EXCEPT ![t] = Tail(@)]

=============================================================================
