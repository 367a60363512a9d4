---------------------------- MODULE QueueLemmas -----------------------------
(***************************************************************************)
(* Lemmas about the operators that the runtime and the overload comparison *)
(* are built from: the queues, their total backlog, the order of the       *)
(* policy, the places of an entry in a log, sums and greatest values.      *)
(* Both use them with their own specification.                             *)
(***************************************************************************)
EXTENDS LoadShedding, FiniteSetsExt, FiniteSetTheorems, SequenceTheorems,
        WellFoundedInduction, TLAPS

-----------------------------------------------------------------------------
(***************************************************************************)
(* Configurations and numbers.                                             *)
(***************************************************************************)
(* The fields of the configuration of a run have the types validate        *)
(* checks, and two tasks have different places in the list.                *)
LEMMA ConfigTyped ==
  ASSUME ValidConfig(config)
  PROVE  /\ config \in Config
         /\ config.priority \in [Task -> Nat]
         /\ config.queueSize \in [Task -> PositiveNat]
         /\ config.fallback \in [Task -> BOOLEAN]
         /\ config.threshold \in Nat /\ config.threshold >= 1
         /\ config.frames \in Nat
         /\ config.drain \in BOOLEAN
BY DEF ValidConfig, Config, PositiveNat

(* The order of the numbers is well-founded.                               *)
LEMMA NumbersWellFounded ==
  \E Less : /\ IsWellFoundedOn(Less, Nat)
            /\ \A m, n \in Nat : m < n => <<m, n>> \in Less
<1>1. \A m, n \in Nat : m < n => <<m, n>> \in OpToRel(<, Nat)
  BY DEF OpToRel
<1>2. QED
  BY <1>1, NatLessThanWellFounded

(* A set of numbers with a member has a least one.                         *)
LEMMA LeastNumber ==
  ASSUME NEW S \in SUBSET Nat, S # {}
  PROVE  \E n \in S : \A m \in S : n <= m
<1>1. PICK Less : /\ IsWellFoundedOn(Less, Nat)
                  /\ \A m, n \in Nat : m < n => <<m, n>> \in Less
  BY NumbersWellFounded
<1>2. IsWellFoundedOn(Less, Nat) /\ S \subseteq Nat
  BY <1>1
<1>3. PICK n \in S : \A m \in S : ~ (<<m, n>> \in Less)
  BY <1>2, WFMin
<1>4. n \in Nat /\ \A m \in S : m \in Nat /\ ~ (m < n)
  BY <1>1, <1>2, <1>3
<1>5. QED
  BY <1>4

(* A log has one place more than it had.                                   *)
LEMMA LogGrows ==
  ASSUME NEW n \in Nat, NEW i
  PROVE  i \in 1 .. n + 1 <=> i \in 1 .. n \/ i = n + 1
OBVIOUS

-----------------------------------------------------------------------------
(***************************************************************************)
(* The counters and the logs.                                              *)
(***************************************************************************)
(* A set of places in a log of n entries, when entry n + 1 is appended.    *)
LEMMA CountAppended ==
  ASSUME NEW n \in Nat, NEW A \in SUBSET (1 .. n),
         NEW B \in SUBSET (1 .. n + 1),
         \A i \in 1 .. n : i \in B <=> i \in A
  PROVE  /\ n + 1 \in B => Cardinality(B) = Cardinality(A) + 1
         /\ n + 1 \notin B => Cardinality(B) = Cardinality(A)
         /\ Cardinality(A) \in Nat
<1>1. IsFiniteSet(A) /\ Cardinality(A) \in Nat
  <2>1. IsFiniteSet(1 .. n)
    BY FS_Interval
  <2>2. QED
    BY <2>1, FS_Subset, FS_CardinalityType
<1>2. n + 1 \notin A
  OBVIOUS
<1>3. \A i \in B : i \in 1 .. n \/ i = n + 1
  BY LogGrows
<1>4. CASE n + 1 \in B
  <2>1. B = A \cup {n + 1}
    BY <1>3, <1>4
  <2>2. QED
    BY <1>1, <1>2, <1>4, <2>1, FS_AddElement
<1>5. CASE n + 1 \notin B
  <2>1. B = A
    BY <1>3, <1>5
  <2>2. QED
    BY <1>1, <1>5, <2>1
<1>6. QED
  BY <1>4, <1>5

-----------------------------------------------------------------------------
(***************************************************************************)
(* The elements of a sequence after the operations of a deque.             *)
(***************************************************************************)
(* An element of an appended sequence is the new one or an old one.        *)
LEMMA AppendElements ==
  ASSUME NEW S, NEW q \in Seq(S), NEW e \in S,
         NEW i \in DOMAIN Append(q, e)
  PROVE  Append(q, e)[i] = e \/ (i \in DOMAIN q /\ Append(q, e)[i] = q[i])
BY AppendProperties, LenProperties

(* An element of a tail is the next element of the sequence.               *)
LEMMA TailElements ==
  ASSUME NEW S, NEW q \in Seq(S), q # <<>>, NEW i \in DOMAIN Tail(q)
  PROVE  i + 1 \in DOMAIN q /\ Tail(q)[i] = q[i + 1]
BY HeadTailProperties, LenProperties, EmptySeq

(* The head is the first element.                                          *)
LEMMA HeadElement ==
  ASSUME NEW S, NEW q \in Seq(S), q # <<>>
  PROVE  1 \in DOMAIN q /\ Head(q) = q[1]
BY HeadTailProperties, LenProperties, EmptySeq

Numbers(q) == {q[i].sequence : i \in DOMAIN q}

(* An appended frame adds its number.                                      *)
LEMMA AppendNumbers ==
  ASSUME NEW q \in Seq(Frame), NEW f \in Frame
  PROVE  Numbers(Append(q, f)) = Numbers(q) \cup {f.sequence}
<1>1. /\ DOMAIN q = 1 .. Len(q) /\ Len(q) \in Nat
      /\ DOMAIN Append(q, f) = 1 .. Len(q) + 1
      /\ \A i \in 1 .. Len(q) : Append(q, f)[i] = q[i]
      /\ Append(q, f)[Len(q) + 1] = f
  BY AppendProperties, LenProperties
<1>2. \A i : i \in 1 .. Len(q) + 1 <=> i \in 1 .. Len(q) \/ i = Len(q) + 1
  BY <1>1
<1>3. QED
  BY <1>1, <1>2 DEF Numbers

(* The tail has all numbers but the head's.                                *)
LEMMA TailNumbers ==
  ASSUME NEW q \in Seq(Frame), q # <<>>
  PROVE  Numbers(q) = Numbers(Tail(q)) \cup {Head(q).sequence}
<1>1. /\ DOMAIN q = 1 .. Len(q) /\ Len(q) \in Nat /\ Len(q) >= 1
      /\ DOMAIN Tail(q) = 1 .. Len(q) - 1
      /\ \A i \in 1 .. Len(q) - 1 : Tail(q)[i] = q[i + 1]
      /\ Head(q) = q[1]
  BY HeadTailProperties, LenProperties, EmptySeq
<1>2. ASSUME NEW n \in Numbers(q)
      PROVE  n \in Numbers(Tail(q)) \cup {Head(q).sequence}
  <2>1. PICK i \in 1 .. Len(q) : q[i].sequence = n
    BY <1>1, <1>2 DEF Numbers
  <2>2. CASE i = 1
    BY <1>1, <2>1, <2>2
  <2>3. CASE i # 1
    <3>1. i - 1 \in 1 .. Len(q) - 1 /\ (i - 1) + 1 = i
      BY <1>1, <2>1, <2>3
    <3>2. Tail(q)[i - 1] = q[i]
      BY <1>1, <3>1
    <3>3. QED
      BY <1>1, <2>1, <3>1, <3>2 DEF Numbers
  <2>4. QED
    BY <2>2, <2>3
<1>3. ASSUME NEW n \in Numbers(Tail(q)) PROVE n \in Numbers(q)
  <2>1. PICK i \in 1 .. Len(q) - 1 : Tail(q)[i].sequence = n
    BY <1>1, <1>3 DEF Numbers
  <2>2. i + 1 \in 1 .. Len(q) /\ Tail(q)[i] = q[i + 1]
    BY <1>1, <2>1
  <2>3. QED
    BY <1>1, <2>1, <2>2 DEF Numbers
<1>4. Head(q).sequence \in Numbers(q)
  BY <1>1 DEF Numbers
<1>5. QED
  BY <1>2, <1>3, <1>4

-----------------------------------------------------------------------------
(***************************************************************************)
(* What the operations of BoundedTaskQueues do to the queues.              *)
(***************************************************************************)
(* A queue that is not empty has a frame at its head.                      *)
LEMMA HeadIsFrame ==
  ASSUME queue \in Queues, NEW t \in Task, queue[t] # <<>>
  PROVE  Head(queue[t]) \in Frame /\ Tail(queue[t]) \in Seq(Frame)
BY DEF Queues

(* pop and drop_oldest shorten one queue by its head.                      *)
LEMMA RemoveOldestEffect ==
  ASSUME queue \in Queues, NEW t \in Task, RemoveOldest(t)
  PROVE  /\ queue' \in Queues
         /\ Backlog(t) >= 1
         /\ Backlog(t)' = Backlog(t) - 1
         /\ \A s \in Task \ {t} : queue'[s] = queue[s]
         /\ queue'[t] = Tail(queue[t])
<1>1. queue[t] \in Seq(Frame) /\ queue[t] # <<>>
  BY DEF Queues, RemoveOldest
<1>2. /\ Tail(queue[t]) \in Seq(Frame)
      /\ Len(Tail(queue[t])) = Len(queue[t]) - 1
      /\ Len(queue[t]) >= 1
  BY <1>1, HeadTailProperties, EmptySeq
<1>3. queue' = [queue EXCEPT ![t] = Tail(queue[t])]
  BY DEF RemoveOldest
<1>4. QED
  BY <1>2, <1>3 DEF Queues, Backlog

(* A queue with room grows by the new frame.                               *)
LEMMA AcceptEffect ==
  ASSUME queue \in Queues, NEW f \in Frame, Accept(f)
  PROVE  /\ queue' \in Queues
         /\ Backlog(f.task)' = Backlog(f.task) + 1
         /\ \A s \in Task \ {f.task} : queue'[s] = queue[s]
<1>1. f.task \in Task
  BY DEF Frame
<1>2. queue[f.task] \in Seq(Frame)
  BY <1>1 DEF Queues
<1>3. /\ Append(queue[f.task], f) \in Seq(Frame)
      /\ Len(Append(queue[f.task], f)) = Len(queue[f.task]) + 1
  BY <1>2, AppendProperties
<1>4. queue' = [queue EXCEPT ![f.task] = Append(queue[f.task], f)]
  BY DEF Accept
<1>5. QED
  BY <1>1, <1>3, <1>4 DEF Queues, Backlog

(* A full queue has a frame to evict.                                      *)
LEMMA FullIsNotEmpty ==
  ASSUME ValidConfig(config), queue \in Queues, NEW t \in Task, ~ HasRoom(t)
  PROVE  queue[t] # <<>>
<1>1. config.queueSize[t] \in Nat /\ config.queueSize[t] >= 1
  BY ConfigTyped DEF PositiveNat
<1>2. queue[t] \in Seq(Frame)
  BY DEF Queues
<1>3. Len(queue[t]) \in Nat /\ Len(queue[t]) >= 1
  BY <1>1, <1>2, LenProperties DEF HasRoom, Backlog
<1>4. QED
  BY <1>2, <1>3, EmptySeq

(* Eviction leaves the length of the queue as it is.                       *)
LEMMA EvictEffect ==
  ASSUME ValidConfig(config), queue \in Queues, NEW f \in Frame,
         AcceptEvictingOldest(f)
  PROVE  /\ queue' \in Queues
         /\ queue[f.task] # <<>>
         /\ Backlog(f.task)' = Backlog(f.task)
         /\ \A s \in Task \ {f.task} : queue'[s] = queue[s]
<1>1. f.task \in Task
  BY DEF Frame
<1>2. queue[f.task] \in Seq(Frame) /\ queue[f.task] # <<>>
  BY <1>1, FullIsNotEmpty DEF Queues, AcceptEvictingOldest
<1>3. /\ Tail(queue[f.task]) \in Seq(Frame)
      /\ Len(Tail(queue[f.task])) = Len(queue[f.task]) - 1
      /\ Len(queue[f.task]) \in Nat
  BY <1>2, HeadTailProperties, LenProperties
<1>4. /\ Append(Tail(queue[f.task]), f) \in Seq(Frame)
      /\ Len(Append(Tail(queue[f.task]), f)) = Len(queue[f.task])
  BY <1>3, AppendProperties
<1>5. queue' = [queue EXCEPT ![f.task] = Append(Tail(queue[f.task]), f)]
  BY DEF AcceptEvictingOldest
<1>6. QED
  BY <1>1, <1>2, <1>4, <1>5 DEF Queues, Backlog

-----------------------------------------------------------------------------
(***************************************************************************)
(* The total backlog.                                                      *)
(***************************************************************************)
(* The backlog of a task is a number, 0 if its queue is empty.             *)
LEMMA BacklogTyped ==
  ASSUME queue \in Queues, NEW t \in Task
  PROVE  /\ Backlog(t) \in Nat
         /\ Backlog(t) = 0 <=> queue[t] = <<>>
BY LenProperties, EmptySeq DEF Queues, Backlog

(* A slot is a task and a place in its queue.                              *)
LEMMA SlotMembers ==
  ASSUME NEW t, NEW i
  PROVE  <<t, i>> \in Slots <=> t \in Task /\ i \in 1 .. Backlog(t)
BY DEF Slots

(* A slot is a pair.                                                       *)
LEMMA SlotsArePairs ==
  ASSUME NEW x \in Slots
  PROVE  \E t \in Task, i \in Nat : x = <<t, i>>
BY DEF Slots

(* The queues are finite, so that the total backlog is a number.           *)
LEMMA SlotsFinite ==
  ASSUME queue \in Queues
  PROVE  IsFiniteSet(Slots) /\ TotalBacklog \in Nat
<1> DEFINE F == [t \in Task |-> {t} \X (1 .. Backlog(t))]
           S == {{t} \X (1 .. Backlog(t)) : t \in Task}
<1>1. F \in Surjection(Task, S)
  BY DEF Surjection
<1>2. IsFiniteSet(S)
  BY <1>1, FS_Surjection, TaskAssumption
<1>3. ASSUME NEW T \in S PROVE IsFiniteSet(T)
  <2>1. PICK t \in Task : T = {t} \X (1 .. Backlog(t))
    BY <1>3
  <2>2. Backlog(t) \in Nat
    BY DEF Queues, Backlog
  <2>3. IsFiniteSet({t})
    BY FS_Singleton
  <2>4. IsFiniteSet(1 .. Backlog(t))
    BY <2>2, FS_Interval
  <2>5. QED
    BY <2>1, <2>3, <2>4, FS_Product
<1>4. IsFiniteSet(UNION S)
  BY <1>2, <1>3, FS_UNION
<1>5. QED
  BY <1>4, FS_CardinalityType DEF Slots, TotalBacklog

(* The total backlog follows the backlog of the one queue that changes.    *)
LEMMA TotalPlusOne ==
  ASSUME queue \in Queues, queue' \in Queues, NEW t \in Task,
         Backlog(t)' = Backlog(t) + 1,
         \A s \in Task \ {t} : queue'[s] = queue[s]
  PROVE  TotalBacklog' = TotalBacklog + 1
<1> DEFINE x == <<t, Backlog(t) + 1>>
<1>1. \A s \in Task : Backlog(s) \in Nat
  BY BacklogTyped
<1>2. \A s \in Task \ {t} : Backlog(s)' = Backlog(s)
  BY DEF Backlog
<1>3. Slots' = Slots \cup {x}
  BY <1>1, <1>2 DEF Slots
<1>4. x \notin Slots
  BY <1>1, SlotMembers
<1>5. QED
  BY <1>3, <1>4, SlotsFinite, FS_AddElement DEF TotalBacklog

(* A frame less in one queue is one less in total_backlog.                 *)
LEMMA TotalMinusOne ==
  ASSUME queue \in Queues, queue' \in Queues, NEW t \in Task,
         Backlog(t) >= 1, Backlog(t)' = Backlog(t) - 1,
         \A s \in Task \ {t} : queue'[s] = queue[s]
  PROVE  TotalBacklog' = TotalBacklog - 1
<1> DEFINE x == <<t, Backlog(t)>>
<1>1. \A s \in Task : Backlog(s) \in Nat
  BY BacklogTyped
<1>2. \A s \in Task \ {t} : Backlog(s)' = Backlog(s)
  BY DEF Backlog
<1>3. Slots' = Slots \ {x}
  BY <1>1, <1>2 DEF Slots
<1>4. x \in Slots
  BY <1>1, SlotMembers
<1>5. QED
  BY <1>3, <1>4, SlotsFinite, FS_RemoveElement DEF TotalBacklog

(* An unchanged depth of every queue leaves total_backlog alone.           *)
LEMMA TotalSame ==
  ASSUME \A s \in Task : Backlog(s)' = Backlog(s)
  PROVE  TotalBacklog' = TotalBacklog
<1>1. Slots' = Slots
  BY DEF Slots
<1>2. QED
  BY <1>1 DEF TotalBacklog

(* There is a backlog if and only if some queue is not empty.              *)
LEMMA TotalIsZero ==
  ASSUME queue \in Queues
  PROVE  TotalBacklog = 0 <=> NonEmptyTasks = {}
<1>1. TotalBacklog = 0 <=> Slots = {}
  BY SlotsFinite, FS_EmptySet DEF TotalBacklog
<1>2. ASSUME NEW t \in Task, queue[t] # <<>> PROVE Slots # {}
  <2>1. 1 \in 1 .. Backlog(t)
    BY <1>2, BacklogTyped
  <2>2. QED
    BY <2>1, SlotMembers
<1>3. ASSUME NEW x \in Slots PROVE NonEmptyTasks # {}
  <2>1. PICK t \in Task, i \in Nat : x = <<t, i>>
    BY <1>3, SlotsArePairs
  <2>2. i \in 1 .. Backlog(t)
    BY <1>3, <2>1, SlotMembers
  <2>3. QED
    BY <2>2, BacklogTyped DEF NonEmptyTasks
<1>4. QED
  BY <1>1, <1>2, <1>3 DEF NonEmptyTasks

-----------------------------------------------------------------------------
(***************************************************************************)
(* The order of the policy, and the task that it protects.                 *)
(***************************************************************************)
(* Of two tasks one is ahead of the other, and what is ahead of it is      *)
(* ahead of the other too.                                                 *)
LEMMA HighFirstOrder ==
  ASSUME ValidConfig(config), NEW s \in Task, NEW t \in Task, NEW u \in Task
  PROVE  /\ s # t => HighFirst(s, t) \/ HighFirst(t, s)
         /\ ~ HighFirst(s, s)
         /\ HighFirst(u, s) /\ HighFirst(s, t) => HighFirst(u, t)
<1>1. /\ config.priority[s] \in Nat /\ config.priority[t] \in Nat
      /\ config.priority[u] \in Nat
      /\ s \in Nat /\ t \in Nat /\ u \in Nat
  BY ConfigTyped, TaskAssumption
<1>2. QED
  BY <1>1 DEF HighFirst

(* At most one task is protected.                                          *)
LEMMA HighestIsUnique ==
  ASSUME ValidConfig(config),
         NEW s \in HighestBacklogged, NEW t \in HighestBacklogged
  PROVE  s = t
<1>1. s \in Task /\ t \in Task
  BY DEF HighestBacklogged, NonEmptyTasks
<1>2. config.priority[s] \in Nat /\ config.priority[t] \in Nat
  BY <1>1, ConfigTyped
<1>3. s \in Nat /\ t \in Nat
  BY <1>1, TaskAssumption
<1>4. s # t => HighFirst(s, t) /\ HighFirst(t, s)
  BY DEF HighestBacklogged
<1>5. QED
  BY <1>2, <1>3, <1>4 DEF HighFirst

\* The tasks with a frame that the order of the policy puts ahead of t.
Ahead(t) == {s \in NonEmptyTasks : HighFirst(s, t)}

(* _highest_priority_backlogged_task finds one when there is a backlog:    *)
(* the task with the fewest ahead of it has none.                          *)
LEMMA HighestExists ==
  ASSUME ValidConfig(config), NonEmptyTasks # {}
  PROVE  HighestBacklogged # {}
<1> DEFINE Counts == {Cardinality(Ahead(t)) : t \in NonEmptyTasks}
<1>1. /\ NonEmptyTasks \in SUBSET Task /\ IsFiniteSet(NonEmptyTasks)
      /\ \A t \in NonEmptyTasks : Ahead(t) \in SUBSET NonEmptyTasks
  BY TaskAssumption, FS_Subset DEF NonEmptyTasks, Ahead
<1>2. \A t \in NonEmptyTasks :
        IsFiniteSet(Ahead(t)) /\ Cardinality(Ahead(t)) \in Nat
  BY <1>1, FS_Subset, FS_CardinalityType
<1>3. Counts \in SUBSET Nat /\ Counts # {}
  BY <1>2
<1>4. PICK n \in Counts : \A m \in Counts : n <= m
  BY <1>3, LeastNumber
<1>5. PICK t \in NonEmptyTasks : n = Cardinality(Ahead(t))
  BY <1>4
<1>6. \A s \in NonEmptyTasks : Cardinality(Ahead(t)) <= Cardinality(Ahead(s))
  BY <1>4, <1>5
<1>7. ASSUME NEW s \in NonEmptyTasks \ {t} PROVE HighFirst(t, s)
  <2> SUFFICES ASSUME HighFirst(s, t) PROVE FALSE
    BY <1>1, HighFirstOrder
  <2>1. \A u \in Ahead(s) : u \in Ahead(t)
    BY <1>1, HighFirstOrder DEF Ahead
  <2>2. s \in Ahead(t) /\ s \notin Ahead(s)
    BY <1>1, HighFirstOrder DEF Ahead
  <2>3. Ahead(s) \in SUBSET Ahead(t)
    BY <2>1
  <2>4. /\ Cardinality(Ahead(s)) <= Cardinality(Ahead(t))
        /\ Cardinality(Ahead(t)) = Cardinality(Ahead(s))
             => Ahead(t) = Ahead(s)
    BY <1>2, <2>3, FS_Subset
  <2>5. QED
    BY <1>2, <1>6, <2>2, <2>4
<1>8. QED
  BY <1>7 DEF HighestBacklogged

-----------------------------------------------------------------------------
(***************************************************************************)
(* Sums of counters.                                                       *)
(***************************************************************************)
\* As many pairs as the values of f on s add up to.
Units(f, s) == UNION {{x} \X (1 .. f[x]) : x \in s}

(* A unit is a member of s and a number up to the value of f there.        *)
LEMMA UnitMembers ==
  ASSUME NEW f, NEW s
  PROVE  /\ \A x, i : <<x, i>> \in Units(f, s) <=> x \in s /\ i \in 1 .. f[x]
         /\ \A u \in Units(f, s) : \E x \in s : \E i \in 1 .. f[x] :
              u = <<x, i>>
BY DEF Units

(* The units of one member are as many as its value.                       *)
LEMMA UnitsOfOne ==
  ASSUME NEW x, NEW n \in Nat
  PROVE  /\ IsFiniteSet({x} \X (1 .. n))
         /\ Cardinality({x} \X (1 .. n)) = n
<1>1. IsFiniteSet({x}) /\ Cardinality({x}) = 1
  BY FS_Singleton
<1>2. IsFiniteSet(1 .. n)
  BY FS_Interval
<1>3. Cardinality(1 .. n) = n
  <2>1. \A a, b \in Int : Cardinality(a .. b) = IF a > b THEN 0 ELSE b - a + 1
    BY FS_Interval
  <2>2. Cardinality(1 .. n) = IF 1 > n THEN 0 ELSE n - 1 + 1
    BY <2>1
  <2>3. QED
    BY <2>2
<1>4. /\ IsFiniteSet({x} \X (1 .. n))
      /\ Cardinality({x} \X (1 .. n)) = 1 * Cardinality(1 .. n)
  BY <1>1, <1>2, FS_Product
<1>5. QED
  BY <1>3, <1>4

(* The units of a finite set are finitely many.                            *)
LEMMA UnitsFinite ==
  ASSUME NEW S, IsFiniteSet(S), NEW f \in [S -> Nat], NEW s \in SUBSET S
  PROVE  IsFiniteSet(Units(f, s)) /\ Cardinality(Units(f, s)) \in Nat
<1> DEFINE F == [x \in s |-> {x} \X (1 .. f[x])]
           U == {{x} \X (1 .. f[x]) : x \in s}
<1>1. F \in Surjection(s, U)
  BY DEF Surjection
<1>2. IsFiniteSet(s)
  BY FS_Subset
<1>3. IsFiniteSet(U)
  BY <1>1, <1>2, FS_Surjection
<1>4. ASSUME NEW T \in U PROVE IsFiniteSet(T)
  <2>1. PICK x \in s : T = {x} \X (1 .. f[x])
    BY <1>4
  <2>2. f[x] \in Nat
    BY <2>1
  <2>3. QED
    BY <2>1, <2>2, UnitsOfOne
<1>5. IsFiniteSet(UNION U)
  BY <1>3, <1>4, FS_UNION
<1>6. QED
  BY <1>5, FS_CardinalityType DEF Units

(* A member adds its value.                                                *)
LEMMA UnitsWithout ==
  ASSUME NEW S, IsFiniteSet(S), NEW f \in [S -> Nat], NEW s \in SUBSET S,
         NEW x \in s
  PROVE  Cardinality(Units(f, s))
           = f[x] + Cardinality(Units(f, s \ {x}))
<1> DEFINE A == {x} \X (1 .. f[x])
           B == Units(f, s \ {x})
<1>1. f[x] \in Nat
  OBVIOUS
<1>2. IsFiniteSet(A) /\ Cardinality(A) = f[x]
  BY <1>1, UnitsOfOne
<1>3. IsFiniteSet(B) /\ Cardinality(B) \in Nat
  BY UnitsFinite
<1>4. Units(f, s) = A \cup B
  <2>1. \A u : u \in Units(f, s) => u \in A \cup B
    BY UnitMembers
  <2>2. \A u \in A \cup B : u \in Units(f, s)
    BY UnitMembers
  <2> HIDE DEF A, B
  <2>3. QED
    BY <2>1, <2>2
<1>5. A \cap B = {}
  <2>1. \A u \in A : u \notin B
    BY UnitMembers
  <2> HIDE DEF A, B
  <2>2. QED
    BY <2>1
<1>6. Cardinality(A \cap B) = 0
  BY <1>5, FS_EmptySet
<1> HIDE DEF A, B
<1>7. Cardinality(A \cup B) = Cardinality(A) + Cardinality(B) - 0
  BY <1>2, <1>3, <1>6, FS_Union
<1>8. QED
  BY <1>1, <1>2, <1>3, <1>4, <1>7 DEF B

\* How SumFunction adds up the values of f on s.
AddUp(f, h, s) ==
  IF s = {} THEN 0 ELSE LET x == CHOOSE y \in s : TRUE IN f[x] + h[s \ {x}]

(* The sum of a function of numbers is the number of its units.            *)
LEMMA SumIsUnits ==
  ASSUME NEW S, IsFiniteSet(S), NEW f \in [S -> Nat]
  PROVE  SumFunction(f) = Cardinality(Units(f, S))
<1> DEFINE g == [s \in SUBSET S |-> Cardinality(Units(f, s))]
<1>1. PICK h : /\ SumFunction(f) = h[DOMAIN f]
               /\ h = CHOOSE k : k = [s \in SUBSET (DOMAIN f) |->
                                        AddUp(f, k, s)]
  BY DEF SumFunction, SumFunctionOnSet, FoldFunctionOnSet, MapThenFoldSet,
         AddUp
<1>2. DOMAIN f = S
  OBVIOUS
<1>3. ASSUME NEW s \in SUBSET S
      PROVE  AddUp(f, g, s) = Cardinality(Units(f, s))
  <2>1. CASE s = {}
    <3>1. Units(f, s) = {}
      BY <2>1 DEF Units
    <3>2. QED
      BY <2>1, <3>1, FS_EmptySet DEF AddUp
  <2>2. CASE s # {}
    <3>1. PICK x : x = CHOOSE y \in s : TRUE
      OBVIOUS
    <3>2. x \in s
      BY <2>2, <3>1
    <3>3. AddUp(f, g, s) = f[x] + g[s \ {x}]
      BY <2>2, <3>1 DEF AddUp
    <3>4. g[s \ {x}] = Cardinality(Units(f, s \ {x}))
      OBVIOUS
    <3>5. QED
      BY <3>2, <3>3, <3>4, UnitsWithout
  <2>3. QED
    BY <2>1, <2>2
<1>4. g = [s \in SUBSET S |-> AddUp(f, g, s)]
  BY <1>3
<1>5. h = [s \in SUBSET S |-> AddUp(f, h, s)]
  <2> HIDE DEF g
  <2>1. \E k : k = [s \in SUBSET S |-> AddUp(f, k, s)]
    BY <1>4
  <2>2. QED
    BY <1>1, <1>2, <2>1
<1>6. \A s \in SUBSET S : h[s] = AddUp(f, h, s)
  BY <1>5
<1> DEFINE Bad == {n \in Nat : \E s \in SUBSET S :
                     Cardinality(s) = n /\ h[s] # Cardinality(Units(f, s))}
<1>7. ASSUME Bad # {} PROVE FALSE
  <2>1. PICK n \in Bad : \A m \in Bad : n <= m
    <3>1. Bad \in SUBSET Nat
      OBVIOUS
    <3> HIDE DEF Bad
    <3>2. QED
      BY <1>7, <3>1, LeastNumber
  <2>2. PICK s \in SUBSET S :
          Cardinality(s) = n /\ h[s] # Cardinality(Units(f, s))
    BY <2>1
  <2>3. s # {}
    <3>1. h[{}] = 0
      BY <1>6 DEF AddUp
    <3>2. Units(f, {}) = {}
      BY DEF Units
    <3>3. QED
      BY <2>2, <3>1, <3>2, FS_EmptySet
  <2>4. PICK x : x = CHOOSE y \in s : TRUE
    OBVIOUS
  <2>5. x \in s
    BY <2>3, <2>4
  <2>6. h[s] = f[x] + h[s \ {x}]
    BY <1>6, <2>3, <2>4 DEF AddUp
  <2>7. IsFiniteSet(s) /\ n \in Nat
    BY <2>1, FS_Subset
  <2>8. Cardinality(s \ {x}) = n - 1
    BY <2>2, <2>5, <2>7, FS_RemoveElement
  <2>9. n - 1 \in Nat /\ ~ (n <= n - 1)
    <3>1. n # 0
      BY <2>2, <2>3, <2>7, FS_EmptySet
    <3>2. QED
      BY <2>7, <3>1
  <2>10. n - 1 \notin Bad
    BY <2>1, <2>9
  <2>11. h[s \ {x}] = Cardinality(Units(f, s \ {x}))
    BY <2>8, <2>9, <2>10
  <2>12. QED
    BY <2>2, <2>5, <2>6, <2>11, UnitsWithout
<1>8. h[S] = Cardinality(Units(f, S))
  <2>1. Cardinality(S) \in Nat
    BY FS_CardinalityType
  <2>2. Cardinality(S) \notin Bad
    BY <1>7
  <2>3. QED
    BY <2>1, <2>2
<1>9. QED
  BY <1>1, <1>2, <1>8

(* A sum of numbers is a number, and 0 only if each of them is.            *)
LEMMA SumTyped ==
  ASSUME NEW S, IsFiniteSet(S), NEW f \in [S -> Nat]
  PROVE  /\ SumFunction(f) \in Nat
         /\ SumFunction(f) = 0 <=> \A x \in S : f[x] = 0
<1>1. /\ SumFunction(f) = Cardinality(Units(f, S))
      /\ IsFiniteSet(Units(f, S)) /\ SumFunction(f) \in Nat
  BY SumIsUnits, UnitsFinite
<1>2. SumFunction(f) = 0 <=> Units(f, S) = {}
  BY <1>1, FS_EmptySet
<1>3. ASSUME NEW x \in S, f[x] # 0 PROVE Units(f, S) # {}
  <2>1. 1 \in 1 .. f[x]
    BY <1>3
  <2>2. QED
    BY <2>1, UnitMembers
<1>4. ASSUME NEW u \in Units(f, S) PROVE \E x \in S : f[x] # 0
  <2>1. PICK x \in S : \E i \in 1 .. f[x] : u = <<x, i>>
    BY <1>4, UnitMembers
  <2>2. f[x] \in Nat
    OBVIOUS
  <2>3. f[x] # 0
    BY <2>1, <2>2
  <2>4. QED
    BY <2>3
<1>5. QED
  BY <1>1, <1>2, <1>3, <1>4

(* A counter that goes up by one takes the sum with it.                    *)
LEMMA SumPlusOne ==
  ASSUME NEW S, IsFiniteSet(S), NEW f \in [S -> Nat], NEW x \in S
  PROVE  SumFunction([f EXCEPT ![x] = @ + 1]) = SumFunction(f) + 1
<1> DEFINE g == [f EXCEPT ![x] = @ + 1]
           u == <<x, f[x] + 1>>
<1>1. g \in [S -> Nat] /\ f[x] \in Nat
  OBVIOUS
<1>2. \A y \in S : g[y] = IF y = x THEN f[x] + 1 ELSE f[y]
  OBVIOUS
<1>3. Units(g, S) = Units(f, S) \cup {u}
  <2>1. \A y \in S : \A i : i \in 1 .. g[y]
                          <=> (i \in 1 .. f[y] \/ (y = x /\ i = f[x] + 1))
    BY <1>1, <1>2
  <2> HIDE DEF g
  <2>2. \A v \in Units(g, S) : v \in Units(f, S) \cup {u}
    BY <2>1, UnitMembers
  <2>3. \A v \in Units(f, S) : v \in Units(g, S)
    BY <2>1, UnitMembers
  <2>4. u \in Units(g, S)
    BY <2>1, UnitMembers
  <2> HIDE DEF u
  <2>5. QED
    BY <2>2, <2>3, <2>4
<1>4. u \notin Units(f, S)
  BY <1>1, UnitMembers
<1>5. /\ IsFiniteSet(Units(f, S))
      /\ SumFunction(f) = Cardinality(Units(f, S))
      /\ SumFunction(g) = Cardinality(Units(g, S))
  BY <1>1, SumIsUnits, UnitsFinite
<1> HIDE DEF g, u
<1>6. SumFunction(g) = SumFunction(f) + 1
  BY <1>3, <1>4, <1>5, FS_AddElement
<1>7. QED
  BY <1>6 DEF g

(* total_backlog is the sum of the depths of the queues.                   *)
LEMMA SumOfBacklog ==
  ASSUME queue \in Queues
  PROVE  /\ SnapshotBacklog \in [Task -> Nat]
         /\ SumFunction(SnapshotBacklog) = TotalBacklog
<1>1. SnapshotBacklog \in [Task -> Nat]
  BY BacklogTyped DEF SnapshotBacklog
<1>2. Units(SnapshotBacklog, Task) = Slots
  BY DEF Units, Slots, SnapshotBacklog
<1>3. QED
  BY <1>1, <1>2, SumIsUnits, TaskAssumption DEF TotalBacklog

-----------------------------------------------------------------------------
(***************************************************************************)
(* Greatest values.                                                        *)
(***************************************************************************)
(* A finite set of numbers has a bound.                                    *)
LEMMA FiniteIsBounded ==
  ASSUME NEW S \in SUBSET Nat, IsFiniteSet(S)
  PROVE  \E n \in Nat : \A x \in S : x <= n
<1> DEFINE Bounded(s) == \E n \in Nat : \A x \in s : x <= n
           Bad == {n \in Nat : \E s \in SUBSET S :
                                 Cardinality(s) = n /\ ~ Bounded(s)}
<1>1. ASSUME Bad # {} PROVE FALSE
  <2>1. PICK n \in Bad : \A m \in Bad : n <= m
    <3>1. Bad \in SUBSET Nat
      OBVIOUS
    <3> HIDE DEF Bad
    <3>2. QED
      BY <1>1, <3>1, LeastNumber
  <2>2. PICK s \in SUBSET S : Cardinality(s) = n /\ ~ Bounded(s)
    BY <2>1
  <2>3. IsFiniteSet(s) /\ n \in Nat
    BY <2>1, FS_Subset
  <2>4. PICK x : x \in s
    BY <2>2
  <2>5. x \in Nat
    BY <2>4
  <2>6. n # 0
    BY <2>2, <2>3, <2>4, FS_EmptySet
  <2>7. Cardinality(s \ {x}) = n - 1
    <3>1. Cardinality(s \ {x}) = Cardinality(s) - 1
      BY <2>3, <2>4, FS_RemoveElement
    <3>2. QED
      BY <2>2, <3>1
  <2>8. n - 1 \in Nat /\ n - 1 \notin Bad
    BY <2>1, <2>3, <2>6
  <2>9. Bounded(s \ {x})
    BY <2>7, <2>8
  <2>10. PICK b \in Nat : \A y \in s \ {x} : y <= b
    BY <2>9
  <2>11. \A y \in s : y \in Nat /\ y <= b + x
    BY <2>5, <2>10
  <2>12. b + x \in Nat
    BY <2>5
  <2>13. QED
    BY <2>2, <2>11, <2>12
<1>2. Cardinality(S) \in Nat /\ S \in SUBSET S
  BY FS_CardinalityType
<1>3. QED
  BY <1>1, <1>2

(* Max is the greatest member.                                             *)
LEMMA MaxOfNumbers ==
  ASSUME NEW S \in SUBSET Nat, IsFiniteSet(S), S # {}
  PROVE  /\ Max(S) \in S /\ Max(S) \in Nat
         /\ \A x \in S : x <= Max(S)
<1> DEFINE B == {n \in Nat : \A x \in S : x <= n}
<1>1. B # {}
  BY FiniteIsBounded
<1>2. PICK b \in B : \A m \in B : b <= m
  <2>1. B \in SUBSET Nat
    OBVIOUS
  <2> HIDE DEF B
  <2>2. QED
    BY <1>1, <2>1, LeastNumber
<1>3. b \in S
  <2> SUFFICES ASSUME b \notin S PROVE FALSE
    OBVIOUS
  <2>1. PICK y : y \in S
    OBVIOUS
  <2>2. y \in Nat /\ b \in Nat /\ y <= b /\ y # b
    BY <1>2, <2>1
  <2>3. \A x \in S : x \in Nat /\ x <= b /\ x # b
    BY <1>2
  <2>4. b - 1 \in B
    BY <2>2, <2>3
  <2>5. QED
    BY <1>2, <2>2, <2>4
<1>4. \E m \in S : \A x \in S : m >= x
  BY <1>2, <1>3
<1>5. Max(S) \in S /\ \A x \in S : Max(S) >= x
  BY <1>4 DEF Max
<1>6. QED
  BY <1>5

(* The values of a function on a finite set are finitely many.             *)
LEMMA FiniteImage ==
  ASSUME NEW S, IsFiniteSet(S), NEW f, DOMAIN f = S, NEW T,
         T = {f[x] : x \in S}
  PROVE  IsFiniteSet(T) /\ Cardinality(T) \in Nat
<1> DEFINE g == [x \in S |-> f[x]]
<1>1. g \in Surjection(S, T)
  BY DEF Surjection
<1>2. IsFiniteSet(T)
  BY <1>1, FS_Surjection
<1>3. QED
  BY <1>2, FS_CardinalityType

(* The places of a log are finitely many.                                  *)
LEMMA PlacesOfLog ==
  ASSUME NEW S, NEW l \in Seq(S)
  PROVE  /\ Len(l) \in Nat /\ DOMAIN l = 1 .. Len(l)
         /\ IsFiniteSet(DOMAIN l)
         /\ \A s \in SUBSET DOMAIN l :
              IsFiniteSet(s) /\ Cardinality(s) \in Nat
<1>1. Len(l) \in Nat /\ DOMAIN l = 1 .. Len(l)
  BY LenProperties
<1>2. IsFiniteSet(DOMAIN l)
  BY <1>1, FS_Interval
<1>3. \A s \in SUBSET DOMAIN l : IsFiniteSet(s) /\ Cardinality(s) \in Nat
  BY <1>2, FS_Subset, FS_CardinalityType
<1>4. QED
  BY <1>1, <1>2, <1>3

(* The greatest of the values that the entries of a log give, and of 0.    *)
LEMMA MaxOfPlaces ==
  ASSUME NEW P, IsFiniteSet(P), NEW f \in [P -> Nat],
         NEW M, M = {f[i] : i \in P}
  PROVE  /\ Max({0} \cup M) \in {0} \cup M
         /\ Max({0} \cup M) \in Nat
         /\ \A i \in P : f[i] <= Max({0} \cup M)
<1>1. IsFiniteSet(M)
  BY FiniteImage
<1>2. IsFiniteSet({0} \cup M)
  BY <1>1, FS_Singleton, FS_Union
<1>3. ({0} \cup M) \in SUBSET Nat /\ {0} \cup M # {}
  OBVIOUS
<1>4. /\ Max({0} \cup M) \in {0} \cup M
      /\ Max({0} \cup M) \in Nat
      /\ \A x \in {0} \cup M : x <= Max({0} \cup M)
  BY <1>2, <1>3, MaxOfNumbers
<1>5. QED
  BY <1>4

(* The first of the places with the greatest value.                        *)
LEMMA FirstGreatest ==
  ASSUME NEW P \in SUBSET Nat, IsFiniteSet(P), P # {},
         NEW f, DOMAIN f = P, \A i \in P : f[i] \in Nat
  PROVE  \E k \in P : \A j \in P : /\ f[j] <= f[k]
                                   /\ j < k => f[j] < f[k]
<1> DEFINE V == {f[i] : i \in P}
<1>1. IsFiniteSet(V)
  BY FiniteImage
<1>2. PICK m \in V : m \in Nat /\ \A v \in V : v <= m
  <2>1. V \in SUBSET Nat /\ V # {}
    OBVIOUS
  <2> HIDE DEF V
  <2>2. QED
    BY <1>1, <2>1, MaxOfNumbers
<1> DEFINE K == {k \in P : f[k] = m}
<1>3. PICK k \in K : \A j \in K : k <= j
  <2>1. K \in SUBSET Nat /\ K # {}
    BY <1>2
  <2> HIDE DEF K
  <2>2. QED
    BY <2>1, LeastNumber
<1>4. k \in P /\ k \in Nat /\ f[k] = m
  BY <1>3
<1>5. ASSUME NEW j \in P PROVE f[j] <= f[k] /\ (j < k => f[j] < f[k])
  <2>1. f[j] \in V /\ f[j] \in Nat /\ j \in Nat
    BY <1>5
  <2>2. f[j] <= m
    BY <1>2, <2>1
  <2>3. f[j] = m => k <= j
    BY <1>3, <1>5
  <2>4. QED
    BY <1>2, <1>4, <2>1, <2>2, <2>3
<1>6. QED
  BY <1>4, <1>5

=============================================================================
