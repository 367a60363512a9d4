----------------------------- MODULE WorkerProofs -----------------------------
(***************************************************************************)
(* Proofs about TensorRtWorker, for every set of tasks, engines and        *)
(* tensors and any number of calls: what run returns is computed from the  *)
(* inputs of its own frame, whatever earlier calls have left in the        *)
(* buffers, and failed ones on the streams of other engines.               *)
(***************************************************************************)
EXTENDS TensorRtWorker, TLAPS, SequenceTheorems

-----------------------------------------------------------------------------
(***************************************************************************)
(* The inductive invariant.                                                *)
(***************************************************************************)
Execution == UNION {[path : {p}, inputs : [Inputs(p) -> Int]] : p \in Path}

\* The value of the input m for the frame of this call.
Wanted(m) == IF given[m] = "fits" THEN calls ELSE 0

\* The tensors that the loop of the call has passed.
Passed == {n \in Tensors(path) :
             \E i \in DOMAIN IoTensors[path] :
               i < index /\ IoTensors[path][i] = n}

Copying == pc \in {"copy in", "copy out"}

\* What the caches hold of the engine, at each statement.
CourseInv ==
  /\ pc \in {"engine", "context"} => path \notin contexts
  /\ pc \in {"resolve", "engine", "context", "buffers"} => index = 1
  /\ pc = "context" => path \in engines
  /\ pc = "buffers" => path \in contexts
  /\ pc = "bind" => path \in described /\ path \notin cached
  /\ pc = "populate" \/ Copying => path \in cached
  /\ \A p \in described : Inputs(p) # {} /\ Outputs(p) # {}

\* Each tensor of a cached engine has an allocation of its own, and the
\* address of it.
CacheInv ==
  \A p \in cached : \A n \in Tensors(p) :
    /\ device[p][n] \in DOMAIN memory
    /\ address[p][n] = device[p][n]
    /\ \A q \in cached : \A m \in Tensors(q) :
         device[q][m] = device[p][n] => q = p /\ m = n

\* So have the tensors that are being bound.
BindInv ==
  pc = "bind" =>
    \A n \in Passed :
      /\ fresh[n] \in DOMAIN memory
      /\ address[path][n] = fresh[n]
      /\ \A m \in Passed : fresh[m] = fresh[n] => m = n
      /\ \A q \in cached : \A m \in Tensors(q) : device[q][m] # fresh[n]

HostInv ==
  \A m \in Inputs(path) :
    Copying \/ (pc = "populate" /\ m \in Passed) => host[path][m] = Wanted(m)

\* An operation is on tensors of a cached engine.
Orderly(o) ==
  /\ o.path \in cached
  /\ o.op = "htod" => o.name \in Inputs(o.path)
  /\ o.op = "dtoh" => o.name \in Outputs(o.path)

\* So is what failed calls have left on their streams,
OrphansInv ==
  \A c \in DOMAIN orphans : \A i \in DOMAIN orphans[c] :
    Orderly(orphans[c][i])

\* and none of it is of the engine of a call that was settled, while it runs
\* and after it has returned.
SettledInv ==
  settled /\ (pc # "idle" \/ outcome = "ok") =>
    \A c \in DOMAIN orphans : \A i \in DOMAIN orphans[c] :
      orphans[c][i].path # path

Pending(op, n) ==
  \E i \in DOMAIN stream : stream[i].op = op /\ stream[i].name = n

\* The execution of the call is still on its stream, or not yet there.
Unexecuted ==
  pc = "copy in" \/ \E i \in DOMAIN stream : stream[i].op = "execute"

\* The stream of the call: copies to inputs, the execution, copies of
\* outputs, all of the one engine.
StreamInv ==
  /\ ~ Copying => stream = <<>>
  /\ \A i \in DOMAIN stream :
       LET o == stream[i]
       IN  /\ o.path = path
           /\ \/ /\ o.op = "htod" /\ o.name \in Inputs(path)
                 /\ o.value = Wanted(o.name) /\ Unexecuted
              \/ o.op = "execute" /\ pc = "copy out"
              \/ o.op = "dtoh" /\ o.name \in Outputs(path) /\ pc = "copy out"
           /\ \A j \in DOMAIN stream :
                j > i => /\ o.op = "execute" => stream[j].op = "dtoh"
                         /\ o.op = "dtoh" => stream[j].op = "dtoh"

\* What has been copied in before the execution, and out after it.
BeforeExecution ==
  /\ \A m \in Inputs(path) :
       pc = "copy out" \/ m \in Passed =>
         \/ Pending("htod", m)
         \/ memory[device[path][m]] = Wanted(m)
  /\ \A n \in Outputs(path) :
       pc = "copy out" /\ n \in Passed => Pending("dtoh", n)

\* The execution k is the one of this call.
Own(k) ==
  /\ k \in DOMAIN executions
  /\ executions[k] =
       [path |-> path, inputs |-> [m \in Inputs(path) |-> Wanted(m)]]

AfterExecution ==
  \E k : /\ Own(k)
         /\ \A n \in Outputs(path) :
              /\ memory[device[path][n]] = k
              /\ n \in Passed => Pending("dtoh", n) \/ host[path][n] = k

MemoryInv ==
  Copying /\ settled =>
    IF Unexecuted THEN BeforeExecution ELSE AfterExecution

WorkerInv ==
  /\ TypeOK /\ executions \in Seq(Execution)
  /\ CourseInv /\ CacheInv /\ BindInv /\ HostInv
  /\ OrphansInv /\ SettledInv /\ StreamInv /\ MemoryInv
  /\ ResultIsOfFrame /\ RejectedNeverExecuted

-----------------------------------------------------------------------------
(***************************************************************************)
(* The tensors of an engine.                                               *)
(***************************************************************************)
(* The engine of a call and its tensors are known.                         *)
LEMMA EngineTyped ==
  ASSUME TypeOK
  PROVE  /\ path \in Path
         /\ \A p \in Path : /\ IoTensors[p] \in Seq(Name)
                            /\ Tensors(p) \subseteq Name
                            /\ Inputs(p) \subseteq Tensors(p)
                            /\ Inputs(p) \subseteq InputName
                            /\ Outputs(p) \subseteq Tensors(p)
                            /\ Inputs(p) \cap Outputs(p) = {}
                            /\ Tensors(p) = Inputs(p) \cup Outputs(p)
         /\ cached \subseteq Path
<1>1. path \in Path
  BY EngineAssumption DEF TypeOK, path
<1>2. \A p \in Path : IoTensors[p] \in Seq(Name)
  BY EngineAssumption
<1>3. \A p \in Path : Tensors(p) \subseteq Name
  BY <1>2, ElementOfSeq, LenProperties DEF Tensors, Range
<1>4. QED
  BY <1>1, <1>2, <1>3 DEF Inputs, Outputs, TypeOK

(* A loop passes one tensor at a time, beginning with none, and all of     *)
(* them in the end.                                                        *)
LEMMA LoopOfTensors ==
  ASSUME TypeOK, task' = task
  PROVE  /\ Passed \subseteq Tensors(path)
         /\ \A n : (/\ index <= Len(IoTensors[path])
                   /\ n = IoTensors[path][index] /\ index' = index + 1)
              => /\ n \in Tensors(path) /\ n \in Name
                 /\ Passed' = Passed \cup {n}
         /\ index > Len(IoTensors[path]) => Passed = Tensors(path)
         /\ index' = 1 => Passed' = {}
         /\ index' = index => Passed' = Passed
<1>1. /\ index \in Nat /\ index >= 1 /\ IoTensors[path] \in Seq(Name)
      /\ path' = path
  <2>1. index \in Nat /\ index >= 1
    <3>1. index \in Nat \ {0}
      BY DEF TypeOK
    <3>2. QED
      BY <3>1
  <2>2. IoTensors[path] \in Seq(Name)
    BY EngineTyped
  <2>3. path' = path
    BY DEF path
  <2>4. QED
    BY <2>1, <2>2, <2>3
<1>2. /\ DOMAIN IoTensors[path] = 1 .. Len(IoTensors[path])
      /\ Len(IoTensors[path]) \in Nat
      /\ Tensors(path) = {IoTensors[path][i] : i \in DOMAIN IoTensors[path]}
  BY <1>1, LenProperties DEF Tensors, Range
<1>3. \A n : (/\ index <= Len(IoTensors[path])
             /\ n = IoTensors[path][index] /\ index' = index + 1)
        => /\ n \in Tensors(path) /\ n \in Name
           /\ Passed' = Passed \cup {n}
  <2> SUFFICES ASSUME index <= Len(IoTensors[path]), index' = index + 1
               PROVE  LET n == IoTensors[path][index]
                      IN  /\ n \in Tensors(path) /\ n \in Name
                          /\ Passed' = Passed \cup {n}
    OBVIOUS
  <2>1. IoTensors[path][index] \in Tensors(path)
    BY <1>1, <1>2
  <2>2. Tensors(path)' = Tensors(path)
    BY <1>1 DEF Tensors
  <2>3. Passed' = Passed \cup {IoTensors[path][index]}
    BY <1>1, <1>2, <2>1, <2>2 DEF Passed
  <2>4. QED
    BY <2>1, <2>3, EngineTyped
<1>4. index > Len(IoTensors[path]) => Passed = Tensors(path)
  BY <1>1, <1>2 DEF Passed
<1>5. Tensors(path)' = Tensors(path)
  BY <1>1 DEF Tensors
<1>6. index' = 1 => Passed' = {}
  BY <1>1, <1>2, <1>5 DEF Passed
<1>7. index' = index => Passed' = Passed
  BY <1>1, <1>2, <1>5 DEF Passed
<1>8. QED
  BY <1>3, <1>4, <1>6, <1>7 DEF Passed

-----------------------------------------------------------------------------
(***************************************************************************)
(* Streams.                                                                *)
(***************************************************************************)
(* An exception leaves the caller idle and the stream of the call behind.  *)
LEMMA RaiseEffect ==
  ASSUME TypeOK, NEW e, Raise(e)
  PROVE  /\ pc' = "idle" /\ outcome' = e /\ stream' = <<>>
         /\ orphans' \in [1 .. calls -> Seq(Operations)]
         /\ \A c \in 1 .. calls :
              orphans'[c] = IF c = calls THEN stream ELSE orphans[c]
BY DEF Raise, TypeOK

(* The copies that the loops of a call make are operations.                *)
LEMMA CopyTyped ==
  ASSUME TypeOK, NEW n \in Name
  PROVE  /\ [op |-> "htod", path |-> path, name |-> n,
             value |-> host[path][n]] \in Operations
         /\ [op |-> "dtoh", path |-> path, name |-> n] \in Operations
<1>1. path \in Path
  BY EngineTyped
<1>2. host[path][n] \in Int
  BY <1>1 DEF TypeOK
<1>3. QED
  BY <1>1, <1>2 DEF Operations

(* A stream that an operation is put on.                                   *)
LEMMA OperationSubmitted ==
  ASSUME TypeOK, NEW o \in Operations, stream' = Append(stream, o)
  PROVE  /\ stream' \in Seq(Operations)
         /\ Len(stream) \in Nat
         /\ DOMAIN stream = 1 .. Len(stream)
         /\ DOMAIN stream' = 1 .. Len(stream) + 1
         /\ \A i \in 1 .. Len(stream) : stream'[i] = stream[i]
         /\ stream'[Len(stream) + 1] = o
<1>1. stream \in Seq(Operations)
  BY DEF TypeOK
<1>2. QED
  BY <1>1, AppendProperties, LenProperties

(* A sequence of which the first operation has been performed.             *)
LEMMA OperationPerformed ==
  ASSUME NEW s \in Seq(Operations), s # <<>>
  PROVE  /\ Tail(s) \in Seq(Operations) /\ Head(s) \in Operations
         /\ Len(s) \in Nat /\ Len(s) >= 1 /\ Head(s) = s[1]
         /\ DOMAIN s = 1 .. Len(s)
         /\ DOMAIN Tail(s) = 1 .. Len(s) - 1
         /\ \A i \in 1 .. Len(s) - 1 : Tail(s)[i] = s[i + 1]
<1>1. /\ Tail(s) \in Seq(Operations) /\ Head(s) = s[1]
      /\ Len(Tail(s)) = Len(s) - 1 /\ Len(s) >= 1
      /\ \A i \in 1 .. Len(Tail(s)) : Tail(s)[i] = s[i + 1]
  BY HeadTailProperties, EmptySeq, LenProperties
<1>2. Len(s) \in Nat /\ DOMAIN s = 1 .. Len(s)
  BY LenProperties
<1>3. DOMAIN Tail(s) = 1 .. Len(s) - 1
  BY <1>1, LenProperties
<1>4. s[1] \in Operations
  BY <1>1, <1>2, ElementOfSeq
<1>5. QED
  BY <1>1, <1>2, <1>3, <1>4

-----------------------------------------------------------------------------
(***************************************************************************)
(* The types.                                                              *)
(***************************************************************************)
(* What the first operation of a stream does to the memory, the hosts and  *)
(* the log of executions: its types, and that nothing is deallocated.      *)
LEMMA PerformTyped ==
  ASSUME WorkerInv, NEW o \in Operations, Perform(o), Orderly(o)
  PROVE  /\ memory' \in Seq(Int) /\ DOMAIN memory' = DOMAIN memory
         /\ host' \in [Path -> [Name -> Int]]
         /\ executions' \in Seq(Execution)
<1> USE DEF Orderly
<1>1. /\ memory \in Seq(Int) /\ executions \in Seq(Execution)
      /\ host \in [Path -> [Name -> Int]]
      /\ DOMAIN memory = 1 .. Len(memory) /\ Len(memory) \in Nat
      /\ DOMAIN executions = 1 .. Len(executions) /\ Len(executions) \in Nat
  BY LenProperties DEF WorkerInv, TypeOK
<1>2. \A a \in DOMAIN memory : memory[a] \in Int
  BY <1>1, ElementOfSeq
<1>3. /\ o.path \in Path /\ o.op \in {"htod", "execute", "dtoh"}
      /\ o.op # "execute" => o.name \in Name
      /\ o.op = "htod" => o.value \in Int
  BY DEF Operations
<1>4. /\ cached \subseteq Path
      /\ o.op # "execute" => o.name \in Tensors(o.path)
  BY <1>3 DEF WorkerInv, TypeOK, Inputs, Outputs
<1>5. CASE o.op = "htod"
  <2>1. /\ memory' = [memory EXCEPT ![device[o.path][o.name]] = o.value]
        /\ UNCHANGED <<host, executions>>
    BY <1>5 DEF Perform
  <2>2. o.value \in Int /\ device[o.path][o.name] \in DOMAIN memory
    BY <1>3, <1>4, <1>5 DEF WorkerInv, CacheInv
  <2>3. memory' \in [1 .. Len(memory) -> Int]
    BY <1>1, <1>2, <2>1, <2>2
  <2>4. QED
    BY <1>1, <2>1, <2>3, IsASeq
<1>6. CASE o.op = "execute"
  <2> DEFINE e == [path |-> o.path,
                   inputs |-> [n \in Inputs(o.path) |->
                                 memory[address[o.path][n]]]]
  <2>1. /\ executions' = Append(executions, e)
        /\ memory' = [a \in DOMAIN memory |->
             IF \E n \in Outputs(o.path) : address[o.path][n] = a
               THEN Len(executions') ELSE memory[a]]
        /\ UNCHANGED host
    BY <1>6 DEF Perform
  <2>2. \A n \in Inputs(o.path) : memory[address[o.path][n]] \in Int
    BY <1>2, <1>6 DEF WorkerInv, CacheInv, Inputs
  <2>3. e \in Execution
    BY <1>3, <2>2 DEF Execution
  <2> HIDE DEF e
  <2>4. /\ executions' \in Seq(Execution)
        /\ Len(executions') = Len(executions) + 1
    BY <1>1, <2>1, <2>3, AppendProperties
  <2>5. memory' \in [1 .. Len(memory) -> Int]
    BY <1>1, <1>2, <2>1, <2>4
  <2>6. QED
    BY <1>1, <2>1, <2>4, <2>5, IsASeq
<1>7. CASE o.op = "dtoh"
  <2>1. /\ host' = [host EXCEPT ![o.path][o.name] =
                      memory[device[o.path][o.name]]]
        /\ UNCHANGED <<memory, executions>>
    BY <1>7 DEF Perform
  <2>2. memory[device[o.path][o.name]] \in Int
    BY <1>2, <1>3, <1>4, <1>7 DEF WorkerInv, CacheInv
  <2>3. QED
    BY <1>1, <1>3, <1>7, <2>1, <2>2
<1>8. QED
  BY <1>3, <1>5, <1>6, <1>7

(* The operations on the stream of a call have their places.               *)
LEMMA HeadOfStream ==
  ASSUME WorkerInv, stream # <<>>
  PROVE  LET o == Head(stream)
         IN  /\ o \in Operations /\ o = stream[1] /\ 1 \in DOMAIN stream
             /\ o.path = path /\ path \in cached /\ Copying /\ Orderly(o)
             /\ \/ /\ o.op = "htod" /\ o.name \in Inputs(path)
                   /\ o.value = Wanted(o.name) /\ Unexecuted
                \/ o.op = "execute" /\ pc = "copy out"
                \/ o.op = "dtoh" /\ o.name \in Outputs(path)
                     /\ pc = "copy out"
<1>1. stream \in Seq(Operations)
  BY DEF WorkerInv, TypeOK
<1>2. /\ Head(stream) \in Operations /\ Head(stream) = stream[1]
      /\ 1 \in DOMAIN stream
  BY <1>1, OperationPerformed
<1>3. Copying /\ path \in cached
  BY DEF WorkerInv, StreamInv, CourseInv
<1>4. QED
  BY <1>2, <1>3 DEF WorkerInv, StreamInv, Orderly

(* The operation that a step of the GPU performs: the first on the stream  *)
(* of the call, or one that a failed call has left behind, which is of     *)
(* another engine if the call was settled.                                 *)
LEMMA GpuStepPerforms ==
  ASSUME WorkerInv, GpuStep
  PROVE  \E o \in Operations :
           /\ Perform(o) /\ Orderly(o)
           /\ \/ /\ stream # <<>> /\ o = Head(stream)
                 /\ stream' = Tail(stream) /\ UNCHANGED orphans
              \/ /\ settled /\ (pc # "idle" \/ outcome = "ok")
                      => o.path # path
                 /\ UNCHANGED stream
                 /\ orphans' \in [1 .. calls -> Seq(Operations)]
                 /\ OrphansInv' /\ SettledInv'
<1>1. stream \in Seq(Operations) /\ orphans \in [1 .. calls -> Seq(Operations)]
  BY DEF WorkerInv, TypeOK
<1>2. CASE /\ stream # <<>> /\ Perform(Head(stream))
           /\ stream' = Tail(stream) /\ UNCHANGED orphans
  BY <1>2, HeadOfStream
<1>3. ASSUME NEW c \in DOMAIN orphans, orphans[c] # <<>>,
             Perform(Head(orphans[c])),
             orphans' = [orphans EXCEPT ![c] = Tail(@)], UNCHANGED stream
      PROVE  \E o \in Operations :
               /\ Perform(o) /\ Orderly(o)
               /\ settled /\ (pc # "idle" \/ outcome = "ok")
                    => o.path # path
               /\ UNCHANGED stream
               /\ orphans' \in [1 .. calls -> Seq(Operations)]
               /\ OrphansInv' /\ SettledInv'
  <2> DEFINE s == orphans[c]
             Quiet == settled /\ (pc # "idle" \/ outcome = "ok")
  <2>1. s \in Seq(Operations) /\ s # <<>>
    BY <1>1, <1>3
  <2>2. /\ Tail(s) \in Seq(Operations) /\ Head(s) \in Operations
        /\ Len(s) \in Nat /\ Len(s) >= 1 /\ Head(s) = s[1]
        /\ DOMAIN s = 1 .. Len(s)
        /\ DOMAIN Tail(s) = 1 .. Len(s) - 1
        /\ \A i \in 1 .. Len(s) - 1 : Tail(s)[i] = s[i + 1]
    BY <2>1, OperationPerformed
  <2>3. /\ orphans' = [orphans EXCEPT ![c] = Tail(s)]
        /\ orphans' \in [1 .. calls -> Seq(Operations)]
        /\ DOMAIN orphans' = DOMAIN orphans
    BY <1>1, <1>3, <2>2
  <2>4. \A i \in DOMAIN s : Orderly(s[i]) /\ (Quiet => s[i].path # path)
    BY DEF WorkerInv, OrphansInv, SettledInv
  <2>5. /\ UNCHANGED <<cached, settled, pc, outcome>> /\ path' = path
        /\ \A o : Orderly(o)' = Orderly(o)
    BY DEF GpuStep, caches, frame, path, Orderly, Inputs, Outputs, Tensors
  <2> HIDE DEF s, Quiet
  <2>6. \A i \in DOMAIN Tail(s) :
          Orderly(Tail(s)[i]) /\ (Quiet => Tail(s)[i].path # path)
    BY <2>2, <2>4
  <2>7. \A d \in DOMAIN orphans :
          orphans'[d] = IF d = c THEN Tail(s) ELSE orphans[d]
    BY <1>1, <2>3
  <2>8. ASSUME NEW d \in DOMAIN orphans, NEW i \in DOMAIN orphans'[d]
        PROVE  /\ Orderly(orphans'[d][i])
               /\ Quiet => orphans'[d][i].path # path
    <3>1. CASE d = c
      BY <2>6, <2>7, <2>8, <3>1
    <3>2. CASE d # c
      BY <2>7, <2>8, <3>2 DEF WorkerInv, OrphansInv, SettledInv, Quiet
    <3>3. QED
      BY <3>1, <3>2
  <2>9. OrphansInv' /\ SettledInv'
    BY <2>3, <2>5, <2>8 DEF OrphansInv, SettledInv, Quiet
  <2>10. /\ Head(s) \in Operations /\ Orderly(Head(s))
         /\ Quiet => Head(s).path # path
    BY <2>2, <2>4
  <2>11. Perform(Head(s))
    BY <1>3 DEF s
  <2>12. QED
    BY <1>3, <2>3, <2>9, <2>10, <2>11 DEF Quiet
<1>4. QED
  BY <1>2, <1>3 DEF GpuStep

(* An execution has a value for each input of its engine.                  *)
LEMMA ExecutionTyped ==
  ASSUME NEW s \in Seq(Execution), NEW i \in DOMAIN s
  PROVE  s[i].path \in Path /\ s[i].inputs \in [Inputs(s[i].path) -> Int]
<1>1. s[i] \in Execution
  BY ElementOfSeq, LenProperties
<1>2. PICK p \in Path : s[i] \in [path : {p}, inputs : [Inputs(p) -> Int]]
  BY <1>1 DEF Execution
<1>3. QED
  BY <1>2

(* What the GPU performs names tensors of cached engines.                  *)
LEMMA GpuStepTyped ==
  ASSUME WorkerInv, GpuStep
  PROVE  /\ TypeOK' /\ executions' \in Seq(Execution)
         /\ DOMAIN memory' = DOMAIN memory
<1>1. PICK o \in Operations :
        /\ Perform(o) /\ Orderly(o)
        /\ \/ /\ stream # <<>> /\ o = Head(stream)
              /\ stream' = Tail(stream) /\ UNCHANGED orphans
           \/ /\ UNCHANGED stream
              /\ orphans' \in [1 .. calls -> Seq(Operations)]
  BY GpuStepPerforms
<1>2. /\ memory' \in Seq(Int) /\ host' \in [Path -> [Name -> Int]]
      /\ executions' \in Seq(Execution) /\ DOMAIN memory' = DOMAIN memory
  BY <1>1, PerformTyped
<1>3. /\ stream' \in Seq(Operations)
      /\ orphans' \in [1 .. calls -> Seq(Operations)]
  BY <1>1, OperationPerformed DEF WorkerInv, TypeOK
<1>4. UNCHANGED <<pc, frame, index, outcome, caches, device, fresh, address>>
  BY DEF GpuStep
<1>5. \A i \in DOMAIN executions' :
        executions'[i].inputs \in [Inputs(executions'[i].path) -> Int]
  BY <1>2, ExecutionTyped
<1>6. QED
  BY <1>2, <1>3, <1>4, <1>5
     DEF WorkerInv, TypeOK, frame, caches, Inputs, Tensors

(* Every step keeps the types.                                             *)
LEMMA TypeStep ==
  ASSUME WorkerInv, [Next]_vars
  PROVE  TypeOK' /\ executions' \in Seq(Execution)
<1>1. TypeOK /\ executions \in Seq(Execution)
  BY DEF WorkerInv
<1>2. /\ path \in Path /\ Tensors(path) \subseteq Name
      /\ calls \in Nat /\ MaxCalls \in Nat /\ index \in Nat
      /\ index + 1 \in Nat \ {0} /\ 1 \in Nat \ {0} /\ Len(memory) \in Nat
  <2>1. /\ calls \in 0 .. MaxCalls /\ index \in Nat \ {0}
        /\ memory \in Seq(Int)
    BY <1>1 DEF TypeOK
  <2>2. path \in Path /\ Tensors(path) \subseteq Name
    BY <1>1, EngineTyped
  <2>3. MaxCalls \in Nat
    BY EngineAssumption
  <2>4. Len(memory) \in Nat
    BY <2>1, LenProperties
  <2>5. QED
    BY <2>1, <2>2, <2>3, <2>4
<1>3. ASSUME NEW t \in Task,
             NEW g \in [InputName -> {"absent", "fits", "mismatched"}],
             Run(t, g)
      PROVE  TypeOK' /\ executions' \in Seq(Execution)
  <2>1. /\ orphans' = Append(orphans, <<>>) /\ calls' = calls + 1
        /\ calls < MaxCalls
    BY <1>3 DEF Run
  <2>2. orphans \in Seq(Seq(Operations)) /\ Len(orphans) = calls
    <3>1. orphans \in [1 .. calls -> Seq(Operations)]
      BY <1>1 DEF TypeOK
    <3>2. orphans \in Seq(Seq(Operations))
      BY <1>2, <3>1, IsASeq
    <3>3. DOMAIN orphans = 1 .. Len(orphans) /\ Len(orphans) \in Nat
      BY <3>2, LenProperties
    <3>4. QED
      BY <1>2, <3>1, <3>2, <3>3
  <2>3. orphans' \in [1 .. calls' -> Seq(Operations)]
    <3>1. <<>> \in Seq(Operations)
      BY EmptySeq
    <3>2. QED
      BY <2>1, <2>2, <3>1, AppendProperties, LenProperties
  <2>4. calls' \in 0 .. MaxCalls
    BY <1>2, <2>1
  <2>5. /\ pc' = "resolve" /\ task' \in Task /\ index' = 1
        /\ given' \in [InputName -> {"absent", "fits", "mismatched"}]
        /\ settled' \in BOOLEAN
        /\ UNCHANGED <<caches, buffers, memory, stream, executions>>
    BY <1>3 DEF Run
  <2>6. QED
    BY <1>1, <1>2, <2>3, <2>4, <2>5
       DEF TypeOK, caches, buffers, Inputs, Tensors
<1>4. ASSUME NEW e, Raise(e), UNCHANGED <<frame, index, executions>>,
             /\ cached' \subseteq described' /\ described' \subseteq contexts'
             /\ contexts' \subseteq engines' /\ engines' \subseteq Path
             /\ host' \in [Path -> [Name -> Int]]
             /\ device' \in [Path -> Addresses] /\ fresh' \in Addresses
             /\ address' \in [Path -> Addresses]
             /\ memory' \in Seq(Int)
      PROVE  TypeOK' /\ executions' \in Seq(Execution)
  <2>1. /\ pc' = "idle" /\ stream' = <<>>
        /\ orphans' \in [1 .. calls -> Seq(Operations)]
    BY <1>1, <1>4, RaiseEffect
  <2>2. stream' \in Seq(Operations)
    BY <2>1, EmptySeq
  <2>3. QED
    BY <1>1, <1>4, <2>1, <2>2 DEF TypeOK, frame, Inputs, Tensors
<1>5. CASE Fails
  <2>1. PICK e : Raise(e)
    BY <1>5 DEF Fails
  <2>2. QED
    BY <1>1, <1>4, <1>5, <2>1 DEF Fails, caches, buffers, TypeOK
<1>6. CASE Resolve \/ LoadEngine
  BY <1>1, <1>2, <1>6
     DEF Resolve, LoadEngine, TypeOK, frame, caches, buffers, streams, Inputs,
         Tensors
<1>7. CASE CreateContext
  <2>1. /\ contexts' = contexts \cup {path} /\ NoAddress \in Addresses
        /\ address' = [address EXCEPT ![path] = NoAddress]
        /\ UNCHANGED <<frame, index, engines, cached, host, device, fresh,
                       memory, executions>>
        /\ path \in engines
    BY <1>7 DEF CreateContext, WorkerInv, CourseInv, NoAddress, Addresses
  <2>2. address' \in [Path -> Addresses]
    BY <1>1, <1>2, <2>1 DEF TypeOK
  <2>3. CASE Inputs(path) # {} /\ Outputs(path) # {}
    <3>1. /\ described' = described \cup {path} /\ pc' = "buffers"
          /\ UNCHANGED <<outcome, streams>>
      BY <1>7, <2>3 DEF CreateContext
    <3>2. QED
      BY <1>1, <1>2, <2>1, <2>2, <3>1
         DEF TypeOK, frame, streams, Inputs, Tensors
  <2>4. CASE ~ (Inputs(path) # {} /\ Outputs(path) # {})
    <3>1. Raise("no_tensors") /\ described' = described
      BY <1>7, <2>4 DEF CreateContext
    <3>2. QED
      BY <1>1, <1>2, <1>4, <2>1, <2>2, <3>1 DEF TypeOK
  <2>5. QED
    BY <2>3, <2>4
<1>8. CASE Buffers
  <2>1. UNCHANGED <<frame, index, caches, buffers, memory, executions>>
    BY <1>8 DEF Buffers
  <2>2. CASE path \notin described /\ path \notin cached
    BY <1>1, <1>4, <1>8, <2>1, <2>2 DEF Buffers, TypeOK, caches, buffers
  <2>3. CASE ~ (path \notin described /\ path \notin cached)
    BY <1>1, <1>8, <2>1, <2>3
       DEF Buffers, TypeOK, frame, caches, buffers, streams, Inputs, Tensors
  <2>4. QED
    BY <2>2, <2>3
<1>9. ASSUME NEW n \in Name, Allocate(n)
      PROVE  /\ memory' \in Seq(Int) /\ fresh' \in Addresses
             /\ Len(memory') \in Nat
             /\ [address EXCEPT ![path][n] = Len(memory')]
                  \in [Path -> Addresses]
  <2>1. memory' = Append(memory, Uninitialized) /\ Uninitialized \in Int
        /\ fresh' = [fresh EXCEPT ![n] = Len(memory')]
    BY <1>9 DEF Allocate, Uninitialized
  <2>2. memory \in Seq(Int)
    BY <1>1 DEF TypeOK
  <2>3. memory' \in Seq(Int) /\ Len(memory') \in Nat
    BY <2>1, <2>2, AppendProperties, LenProperties
  <2>4. QED
    BY <1>1, <1>2, <2>1, <2>3 DEF TypeOK, Addresses
<1>10. ASSUME NEW n \in Name, Bind(n)
       PROVE  TypeOK' /\ executions' \in Seq(Execution)
  <2>1. Allocate(n) /\ address' = [address EXCEPT ![path][n] = Len(memory')]
    BY <1>10 DEF Bind
  <2>2. memory' \in Seq(Int) /\ fresh' \in Addresses
        /\ address' \in [Path -> Addresses]
    BY <1>9, <2>1
  <2>3. QED
    BY <1>1, <1>2, <1>10, <2>2
       DEF Bind, TypeOK, frame, caches, streams, Inputs, Tensors
<1>11. ASSUME NEW n \in Name, BindFails(n)
       PROVE  TypeOK' /\ executions' \in Seq(Execution)
  <2>1. /\ Allocate(n) /\ Raise("not_bound")
        /\ address' \in {address, [address EXCEPT ![path][n] = Len(memory')]}
        /\ UNCHANGED <<frame, index, caches, host, device, executions>>
    BY <1>11 DEF BindFails
  <2>2. memory' \in Seq(Int) /\ fresh' \in Addresses
        /\ address' \in [Path -> Addresses]
    BY <1>1, <1>9, <2>1 DEF TypeOK
  <2>3. QED
    BY <1>1, <1>4, <2>1, <2>2 DEF TypeOK, caches
<1>12. CASE Bound
  <2>1. /\ cached' = cached \cup {path} /\ path \in described
        /\ device' = [device EXCEPT ![path] = fresh]
        /\ host' = [host EXCEPT ![path] = [n \in Name |-> 0]]
        /\ pc' = "populate" /\ index' \in Nat \ {0}
        /\ UNCHANGED <<frame, outcome, engines, contexts, described, fresh,
                       address, memory, streams, executions>>
    BY <1>12 DEF Bound, WorkerInv, CourseInv
  <2>2. host' \in [Path -> [Name -> Int]] /\ device' \in [Path -> Addresses]
    <3>1. /\ host \in [Path -> [Name -> Int]] /\ fresh \in Addresses
          /\ device \in [Path -> Addresses]
      BY <1>1 DEF TypeOK
    <3>2. QED
      BY <1>2, <2>1, <3>1
  <2>3. QED
    BY <1>1, <2>1, <2>2 DEF TypeOK, frame, streams, Inputs, Tensors
<1>13. ASSUME NEW n \in Name, Populate(n)
       PROVE  TypeOK' /\ executions' \in Seq(Execution)
  <2>1. UNCHANGED <<frame, caches, device, fresh, address, memory, executions>>
    BY <1>13 DEF Populate
  <2>2. CASE n \in InputName /\ given[n] = "mismatched"
    BY <1>1, <1>4, <1>13, <2>1, <2>2 DEF Populate, TypeOK, caches
  <2>3. CASE ~ (n \in InputName /\ given[n] = "mismatched")
    <3>1. /\ host' = IF n \in InputName
                       THEN [host EXCEPT ![path][n] =
                               IF given[n] = "fits" THEN calls ELSE 0]
                       ELSE host
          /\ index' = index + 1 /\ UNCHANGED <<pc, outcome, streams>>
      BY <1>13, <2>3 DEF Populate
    <3>2. host' \in [Path -> [Name -> Int]]
      <4>1. host \in [Path -> [Name -> Int]]
        BY <1>1 DEF TypeOK
      <4>2. QED
        BY <1>2, <3>1, <4>1
    <3>3. QED
      BY <1>1, <1>2, <2>1, <3>1, <3>2
         DEF TypeOK, frame, caches, streams, Inputs, Tensors
  <2>4. QED
    BY <2>2, <2>3
<1>14. CASE Populated \/ Return
  <2>1. /\ pc' \in {"idle", "copy in"} /\ index' \in Nat \ {0}
        /\ UNCHANGED <<frame, caches, buffers, memory, streams, executions>>
    <3>1. CASE Populated
      <4>1. pc' = "copy in" /\ index' = 1
            /\ UNCHANGED <<frame, caches, buffers, memory, streams,
                           executions>>
        BY <3>1 DEF Populated
      <4>2. QED
        BY <1>2, <4>1
    <3>2. CASE Return
      BY <1>1, <3>2 DEF Return, TypeOK
    <3>3. QED
      BY <1>14, <3>1, <3>2
  <2>2. QED
    BY <1>1, <2>1
       DEF TypeOK, frame, caches, buffers, streams, Inputs, Tensors
<1>15. ASSUME NEW n \in Name, CopyIn(n) \/ CopyOut(n)
       PROVE  TypeOK' /\ executions' \in Seq(Execution)
  <2>1. \E o \in Operations : \E names : Copies(n, names, o)
    <3>1. CASE CopyIn(n)
      <4>1. host[path][n] \in Int
        BY <1>1, <1>2 DEF TypeOK
      <4>2. [op |-> "htod", path |-> path, name |-> n, value |-> host[path][n]]
              \in Operations
        BY <1>2, <4>1 DEF Operations
      <4>3. QED
        BY <3>1, <4>2 DEF CopyIn
    <3>2. CASE CopyOut(n)
      <4>1. [op |-> "dtoh", path |-> path, name |-> n] \in Operations
        BY <1>2 DEF Operations
      <4>2. QED
        BY <3>2, <4>1 DEF CopyOut
    <3>3. QED
      BY <1>15, <3>1, <3>2
  <2>2. PICK o \in Operations : \E names : Copies(n, names, o)
    BY <2>1
  <2>3. stream' \in Seq(Operations)
    BY <1>1, <2>1, <2>2, OperationSubmitted DEF Copies, TypeOK
  <2>4. QED
    BY <1>1, <1>2, <2>1, <2>3
       DEF Copies, TypeOK, frame, caches, buffers, Inputs, Tensors
<1>16. CASE Execute
  <2>1. [op |-> "execute", path |-> path] \in Operations
    BY <1>2 DEF Operations
  <2>2. stream' \in Seq(Operations)
    BY <1>1, <1>16, <2>1, OperationSubmitted DEF Execute
  <2>3. /\ pc' = "copy out" /\ index' = 1
        /\ UNCHANGED <<frame, outcome, caches, buffers, memory, orphans,
                       executions>>
    BY <1>16 DEF Execute
  <2>4. QED
    BY <1>1, <1>2, <2>2, <2>3
       DEF TypeOK, frame, caches, buffers, Inputs, Tensors
<1>17. CASE ExecuteFails
  BY <1>1, <1>4, <1>17 DEF ExecuteFails, TypeOK, caches, buffers
<1>18. CASE GpuStep
  BY <1>18, GpuStepTyped
<1>19. CASE UNCHANGED vars
  BY <1>1, <1>19
     DEF vars, TypeOK, frame, caches, buffers, streams, Inputs, Tensors
<1>20. QED
  BY <1>3, <1>5, <1>6, <1>7, <1>8, <1>10, <1>11, <1>12, <1>13, <1>14, <1>15,
     <1>16, <1>17, <1>18, <1>19 DEF Next

-----------------------------------------------------------------------------
(***************************************************************************)
(* The caches.                                                             *)
(***************************************************************************)
(* Each statement finds in the caches what the statements before it have   *)
(* put there.                                                              *)
LEMMA CourseStep ==
  ASSUME WorkerInv, [Next]_vars
  PROVE  CourseInv'
<1>1. /\ CourseInv /\ cached \subseteq described
      /\ described \subseteq contexts /\ contexts \subseteq engines
  BY DEF WorkerInv, TypeOK
<1>2. \A p : Inputs(p)' = Inputs(p) /\ Outputs(p)' = Outputs(p)
  BY DEF Inputs, Outputs, Tensors
<1>3. ASSUME pc' = "idle", UNCHANGED described
      PROVE  CourseInv'
  BY <1>1, <1>2, <1>3 DEF CourseInv, Copying
<1>4. ASSUME NEW t \in Task,
             NEW g \in [InputName -> {"absent", "fits", "mismatched"}],
             Run(t, g)
      PROVE  CourseInv'
  BY <1>1, <1>2, <1>4 DEF Run, CourseInv, Copying, caches
<1>5. CASE Fails
  BY <1>3, <1>5 DEF Fails, Raise, caches
<1>6. CASE Resolve
  BY <1>1, <1>2, <1>6 DEF Resolve, CourseInv, Copying, caches, frame, path
<1>7. CASE LoadEngine
  BY <1>1, <1>2, <1>7 DEF LoadEngine, CourseInv, Copying, frame, path
<1>8. CASE CreateContext
  <2>1. CASE Inputs(path) # {} /\ Outputs(path) # {}
    BY <1>1, <1>2, <1>8, <2>1
       DEF CreateContext, CourseInv, Copying, frame, path
  <2>2. CASE ~ (Inputs(path) # {} /\ Outputs(path) # {})
    BY <1>3, <1>8, <2>2 DEF CreateContext, Raise
  <2>3. QED
    BY <2>1, <2>2
<1>9. CASE Buffers
  <2>1. CASE path \notin described /\ path \notin cached
    BY <1>3, <1>9, <2>1 DEF Buffers, Raise, caches
  <2>2. CASE ~ (path \notin described /\ path \notin cached)
    BY <1>1, <1>2, <1>9, <2>2
       DEF Buffers, CourseInv, Copying, frame, caches, path
  <2>3. QED
    BY <2>1, <2>2
<1>10. ASSUME NEW n \in Name, Bind(n)
       PROVE  CourseInv'
  <2>1. pc = "bind" /\ UNCHANGED <<pc, frame, caches>>
    BY <1>10 DEF Bind, Allocate
  <2>2. QED
    BY <1>1, <1>2, <2>1 DEF CourseInv, Copying, frame, caches, path
<1>11. ASSUME NEW n \in Name, BindFails(n)
       PROVE  CourseInv'
  BY <1>3, <1>11 DEF BindFails, Raise, caches
<1>12. CASE Bound
  BY <1>1, <1>2, <1>12 DEF Bound, CourseInv, Copying, frame, path
<1>13. ASSUME NEW n \in Name, Populate(n)
       PROVE  CourseInv'
  <2>1. CASE n \in InputName /\ given[n] = "mismatched"
    BY <1>3, <1>13, <2>1 DEF Populate, Raise, caches
  <2>2. CASE ~ (n \in InputName /\ given[n] = "mismatched")
    BY <1>1, <1>2, <1>13, <2>2
       DEF Populate, CourseInv, Copying, frame, caches, path
  <2>3. QED
    BY <2>1, <2>2
<1>14. CASE Populated \/ Execute
  BY <1>1, <1>2, <1>14
     DEF Populated, Execute, CourseInv, Copying, frame, caches, path
<1>15. ASSUME NEW n \in Name, CopyIn(n) \/ CopyOut(n)
       PROVE  CourseInv'
  BY <1>1, <1>2, <1>15
     DEF CopyIn, CopyOut, Copies, CourseInv, Copying, frame, caches, path
<1>16. CASE ExecuteFails \/ Return
  BY <1>3, <1>16 DEF ExecuteFails, Return, Raise, caches
<1>17. CASE GpuStep
  BY <1>1, <1>2, <1>17 DEF GpuStep, CourseInv, Copying, frame, caches, path
<1>18. CASE UNCHANGED vars
  BY <1>1, <1>2, <1>18 DEF vars, CourseInv, Copying, frame, caches, path
<1>19. QED
  BY <1>4, <1>5, <1>6, <1>7, <1>8, <1>9, <1>10, <1>11, <1>12, <1>13, <1>14,
     <1>15, <1>16, <1>17, <1>18 DEF Next

(* Nothing that is allocated is given up by an engine that has it in its   *)
(* cached buffers.                                                         *)
LEMMA CacheKept ==
  ASSUME WorkerInv, UNCHANGED <<cached, device>>,
         \A p \in cached : address'[p] = address[p],
         DOMAIN memory \subseteq DOMAIN memory'
  PROVE  CacheInv'
<1>1. \A p : Tensors(p)' = Tensors(p)
  BY DEF Tensors
<1>2. QED
  BY <1>1 DEF WorkerInv, CacheInv

(* A tensor is allocated where nothing is.                                 *)
LEMMA AllocateEffect ==
  ASSUME WorkerInv, NEW n \in Name, Allocate(n)
  PROVE  /\ Len(memory') = Len(memory) + 1 /\ Len(memory) \in Nat
         /\ DOMAIN memory' = 1 .. Len(memory) + 1
         /\ DOMAIN memory = 1 .. Len(memory)
         /\ fresh' = [fresh EXCEPT ![n] = Len(memory) + 1]
         /\ path \in described /\ path \notin cached /\ n \in Tensors(path)
<1>1. /\ memory' = Append(memory, Uninitialized) /\ Uninitialized \in Int
      /\ fresh' = [fresh EXCEPT ![n] = Len(memory')]
  BY DEF Allocate, Uninitialized
<1>2. memory \in Seq(Int)
  BY DEF WorkerInv, TypeOK
<1>3. /\ Len(memory') = Len(memory) + 1 /\ memory' \in Seq(Int)
  BY <1>1, <1>2, AppendProperties
<1>4. /\ DOMAIN memory' = 1 .. Len(memory') /\ DOMAIN memory = 1 .. Len(memory)
      /\ Len(memory) \in Nat
  BY <1>2, <1>3, LenProperties
<1>5. path \in described /\ path \notin cached
  BY DEF Allocate, WorkerInv, CourseInv
<1>6. n \in Tensors(path)
  <2>1. /\ index \in Nat \ {0} /\ index <= Len(IoTensors[path])
        /\ n = IoTensors[path][index]
    BY DEF Allocate, WorkerInv, TypeOK
  <2>2. IoTensors[path] \in Seq(Name)
    BY EngineTyped DEF WorkerInv
  <2>3. index \in DOMAIN IoTensors[path]
    BY <2>1, <2>2, LenProperties
  <2>4. QED
    BY <2>1, <2>3 DEF Tensors, Range
<1>7. QED
  BY <1>1, <1>3, <1>4, <1>5, <1>6

(* Cached buffers stay bound, and new ones are bound before they are       *)
(* cached.                                                                 *)
LEMMA CacheStep ==
  ASSUME WorkerInv, [Next]_vars
  PROVE  CacheInv'
<1>1. /\ CacheInv /\ cached \subseteq contexts /\ cached \subseteq Path
      /\ path \in Path /\ address \in [Path -> Addresses]
  BY EngineTyped DEF WorkerInv, TypeOK
<1>2. CASE /\ UNCHANGED <<cached, device, address>>
           /\ DOMAIN memory' = DOMAIN memory
  BY <1>2, CacheKept
<1>3. CASE CreateContext
  <2>1. /\ pc = "context" /\ path \notin contexts
        /\ address' = [address EXCEPT ![path] = NoAddress]
        /\ UNCHANGED <<cached, device, memory>>
    BY <1>3 DEF CreateContext, WorkerInv, CourseInv
  <2>2. \A p \in cached : address'[p] = address[p]
    BY <1>1, <2>1
  <2>3. QED
    BY <2>1, <2>2, CacheKept
<1>4. ASSUME NEW n \in Name, Bind(n) \/ BindFails(n)
      PROVE  CacheInv'
  <2>1. /\ Allocate(n) /\ UNCHANGED <<cached, device>>
        /\ address' \in {address, [address EXCEPT ![path][n] = Len(memory')]}
    BY <1>4 DEF Bind, BindFails, caches
  <2>2. DOMAIN memory \subseteq DOMAIN memory' /\ path \notin cached
    BY <2>1, AllocateEffect
  <2>3. \A p \in cached : address'[p] = address[p]
    BY <1>1, <2>1, <2>2
  <2>4. QED
    BY <2>1, <2>2, <2>3, CacheKept
<1>5. CASE Bound
  <2>1. /\ pc = "bind" /\ index > Len(IoTensors[path])
        /\ cached' = cached \cup {path} /\ path \notin cached
        /\ device' = [device EXCEPT ![path] = fresh]
        /\ UNCHANGED <<task, address, memory>>
    BY <1>5 DEF Bound, frame, WorkerInv, CourseInv
  <2>2. Passed = Tensors(path)
    BY <2>1, LoopOfTensors DEF WorkerInv
  <2>3. /\ device'[path] = fresh
        /\ \A p \in cached : p # path /\ device'[p] = device[p]
    <3>1. device \in [Path -> Addresses]
      BY DEF WorkerInv, TypeOK
    <3>2. QED
      BY <1>1, <2>1, <3>1
  <2>4. \A n \in Tensors(path) :
          /\ fresh[n] \in DOMAIN memory
          /\ address[path][n] = fresh[n]
          /\ \A m \in Tensors(path) : fresh[m] = fresh[n] => m = n
          /\ \A q \in cached : \A m \in Tensors(q) : device[q][m] # fresh[n]
    BY <2>1, <2>2 DEF WorkerInv, BindInv
  <2>5. \A p : Tensors(p)' = Tensors(p)
    BY DEF Tensors
  <2>6. QED
    BY <1>1, <2>1, <2>3, <2>4, <2>5 DEF CacheInv
<1>6. CASE GpuStep
  BY <1>2, <1>6, GpuStepTyped DEF GpuStep, caches
<1>7. CASE UNCHANGED vars
  BY <1>2, <1>7 DEF vars, caches, buffers
<1>8. CASE Fails \/ Resolve \/ LoadEngine \/ Buffers \/ Populated \/ Execute
             \/ ExecuteFails \/ Return
  BY <1>2, <1>8
     DEF Fails, Resolve, LoadEngine, Buffers, Populated, Execute,
         ExecuteFails, Return, caches, buffers
<1>9. ASSUME NEW t \in Task,
             NEW g \in [InputName -> {"absent", "fits", "mismatched"}],
             Run(t, g)
      PROVE  CacheInv'
  BY <1>2, <1>9 DEF Run, caches, buffers
<1>10. ASSUME NEW n \in Name, Populate(n) \/ CopyIn(n) \/ CopyOut(n)
       PROVE  CacheInv'
  BY <1>2, <1>10 DEF Populate, CopyIn, CopyOut, Copies, caches, buffers
<1>11. QED
  BY <1>3, <1>4, <1>5, <1>6, <1>7, <1>8, <1>9, <1>10 DEF Next

(* While tensors are bound, each of them has an allocation of its own.     *)
LEMMA BindStep ==
  ASSUME WorkerInv, [Next]_vars
  PROVE  BindInv'
<1>1. TypeOK /\ CourseInv /\ BindInv /\ CacheInv
  BY DEF WorkerInv
<1>2. \A p : Tensors(p)' = Tensors(p)
  BY DEF Tensors
<1>3. CASE pc' # "bind"
  BY <1>3 DEF BindInv
<1>4. CASE /\ UNCHANGED <<pc, task, index, cached, device, fresh, address>>
           /\ DOMAIN memory' = DOMAIN memory
  <2>1. Passed' = Passed /\ path' = path
    BY <1>1, <1>4, LoopOfTensors DEF path
  <2>2. QED
    BY <1>1, <1>2, <1>4, <2>1 DEF BindInv
<1>5. CASE Buffers
  <2>1. index = 1 /\ UNCHANGED <<task, index>>
    BY <1>1, <1>5 DEF Buffers, CourseInv, frame
  <2>2. Passed' = {}
    BY <1>1, <2>1, LoopOfTensors
  <2>3. QED
    BY <2>2 DEF BindInv
<1>6. ASSUME NEW n \in Name, Bind(n)
      PROVE  BindInv'
  <2>1. /\ Allocate(n) /\ pc = "bind" /\ index <= Len(IoTensors[path])
        /\ n = IoTensors[path][index] /\ index' = index + 1
        /\ address' = [address EXCEPT ![path][n] = Len(memory')]
        /\ UNCHANGED <<task, cached, device>>
    BY <1>6 DEF Bind, Allocate, frame, caches
  <2>2. /\ Len(memory') = Len(memory) + 1 /\ Len(memory) \in Nat
        /\ DOMAIN memory' = 1 .. Len(memory) + 1
        /\ DOMAIN memory = 1 .. Len(memory)
        /\ fresh' = [fresh EXCEPT ![n] = Len(memory) + 1]
    BY <2>1, AllocateEffect
  <2>3. /\ Passed' = Passed \cup {n} /\ path' = path /\ path \in Path
        /\ Passed \subseteq Name
    BY <1>1, <2>1, LoopOfTensors, EngineTyped DEF path
  <2>4. fresh \in [Name -> Nat] /\ address \in [Path -> [Name -> Nat]]
    BY <1>1 DEF TypeOK, Addresses
  <2>5. /\ fresh'[n] = Len(memory) + 1 /\ address'[path][n] = Len(memory) + 1
        /\ \A m \in Name : m # n => /\ fresh'[m] = fresh[m]
                                    /\ address'[path][m] = address[path][m]
    BY <2>1, <2>2, <2>3, <2>4
  <2>6. \A m \in Passed : /\ fresh[m] \in 1 .. Len(memory)
                          /\ address[path][m] = fresh[m]
    BY <1>1, <2>1, <2>2 DEF BindInv
  <2>7. \A q \in cached : \A m \in Tensors(q) :
          device[q][m] \in 1 .. Len(memory)
    BY <1>1, <2>2 DEF CacheInv
  <2>8. \A m \in Passed' :
          /\ fresh'[m] \in DOMAIN memory'
          /\ address'[path][m] = fresh'[m]
    BY <2>2, <2>3, <2>5, <2>6
  <2>9. ASSUME NEW m \in Passed', NEW k \in Passed', fresh'[k] = fresh'[m]
        PROVE  k = m
    <3>1. CASE m # n /\ k # n
      BY <1>1, <2>1, <2>3, <2>5, <2>9, <3>1 DEF BindInv
    <3>2. QED
      BY <2>2, <2>3, <2>5, <2>6, <2>9, <3>1
  <2>10. ASSUME NEW m \in Passed', NEW q \in cached, NEW k \in Tensors(q)
         PROVE  device[q][k] # fresh'[m]
    <3>1. CASE m # n
      BY <1>1, <2>1, <2>3, <2>5, <3>1 DEF BindInv
    <3>2. CASE m = n
      BY <2>2, <2>5, <2>7, <3>2
    <3>3. QED
      BY <3>1, <3>2
  <2>11. QED
    BY <1>2, <2>1, <2>3, <2>8, <2>9, <2>10 DEF BindInv
<1>7. CASE GpuStep
  BY <1>4, <1>7, GpuStepTyped DEF GpuStep, frame, caches
<1>8. CASE UNCHANGED vars
  BY <1>4, <1>8 DEF vars, frame, caches, buffers
<1>9. CASE Fails \/ Resolve \/ LoadEngine \/ CreateContext \/ Bound
             \/ Populated \/ Execute \/ ExecuteFails \/ Return
  BY <1>3, <1>9
     DEF Fails, Resolve, LoadEngine, CreateContext, Bound, Populated, Execute,
         ExecuteFails, Return, Raise
<1>10. ASSUME NEW n \in Name,
              BindFails(n) \/ Populate(n) \/ CopyIn(n) \/ CopyOut(n)
       PROVE  BindInv'
  BY <1>3, <1>10 DEF BindFails, Populate, CopyIn, CopyOut, Copies, Raise
<1>11. ASSUME NEW t \in Task,
              NEW g \in [InputName -> {"absent", "fits", "mismatched"}],
              Run(t, g)
       PROVE  BindInv'
  BY <1>3, <1>11 DEF Run
<1>12. QED
  BY <1>5, <1>6, <1>7, <1>8, <1>9, <1>10, <1>11 DEF Next

-----------------------------------------------------------------------------
(***************************************************************************)
(* What is copied.                                                         *)
(***************************************************************************)
(* The GPU never writes the host array of an input.                        *)
LEMMA GpuKeepsInputs ==
  ASSUME WorkerInv, GpuStep
  PROVE  \A m \in Inputs(path) : host'[path][m] = host[path][m]
<1>1. PICK o \in Operations : Perform(o) /\ Orderly(o)
  BY GpuStepPerforms
<1>2. CASE UNCHANGED host
  BY <1>2
<1>3. CASE o.op = "dtoh"
  <2>1. host' = [host EXCEPT ![o.path][o.name] =
                   memory[device[o.path][o.name]]]
    BY <1>1, <1>3 DEF Perform
  <2>2. o.path \in Path /\ o.name \in Outputs(o.path)
    BY <1>1, <1>3, EngineTyped DEF WorkerInv, Orderly
  <2>3. \A m \in Inputs(path) : o.path = path => m # o.name
    BY <2>2, EngineTyped DEF WorkerInv
  <2>4. host \in [Path -> [Name -> Int]] /\ path \in Path
        /\ Inputs(path) \subseteq Name
    BY EngineTyped DEF WorkerInv, TypeOK
  <2>5. QED
    BY <2>1, <2>2, <2>3, <2>4
<1>4. QED
  BY <1>1, <1>2, <1>3 DEF Perform

(* The host array of an input holds what is wanted from the time that the  *)
(* loop has passed it to the end of the call.                              *)
LEMMA HostStep ==
  ASSUME WorkerInv, [Next]_vars
  PROVE  HostInv'
<1>1. TypeOK /\ CourseInv /\ HostInv
  BY DEF WorkerInv
<1>2. \A p : Inputs(p)' = Inputs(p)
  BY DEF Inputs, Tensors
<1>3. CASE pc' \notin {"populate", "copy in", "copy out"}
  BY <1>3 DEF HostInv, Copying
<1>4. CASE pc' = "populate" /\ index' = 1 /\ task' = task
  <2>1. Passed' = {}
    BY <1>1, <1>4, LoopOfTensors
  <2>2. QED
    BY <1>4, <2>1 DEF HostInv, Copying
<1>5. CASE /\ UNCHANGED <<pc, frame, index>>
           /\ \A m \in Inputs(path) : host'[path][m] = host[path][m]
  <2>1. Passed' = Passed /\ path' = path
    BY <1>1, <1>5, LoopOfTensors DEF path, frame
  <2>2. \A m : Wanted(m)' = Wanted(m)
    BY <1>5 DEF Wanted, frame
  <2>3. QED
    BY <1>1, <1>2, <1>5, <2>1, <2>2 DEF HostInv, Copying
<1>6. CASE Copying /\ Copying' /\ UNCHANGED <<frame, host>>
  <2>1. path' = path /\ \A m : Wanted(m)' = Wanted(m)
    BY <1>6 DEF path, frame, Wanted
  <2>2. QED
    BY <1>1, <1>2, <1>6, <2>1 DEF HostInv
<1>7. CASE Buffers
  <2>1. index = 1 /\ UNCHANGED <<task, index>>
    BY <1>1, <1>7 DEF Buffers, CourseInv, frame
  <2>2. QED
    BY <1>3, <1>4, <1>7, <2>1 DEF Buffers, Raise
<1>8. CASE Bound
  BY <1>4, <1>8 DEF Bound, frame
<1>9. ASSUME NEW n \in Name, Populate(n)
      PROVE  HostInv'
  <2>1. CASE n \in InputName /\ given[n] = "mismatched"
    BY <1>3, <1>9, <2>1 DEF Populate, Raise
  <2>2. CASE ~ (n \in InputName /\ given[n] = "mismatched")
    <3>1. /\ pc = "populate" /\ index <= Len(IoTensors[path])
          /\ n = IoTensors[path][index]
          /\ host' = IF n \in InputName
                       THEN [host EXCEPT ![path][n] = Wanted(n)]
                       ELSE host
          /\ index' = index + 1 /\ UNCHANGED <<pc, frame>>
      BY <1>9, <2>2 DEF Populate, Wanted
    <3>2. /\ Passed' = Passed \cup {n} /\ path' = path /\ path \in Path
          /\ \A m : Wanted(m)' = Wanted(m)
      BY <1>1, <3>1, LoopOfTensors, EngineTyped DEF path, frame, Wanted
    <3>3. \A m \in Inputs(path) :
            host'[path][m] = IF m = n THEN Wanted(n) ELSE host[path][m]
      <4>1. host \in [Path -> [Name -> Int]]
            /\ Inputs(path) \subseteq Name /\ Inputs(path) \subseteq InputName
        BY <1>1, EngineTyped DEF TypeOK
      <4>2. QED
        BY <3>1, <3>2, <4>1
    <3>4. QED
      BY <1>1, <1>2, <3>1, <3>2, <3>3 DEF HostInv, Copying
  <2>3. QED
    BY <2>1, <2>2
<1>10. CASE Populated
  <2>1. /\ pc = "populate" /\ index > Len(IoTensors[path])
        /\ UNCHANGED <<frame, host>>
    BY <1>10 DEF Populated, buffers
  <2>2. Passed = Tensors(path)
    BY <1>1, <2>1, LoopOfTensors DEF frame
  <2>3. path' = path /\ \A m : Wanted(m)' = Wanted(m)
    BY <2>1 DEF path, frame, Wanted
  <2>4. QED
    BY <1>1, <1>2, <2>1, <2>2, <2>3 DEF HostInv, Inputs
<1>11. CASE Execute
  BY <1>6, <1>11 DEF Execute, Copying, buffers
<1>12. ASSUME NEW n \in Name, CopyIn(n) \/ CopyOut(n)
       PROVE  HostInv'
  BY <1>6, <1>12 DEF CopyIn, CopyOut, Copies, Copying, buffers
<1>13. CASE GpuStep
  BY <1>5, <1>13, GpuKeepsInputs DEF GpuStep
<1>14. CASE UNCHANGED vars
  BY <1>5, <1>14 DEF vars, buffers
<1>15. CASE Fails \/ Resolve \/ LoadEngine \/ CreateContext \/ ExecuteFails
              \/ Return
  BY <1>3, <1>15
     DEF Fails, Resolve, LoadEngine, CreateContext, ExecuteFails, Return, Raise
<1>16. ASSUME NEW n \in Name, Bind(n) \/ BindFails(n)
       PROVE  HostInv'
  BY <1>3, <1>16 DEF Bind, BindFails, Allocate, Raise
<1>17. ASSUME NEW t \in Task,
              NEW g \in [InputName -> {"absent", "fits", "mismatched"}],
              Run(t, g)
       PROVE  HostInv'
  BY <1>3, <1>17 DEF Run
<1>18. QED
  BY <1>7, <1>8, <1>9, <1>10, <1>11, <1>12, <1>13, <1>14, <1>15, <1>16, <1>17
     DEF Next

(* What a call that fails has put on its stream is of its engine, and a    *)
(* call is settled when nothing of its own is left.                        *)
LEMMA OrphansStep ==
  ASSUME WorkerInv, [Next]_vars
  PROVE  OrphansInv' /\ SettledInv'
<1>1. /\ TypeOK /\ CourseInv /\ OrphansInv /\ SettledInv /\ StreamInv
      /\ orphans \in [1 .. calls -> Seq(Operations)]
  BY DEF WorkerInv, TypeOK
<1>2. cached \subseteq cached' => \A o : Orderly(o) => Orderly(o)'
  BY DEF Orderly, Inputs, Outputs, Tensors
<1>3. CASE /\ UNCHANGED <<orphans, frame>> /\ cached \subseteq cached'
           /\ pc # "idle" \/ UNCHANGED <<pc, outcome>>
  BY <1>1, <1>2, <1>3 DEF OrphansInv, SettledInv, frame, path
<1>4. ASSUME NEW e, Raise(e), e # "ok", UNCHANGED cached
      PROVE  OrphansInv' /\ SettledInv'
  <2>1. /\ DOMAIN orphans' = 1 .. calls
        /\ \A c \in 1 .. calls :
             orphans'[c] = IF c = calls THEN stream ELSE orphans[c]
        /\ pc' = "idle" /\ outcome' = e
    BY <1>1, <1>4, RaiseEffect
  <2>2. \A i \in DOMAIN stream : Orderly(stream[i])
    <3>1. CASE Copying
      BY <1>1, <3>1 DEF StreamInv, CourseInv, Orderly
    <3>2. CASE ~ Copying
      BY <1>1, <3>2 DEF StreamInv
    <3>3. QED
      BY <3>1, <3>2
  <2>3. OrphansInv'
    BY <1>1, <1>2, <1>4, <2>1, <2>2 DEF OrphansInv
  <2>4. SettledInv'
    BY <1>4, <2>1 DEF SettledInv
  <2>5. QED
    BY <2>3, <2>4
<1>5. ASSUME NEW t \in Task,
             NEW g \in [InputName -> {"absent", "fits", "mismatched"}],
             Run(t, g)
      PROVE  OrphansInv' /\ SettledInv'
  <2>1. orphans' = Append(orphans, <<>>) /\ UNCHANGED cached
    BY <1>5 DEF Run, caches
  <2>2. orphans \in Seq(Seq(Operations)) /\ <<>> \in Seq(Operations)
    <3>1. calls \in 0 .. MaxCalls /\ MaxCalls \in Nat
      BY <1>1, EngineAssumption DEF TypeOK
    <3>2. calls \in Nat
      BY <3>1
    <3>3. QED
      BY <1>1, <3>2, IsASeq, EmptySeq
  <2>3. /\ DOMAIN orphans = 1 .. Len(orphans) /\ Len(orphans) \in Nat
        /\ DOMAIN orphans' = 1 .. Len(orphans) + 1
        /\ orphans'[Len(orphans) + 1] = <<>>
        /\ \A c \in 1 .. Len(orphans) : orphans'[c] = orphans[c]
    BY <2>1, <2>2, AppendProperties, LenProperties
  <2>4. OrphansInv'
    BY <1>1, <1>2, <2>1, <2>3 DEF OrphansInv
  <2>5. settled' => \A c \in DOMAIN orphans : \A i \in DOMAIN orphans[c] :
          orphans[c][i].path # path'
    BY <1>5 DEF Run, Range, path
  <2>6. SettledInv'
    BY <2>3, <2>5 DEF SettledInv
  <2>7. QED
    BY <2>4, <2>6
<1>6. CASE Fails
  <2>1. \/ Raise("no_engine_file") \/ Raise("not_deserialized")
        \/ Raise("no_context") \/ Raise("unsupported")
        \/ Raise("not_copied") \/ Raise("not_synchronized")
    BY <1>6, Zenon DEF Fails
  <2>2. UNCHANGED cached
    BY <1>6 DEF Fails, caches
  <2>3. QED
    BY <1>4, <2>1, <2>2
<1>7. CASE Resolve \/ LoadEngine \/ Bound \/ Populated \/ Execute
  BY <1>3, <1>7
     DEF Resolve, LoadEngine, Bound, Populated, Execute, caches, streams
<1>8. CASE CreateContext
  <2>1. CASE Inputs(path) # {} /\ Outputs(path) # {}
    BY <1>3, <1>8, <2>1 DEF CreateContext, streams
  <2>2. CASE ~ (Inputs(path) # {} /\ Outputs(path) # {})
    BY <1>4, <1>8, <2>2 DEF CreateContext
  <2>3. QED
    BY <2>1, <2>2
<1>9. CASE Buffers
  <2>1. CASE path \notin described /\ path \notin cached
    BY <1>4, <1>9, <2>1 DEF Buffers, caches
  <2>2. CASE ~ (path \notin described /\ path \notin cached)
    BY <1>3, <1>9, <2>2 DEF Buffers, caches, streams
  <2>3. QED
    BY <2>1, <2>2
<1>10. ASSUME NEW n \in Name, Bind(n)
       PROVE  OrphansInv' /\ SettledInv'
  BY <1>3, <1>10 DEF Bind, Allocate, caches, streams
<1>11. ASSUME NEW n \in Name, BindFails(n)
       PROVE  OrphansInv' /\ SettledInv'
  BY <1>4, <1>11 DEF BindFails, caches
<1>12. ASSUME NEW n \in Name, Populate(n)
       PROVE  OrphansInv' /\ SettledInv'
  <2>1. CASE n \in InputName /\ given[n] = "mismatched"
    BY <1>4, <1>12, <2>1 DEF Populate, caches
  <2>2. CASE ~ (n \in InputName /\ given[n] = "mismatched")
    BY <1>3, <1>12, <2>2 DEF Populate, caches, streams
  <2>3. QED
    BY <2>1, <2>2
<1>13. ASSUME NEW n \in Name, CopyIn(n) \/ CopyOut(n)
       PROVE  OrphansInv' /\ SettledInv'
  BY <1>3, <1>13 DEF CopyIn, CopyOut, Copies, caches
<1>14. CASE ExecuteFails
  BY <1>4, <1>14 DEF ExecuteFails, caches
<1>15. CASE Return
  BY <1>3, <1>15 DEF Return, caches, streams
<1>16. CASE GpuStep
  BY <1>3, <1>16, GpuStepPerforms DEF GpuStep, caches
<1>17. CASE UNCHANGED vars
  BY <1>3, <1>17 DEF vars, caches, streams
<1>18. QED
  BY <1>5, <1>6, <1>7, <1>8, <1>9, <1>10, <1>11, <1>12, <1>13, <1>14, <1>15,
     <1>16, <1>17 DEF Next

-----------------------------------------------------------------------------
(***************************************************************************)
(* The stream of the call.                                                 *)
(***************************************************************************)
(* What the GPU performs leaves the order of the others: a copy to an      *)
(* input is followed by the execution.                                     *)
LEMMA StreamPerformed ==
  ASSUME WorkerInv, stream # <<>>, stream' = Tail(stream),
         UNCHANGED <<pc, frame>>
  PROVE  /\ Len(stream) \in Nat /\ DOMAIN stream = 1 .. Len(stream)
         /\ DOMAIN stream' = 1 .. Len(stream) - 1
         /\ \A i \in DOMAIN stream' : i + 1 \in DOMAIN stream
                                      /\ stream'[i] = stream[i + 1]
         /\ path' = path /\ Copying'
         /\ Head(stream).op = "htod" => Unexecuted /\ Unexecuted'
         /\ Head(stream).op # "htod" =>
              /\ ~ Unexecuted'
              /\ \A i \in DOMAIN stream' : stream'[i].op = "dtoh"
         /\ Unexecuted => Head(stream).op # "dtoh"
         /\ Unexecuted' => Unexecuted
         /\ StreamInv'
<1>1. /\ stream \in Seq(Operations) /\ StreamInv
  BY DEF WorkerInv, TypeOK
<1>2. /\ Len(stream) \in Nat /\ DOMAIN stream = 1 .. Len(stream)
      /\ Head(stream) = stream[1] /\ 1 \in DOMAIN stream
      /\ DOMAIN stream' = 1 .. Len(stream) - 1
      /\ \A i \in DOMAIN stream' : i + 1 \in DOMAIN stream
                                   /\ stream'[i] = stream[i + 1]
  BY <1>1, OperationPerformed
<1>3. /\ path' = path /\ Copying /\ Copying'
      /\ \A m : Wanted(m)' = Wanted(m)
  BY HeadOfStream DEF path, frame, Copying, Wanted
<1>4. \/ stream[1].op = "htod" /\ Unexecuted
      \/ stream[1].op = "execute" /\ pc = "copy out"
      \/ stream[1].op = "dtoh" /\ pc = "copy out"
  BY <1>1, <1>2 DEF StreamInv
<1>5. stream[1].op # "htod" =>
        \A i \in DOMAIN stream' : stream'[i].op = "dtoh"
  <2> SUFFICES ASSUME stream[1].op # "htod", NEW i \in DOMAIN stream'
               PROVE  stream'[i].op = "dtoh"
    OBVIOUS
  <2>1. i + 1 \in DOMAIN stream /\ i + 1 > 1
    BY <1>2
  <2>2. QED
    BY <1>1, <1>2, <1>4, <2>1 DEF StreamInv
<1>6. stream[1].op # "execute" /\ Unexecuted => Unexecuted'
  <2>1. CASE pc = "copy in"
    BY <2>1 DEF Unexecuted
  <2>2. ASSUME NEW i \in DOMAIN stream, stream[i].op = "execute",
               stream[1].op # "execute"
        PROVE  Unexecuted'
    <3>1. i - 1 \in DOMAIN stream' /\ stream'[i - 1] = stream[i]
      BY <1>2, <2>2
    <3>2. QED
      BY <2>2, <3>1 DEF Unexecuted
  <2>3. QED
    BY <2>1, <2>2 DEF Unexecuted
<1>7. Unexecuted' => Unexecuted
  BY <1>2 DEF Unexecuted
<1>8. Unexecuted => stream[1].op # "dtoh"
  <2>1. ASSUME stream[1].op = "dtoh", NEW i \in DOMAIN stream,
               stream[i].op = "execute"
        PROVE  FALSE
    <3>1. i # 1
      BY <2>1
    <3>2. i > 1
      BY <1>2, <2>1, <3>1
    <3>3. QED
      BY <1>1, <1>2, <2>1, <3>2 DEF StreamInv
  <2>2. QED
    BY <1>4, <2>1 DEF Unexecuted
<1>9. stream[1].op # "htod" => ~ Unexecuted'
  BY <1>4, <1>5 DEF Unexecuted
<1>10. StreamInv'
  <2>1. ASSUME NEW i \in DOMAIN stream'
        PROVE  LET o == stream'[i]
               IN  /\ o.path = path
                   /\ \/ /\ o.op = "htod" /\ o.name \in Inputs(path)
                         /\ o.value = Wanted(o.name) /\ Unexecuted'
                      \/ o.op = "execute" /\ pc = "copy out"
                      \/ /\ o.op = "dtoh" /\ o.name \in Outputs(path)
                         /\ pc = "copy out"
    <3>1. i + 1 \in DOMAIN stream /\ stream'[i] = stream[i + 1]
      BY <1>2, <2>1
    <3>2. LET o == stream[i + 1]
          IN  /\ o.path = path
              /\ \/ /\ o.op = "htod" /\ o.name \in Inputs(path)
                    /\ o.value = Wanted(o.name) /\ Unexecuted
                 \/ o.op = "execute" /\ pc = "copy out"
                 \/ o.op = "dtoh" /\ o.name \in Outputs(path)
                      /\ pc = "copy out"
      BY <1>1, <3>1 DEF StreamInv
    <3>3. stream'[i].op = "htod" => Unexecuted'
      <4>1. CASE stream[1].op = "execute"
        BY <1>5, <2>1, <4>1
      <4>2. CASE stream[1].op # "execute"
        BY <1>6, <3>1, <3>2, <4>2
      <4>3. QED
        BY <4>1, <4>2
    <3>4. QED
      BY <3>1, <3>2, <3>3
  <2>2. ASSUME NEW i \in DOMAIN stream', NEW j \in DOMAIN stream', j > i
        PROVE  /\ stream'[i].op = "execute" => stream'[j].op = "dtoh"
               /\ stream'[i].op = "dtoh" => stream'[j].op = "dtoh"
    <3>1. i + 1 \in DOMAIN stream /\ j + 1 \in DOMAIN stream /\ j + 1 > i + 1
      BY <1>2, <2>2
    <3>2. QED
      BY <1>1, <1>2, <3>1 DEF StreamInv
  <2>3. \A p : Inputs(p)' = Inputs(p) /\ Outputs(p)' = Outputs(p)
    BY DEF Inputs, Outputs, Tensors
  <2>4. QED
    BY <1>3, <2>1, <2>2, <2>3 DEF StreamInv
<1>11. QED
  BY <1>2, <1>3, <1>4, <1>5, <1>6, <1>7, <1>8, <1>9, <1>10

(* An operation that a call puts on its stream, and what that changes.     *)
LEMMA SubmittedEffect ==
  ASSUME WorkerInv, NEW o \in Operations, stream' = Append(stream, o),
         task' = task
  PROVE  /\ Unexecuted => Unexecuted' \/ pc = "copy in"
         /\ o.op = "execute" => Unexecuted'
         /\ Unexecuted' => Unexecuted \/ o.op = "execute" \/ pc' = "copy in"
         /\ \A op, n : Pending(op, n) => Pending(op, n)'
         /\ Pending(o.op, o.name)'
<1>1. /\ Len(stream) \in Nat
      /\ DOMAIN stream = 1 .. Len(stream)
      /\ DOMAIN stream' = 1 .. Len(stream) + 1
      /\ \A i \in 1 .. Len(stream) : stream'[i] = stream[i]
      /\ stream'[Len(stream) + 1] = o
  BY OperationSubmitted DEF WorkerInv
<1>2. \A i \in DOMAIN stream : i \in DOMAIN stream' /\ stream'[i] = stream[i]
  BY <1>1
<1>3. Len(stream) + 1 \in DOMAIN stream' /\ stream'[Len(stream) + 1] = o
      /\ \A i \in DOMAIN stream' : i \in DOMAIN stream \/ i = Len(stream) + 1
  BY <1>1
<1>4. \A op, n : Pending(op, n) => Pending(op, n)'
  BY <1>2 DEF Pending
<1>5. Pending(o.op, o.name)'
  BY <1>3 DEF Pending
<1>6. /\ Unexecuted => Unexecuted' \/ pc = "copy in"
      /\ o.op = "execute" => Unexecuted'
  BY <1>2, <1>3 DEF Unexecuted
<1>7. Unexecuted' => Unexecuted \/ o.op = "execute" \/ pc' = "copy in"
  <2>1. ASSUME NEW i \in DOMAIN stream', stream'[i].op = "execute"
        PROVE  o.op = "execute"
               \/ \E j \in DOMAIN stream : stream[j].op = "execute"
    BY <1>2, <1>3, <2>1
  <2>2. QED
    BY <2>1 DEF Unexecuted
<1>8. QED
  BY <1>4, <1>5, <1>6, <1>7

(* The operations of a call stay in their places.                          *)
LEMMA StreamStep ==
  ASSUME WorkerInv, [Next]_vars
  PROVE  StreamInv'
<1>1. TypeOK /\ StreamInv /\ stream \in Seq(Operations)
  BY DEF WorkerInv, TypeOK
<1>2. \A p : Inputs(p)' = Inputs(p) /\ Outputs(p)' = Outputs(p)
  BY DEF Inputs, Outputs, Tensors
<1>3. CASE stream' = <<>>
  BY <1>3 DEF StreamInv
<1>4. CASE ~ Copying /\ UNCHANGED stream
  BY <1>1, <1>3, <1>4 DEF StreamInv
<1>5. CASE UNCHANGED <<pc, frame, stream>>
  BY <1>1, <1>2, <1>5 DEF StreamInv, Unexecuted, Copying, path, frame, Wanted
<1>6. ASSUME NEW o \in Operations, stream' = Append(stream, o),
             UNCHANGED frame, o.path = path, Copying,
             \/ /\ o.op = "htod" /\ o.name \in Inputs(path)
                /\ o.value = Wanted(o.name)
                /\ pc = "copy in" /\ pc' = "copy in"
             \/ o.op = "execute" /\ pc = "copy in" /\ pc' = "copy out"
             \/ /\ o.op = "dtoh" /\ o.name \in Outputs(path)
                /\ pc = "copy out" /\ pc' = "copy out"
      PROVE  StreamInv'
  <2>1. /\ Len(stream) \in Nat
        /\ DOMAIN stream = 1 .. Len(stream)
        /\ DOMAIN stream' = 1 .. Len(stream) + 1
        /\ \A i \in 1 .. Len(stream) : stream'[i] = stream[i]
        /\ stream'[Len(stream) + 1] = o
    BY <1>1, <1>6, OperationSubmitted
  <2>2. path' = path /\ Copying' /\ \A m : Wanted(m)' = Wanted(m)
    BY <1>6 DEF path, Copying, frame, Wanted
  <2>3. \A i \in DOMAIN stream : pc = "copy in" => stream[i].op = "htod"
    BY <1>1 DEF StreamInv
  <2>4. Unexecuted => Unexecuted'
    <3>1. Unexecuted => Unexecuted' \/ pc = "copy in"
      BY <1>6, SubmittedEffect DEF frame
    <3>2. o.op = "execute" => Unexecuted'
      BY <1>6, SubmittedEffect DEF frame
    <3>3. QED
      BY <1>6, <3>1, <3>2 DEF Unexecuted
  <2>5. ASSUME NEW i \in DOMAIN stream'
        PROVE  LET q == stream'[i]
               IN  /\ q.path = path
                   /\ \/ /\ q.op = "htod" /\ q.name \in Inputs(path)
                         /\ q.value = Wanted(q.name) /\ Unexecuted'
                      \/ q.op = "execute" /\ pc' = "copy out"
                      \/ /\ q.op = "dtoh" /\ q.name \in Outputs(path)
                         /\ pc' = "copy out"
    <3>1. CASE i = Len(stream) + 1
      BY <1>6, <2>1, <3>1 DEF Unexecuted
    <3>2. CASE i \in DOMAIN stream
      BY <1>1, <1>6, <2>1, <2>4, <3>2 DEF StreamInv
    <3>3. i \in DOMAIN stream \/ i = Len(stream) + 1
      BY <2>1
    <3>4. QED
      BY <3>1, <3>2, <3>3
  <2>6. ASSUME NEW i \in DOMAIN stream', NEW j \in DOMAIN stream', j > i
        PROVE  /\ stream'[i].op = "execute" => stream'[j].op = "dtoh"
               /\ stream'[i].op = "dtoh" => stream'[j].op = "dtoh"
    <3>1. i \in DOMAIN stream /\ stream'[i] = stream[i]
      BY <2>1, <2>6
    <3>2. CASE j \in DOMAIN stream
      BY <1>1, <2>1, <2>6, <3>1, <3>2 DEF StreamInv
    <3>3. CASE j = Len(stream) + 1
      <4>1. stream'[j] = o
        BY <2>1, <3>3
      <4>2. CASE pc = "copy in"
        BY <2>3, <3>1, <4>2
      <4>3. CASE pc = "copy out"
        BY <1>6, <4>1, <4>3
      <4>4. QED
        BY <1>6, <4>2, <4>3
    <3>4. QED
      BY <2>1, <3>2, <3>3
  <2>7. QED
    BY <1>2, <2>2, <2>5, <2>6 DEF StreamInv
<1>7. ASSUME NEW t \in Task,
             NEW g \in [InputName -> {"absent", "fits", "mismatched"}],
             Run(t, g)
      PROVE  StreamInv'
  BY <1>4, <1>7 DEF Run, Copying
<1>8. CASE Fails \/ ExecuteFails
  BY <1>3, <1>8 DEF Fails, ExecuteFails, Raise
<1>9. CASE Resolve \/ LoadEngine \/ Bound \/ Populated
  BY <1>4, <1>9 DEF Resolve, LoadEngine, Bound, Populated, Copying, streams
<1>10. CASE CreateContext
  BY <1>3, <1>4, <1>10 DEF CreateContext, Raise, Copying, streams
<1>11. CASE Buffers
  BY <1>3, <1>4, <1>11 DEF Buffers, Raise, Copying, streams
<1>12. ASSUME NEW n \in Name, Bind(n) \/ BindFails(n) \/ Populate(n)
       PROVE  StreamInv'
  BY <1>3, <1>4, <1>12
     DEF Bind, BindFails, Allocate, Populate, Raise, Copying, streams
<1>13. ASSUME NEW n \in Name, CopyIn(n)
       PROVE  StreamInv'
  <2>1. pc = "copy in" /\ Copying /\ UNCHANGED <<pc, frame>>
    BY <1>13 DEF CopyIn, Copies, Copying
  <2>2. CASE n \in Inputs(path)
    <3> DEFINE o == [op |-> "htod", path |-> path, name |-> n,
                     value |-> host[path][n]]
    <3>1. host[path][n] = Wanted(n)
      BY <2>1, <2>2 DEF WorkerInv, HostInv
    <3>2. o \in Operations
      BY <1>1, CopyTyped
    <3>3. stream' = Append(stream, o)
      BY <1>13, <2>2 DEF CopyIn, Copies
    <3>4. /\ o.op = "htod" /\ o.path = path /\ o.name = n
          /\ o.value = Wanted(o.name)
      BY <3>1
    <3> HIDE DEF o
    <3>5. QED
      BY <1>6, <2>1, <2>2, <3>2, <3>3, <3>4
  <2>3. CASE n \notin Inputs(path)
    BY <1>5, <1>13, <2>1, <2>3 DEF CopyIn, Copies
  <2>4. QED
    BY <2>2, <2>3
<1>14. ASSUME NEW n \in Name, CopyOut(n)
       PROVE  StreamInv'
  <2>1. pc = "copy out" /\ Copying /\ UNCHANGED <<pc, frame>>
    BY <1>14 DEF CopyOut, Copies, Copying
  <2>2. CASE n \in Outputs(path)
    <3>1. [op |-> "dtoh", path |-> path, name |-> n] \in Operations
      BY <1>1, EngineTyped DEF Operations
    <3>2. stream' = Append(stream, [op |-> "dtoh", path |-> path, name |-> n])
      BY <1>14, <2>2 DEF CopyOut, Copies
    <3>3. QED
      BY <1>6, <2>1, <2>2, <3>1, <3>2
  <2>3. CASE n \notin Outputs(path)
    BY <1>5, <1>14, <2>1, <2>3 DEF CopyOut, Copies
  <2>4. QED
    BY <2>2, <2>3
<1>15. CASE Execute
  <2>1. [op |-> "execute", path |-> path] \in Operations
    BY <1>1, EngineTyped DEF Operations
  <2>2. /\ pc = "copy in" /\ pc' = "copy out" /\ UNCHANGED frame /\ Copying
        /\ stream' = Append(stream, [op |-> "execute", path |-> path])
    BY <1>15 DEF Execute, Copying
  <2>3. QED
    BY <1>6, <2>1, <2>2
<1>16. CASE Return
  BY <1>3, <1>16 DEF Return, streams
<1>17. CASE GpuStep
  <2>1. UNCHANGED <<pc, frame>>
    BY <1>17 DEF GpuStep
  <2>2. CASE UNCHANGED stream
    BY <1>5, <2>1, <2>2
  <2>3. CASE stream # <<>> /\ stream' = Tail(stream)
    BY <2>1, <2>3, StreamPerformed
  <2>4. QED
    BY <1>17, <2>2, <2>3 DEF GpuStep
<1>18. CASE UNCHANGED vars
  BY <1>5, <1>18 DEF vars, streams
<1>19. QED
  BY <1>7, <1>8, <1>9, <1>10, <1>11, <1>12, <1>13, <1>14, <1>15, <1>16, <1>17,
     <1>18 DEF Next

-----------------------------------------------------------------------------
(***************************************************************************)
(* What the allocations hold.                                              *)
(***************************************************************************)
(* What the GPU has executed stays in the log.                             *)
LEMMA ExecutionsKept ==
  ASSUME WorkerInv, NEW o \in Operations, Perform(o), Orderly(o)
  PROVE  \A k \in DOMAIN executions : /\ k \in DOMAIN executions'
                                      /\ executions'[k] = executions[k]
<1>1. CASE UNCHANGED executions
  BY <1>1
<1>2. CASE o.op = "execute"
  <2> DEFINE e == [path |-> o.path,
                   inputs |-> [n \in Inputs(o.path) |->
                                 memory[address[o.path][n]]]]
  <2>1. executions' = Append(executions, e)
    BY <1>2 DEF Perform
  <2> HIDE DEF e
  <2>2. executions \in Seq(Execution \cup {e})
    BY ElementOfSeq, LenProperties, IsASeq DEF WorkerInv
  <2>3. QED
    BY <2>1, <2>2, AppendProperties, LenProperties
<1>3. QED
  BY <1>1, <1>2 DEF Perform

(* An operation of another engine does not touch this one.                 *)
LEMMA OthersPerformed ==
  ASSUME WorkerInv, NEW o \in Operations, Perform(o), Orderly(o),
         o.path # path
  PROVE  /\ host'[path] = host[path]
         /\ path \in cached =>
              \A m \in Tensors(path) :
                memory'[device[path][m]] = memory[device[path][m]]
<1>1. /\ host \in [Path -> [Name -> Int]] /\ path \in Path
      /\ o.path \in Path /\ o.path \in cached
  BY EngineTyped DEF WorkerInv, TypeOK, Orderly
<1>2. \A n \in Tensors(o.path) : address[o.path][n] = device[o.path][n]
  BY <1>1 DEF WorkerInv, CacheInv
<1>3. \A p \in Path : /\ Inputs(p) \subseteq Tensors(p)
                      /\ Outputs(p) \subseteq Tensors(p)
  BY EngineTyped DEF WorkerInv
<1>4. ASSUME path \in cached, NEW m \in Tensors(path)
      PROVE  /\ device[path][m] \in DOMAIN memory
             /\ \A n \in Tensors(o.path) :
                  device[o.path][n] # device[path][m]
  BY <1>1, <1>4 DEF WorkerInv, CacheInv
<1>5. CASE o.op = "htod"
  <2>1. /\ memory' = [memory EXCEPT ![device[o.path][o.name]] = o.value]
        /\ UNCHANGED host
    BY <1>5 DEF Perform
  <2>2. o.name \in Tensors(o.path)
    BY <1>1, <1>3, <1>5 DEF Orderly
  <2>3. QED
    BY <1>4, <2>1, <2>2
<1>6. CASE o.op = "execute"
  <2>1. /\ memory' = [a \in DOMAIN memory |->
             IF \E n \in Outputs(o.path) : address[o.path][n] = a
               THEN Len(executions') ELSE memory[a]]
        /\ UNCHANGED host
    BY <1>6 DEF Perform
  <2>2. QED
    BY <1>1, <1>2, <1>3, <1>4, <2>1
<1>7. CASE o.op = "dtoh"
  <2>1. /\ host' = [host EXCEPT ![o.path][o.name] =
                      memory[device[o.path][o.name]]]
        /\ UNCHANGED memory
    BY <1>7 DEF Perform
  <2>2. QED
    BY <1>1, <2>1
<1>8. QED
  BY <1>5, <1>6, <1>7 DEF Operations

(* A copy to an input writes what is wanted.                               *)
LEMMA InputCopied ==
  ASSUME WorkerInv, Copying, NEW o \in Operations, Perform(o),
         o.op = "htod", o.path = path, o.name \in Inputs(path),
         o.value = Wanted(o.name)
  PROVE  /\ UNCHANGED <<host, executions>>
         /\ \A m \in Inputs(path) :
              memory[device[path][m]] = Wanted(m) \/ o.name = m
                => memory'[device[path][m]] = Wanted(m)
         /\ \A n \in Outputs(path) :
              memory'[device[path][n]] = memory[device[path][n]]
<1>1. /\ memory' = [memory EXCEPT ![device[path][o.name]] = Wanted(o.name)]
      /\ UNCHANGED <<host, executions>>
  BY DEF Perform
<1>2. path \in cached /\ path \in Path
  BY EngineTyped DEF WorkerInv, CourseInv
<1>3. /\ Inputs(path) \subseteq Tensors(path)
      /\ Outputs(path) \subseteq Tensors(path)
      /\ Inputs(path) \cap Outputs(path) = {}
  BY <1>2, EngineTyped DEF WorkerInv
<1>4. \A m \in Tensors(path) :
        /\ device[path][m] \in DOMAIN memory
        /\ device[path][o.name] = device[path][m] => o.name = m
  BY <1>2, <1>3 DEF WorkerInv, CacheInv
<1>5. \A m \in Tensors(path) :
        memory'[device[path][m]] = IF o.name = m
                                     THEN Wanted(m)
                                     ELSE memory[device[path][m]]
  BY <1>1, <1>4
<1>6. QED
  BY <1>1, <1>3, <1>5

(* What is pending on the stream of a call stays pending when the GPU      *)
(* performs another operation.                                             *)
LEMMA StaysPending ==
  ASSUME WorkerInv, stream # <<>>, stream' = Tail(stream),
         UNCHANGED <<pc, frame>>
  PROVE  \A op, n : Pending(op, n) =>
           \/ Pending(op, n)'
           \/ Head(stream).op = op /\ Head(stream).name = n
<1>1. /\ Len(stream) \in Nat /\ DOMAIN stream = 1 .. Len(stream)
      /\ DOMAIN stream' = 1 .. Len(stream) - 1
      /\ \A i \in DOMAIN stream' : stream'[i] = stream[i + 1]
  BY StreamPerformed
<1>2. Head(stream) = stream[1]
  BY HeadOfStream
<1>3. ASSUME NEW op, NEW n, Pending(op, n)
      PROVE  \/ Pending(op, n)'
             \/ Head(stream).op = op /\ Head(stream).name = n
  <2>1. PICK i \in DOMAIN stream : stream[i].op = op /\ stream[i].name = n
    BY <1>3 DEF Pending
  <2>2. CASE i = 1
    BY <1>2, <2>1, <2>2
  <2>3. CASE i # 1
    <3>1. i - 1 \in DOMAIN stream' /\ (i - 1) + 1 = i
      BY <1>1, <2>3
    <3>2. stream'[i - 1].op = op /\ stream'[i - 1].name = n
      BY <1>1, <2>1, <3>1
    <3>3. QED
      BY <3>1, <3>2 DEF Pending
  <2>4. QED
    BY <2>2, <2>3
<1>4. QED
  BY <1>3

(* The copies to the inputs come before the execution and read what is     *)
(* wanted; the execution and the copies of the outputs come after them.    *)
LEMMA MemoryPerformed ==
  ASSUME WorkerInv, GpuStep, Copying, settled
  PROVE  MemoryInv'
<1>1. /\ TypeOK /\ MemoryInv /\ CacheInv
      /\ path \in cached /\ path \in Path
  BY EngineTyped DEF WorkerInv, CourseInv
<1>2. /\ UNCHANGED <<pc, frame, index, device, address>>
      /\ path' = path /\ Passed' = Passed /\ Copying'
      /\ \A m : Wanted(m)' = Wanted(m)
  <2>1. UNCHANGED <<pc, frame, index, device, address>>
    BY DEF GpuStep
  <2>2. Passed' = Passed
    BY <1>1, <2>1, LoopOfTensors DEF frame
  <2>3. QED
    BY <2>1, <2>2 DEF path, frame, Copying, Wanted
<1>3. \A p : Inputs(p)' = Inputs(p) /\ Outputs(p)' = Outputs(p)
  BY DEF Inputs, Outputs, Tensors
<1>4. PICK o \in Operations :
        /\ Perform(o) /\ Orderly(o)
        /\ \/ /\ stream # <<>> /\ o = Head(stream)
              /\ stream' = Tail(stream)
           \/ o.path # path /\ UNCHANGED stream
  BY GpuStepPerforms DEF Copying
<1>5. \A k : Own(k) => Own(k)'
  BY <1>2, <1>3, <1>4, ExecutionsKept DEF Own
<1>6. CASE o.path # path /\ UNCHANGED stream
  <2>1. /\ host'[path] = host[path]
        /\ \A m \in Tensors(path) :
             memory'[device[path][m]] = memory[device[path][m]]
    BY <1>1, <1>4, <1>6, OthersPerformed
  <2>2. /\ Inputs(path) \subseteq Tensors(path)
        /\ Outputs(path) \subseteq Tensors(path)
    BY <1>1, EngineTyped
  <2>3. /\ Unexecuted' = Unexecuted
        /\ \A op, n : Pending(op, n)' = Pending(op, n)
    BY <1>2, <1>6 DEF Unexecuted, Pending
  <2>4. BeforeExecution => BeforeExecution'
    BY <1>2, <1>3, <2>1, <2>2, <2>3 DEF BeforeExecution
  <2>5. AfterExecution => AfterExecution'
    <3>1. ASSUME NEW k, Own(k),
                 \A n \in Outputs(path) :
                   /\ memory[device[path][n]] = k
                   /\ n \in Passed => Pending("dtoh", n) \/ host[path][n] = k
          PROVE  AfterExecution'
      <4>1. \A n \in Outputs(path) :
              /\ memory'[device[path][n]] = k
              /\ n \in Passed => Pending("dtoh", n)' \/ host'[path][n] = k
        BY <2>1, <2>2, <2>3, <3>1
      <4>2. QED
        BY <1>2, <1>3, <1>5, <3>1, <4>1 DEF AfterExecution
    <3>2. QED
      BY <3>1 DEF AfterExecution
  <2>6. QED
    BY <1>1, <2>3, <2>4, <2>5 DEF MemoryInv
<1>7. CASE /\ stream # <<>> /\ o = Head(stream) /\ stream' = Tail(stream)
           /\ o.op = "htod"
  <2>1. /\ o.path = path /\ o.name \in Inputs(path)
        /\ o.value = Wanted(o.name)
    BY <1>7, HeadOfStream
  <2>2. /\ UNCHANGED <<host, executions>>
        /\ \A m \in Inputs(path) :
             memory[device[path][m]] = Wanted(m) \/ o.name = m
               => memory'[device[path][m]] = Wanted(m)
        /\ \A n \in Outputs(path) :
             memory'[device[path][n]] = memory[device[path][n]]
    BY <1>4, <1>7, <2>1, InputCopied
  <2>3. /\ Unexecuted' /\ Unexecuted
        /\ \A op, n : Pending(op, n) =>
             Pending(op, n)' \/ (op = "htod" /\ o.name = n)
    BY <1>2, <1>7, StreamPerformed, StaysPending
  <2>4. BeforeExecution
    BY <1>1, <2>3 DEF MemoryInv
  <2>5. ASSUME NEW m \in Inputs(path), pc = "copy out" \/ m \in Passed
        PROVE  Pending("htod", m)' \/ memory'[device[path][m]] = Wanted(m)
    <3>1. Pending("htod", m) \/ memory[device[path][m]] = Wanted(m)
      BY <2>4, <2>5 DEF BeforeExecution
    <3>2. QED
      BY <2>2, <2>3, <2>5, <3>1
  <2>6. ASSUME NEW n \in Outputs(path), pc = "copy out" /\ n \in Passed
        PROVE  Pending("dtoh", n)'
    <3>1. Pending("dtoh", n)
      BY <2>4, <2>6 DEF BeforeExecution
    <3>2. QED
      BY <2>3, <3>1
  <2>7. BeforeExecution'
    BY <1>2, <1>3, <2>5, <2>6 DEF BeforeExecution
  <2>8. QED
    BY <2>3, <2>7 DEF MemoryInv
<1>8. CASE /\ stream # <<>> /\ o = Head(stream) /\ stream' = Tail(stream)
           /\ o.op = "execute"
  <2>1. o.path = path /\ pc = "copy out"
    BY <1>8, HeadOfStream
  <2>2. ~ Unexecuted'
    BY <1>2, <1>8, StreamPerformed
  <2>3. /\ o = stream[1] /\ 1 \in DOMAIN stream
        /\ stream \in Seq(Operations)
        /\ DOMAIN stream = 1 .. Len(stream) /\ Len(stream) \in Nat
    BY <1>8, HeadOfStream, LenProperties DEF WorkerInv, TypeOK
  <2>4. BeforeExecution
    BY <1>1, <1>8, <2>3 DEF MemoryInv, Unexecuted
  <2>5. \A m \in Inputs(path) : ~ Pending("htod", m)
    <3>1. ASSUME NEW i \in DOMAIN stream, stream[i].op = "htod"
          PROVE  FALSE
      <4>1. i # 1
        BY <1>8, <2>3, <3>1
      <4>2. i > 1
        BY <2>3, <3>1, <4>1
      <4>3. stream[i].op = "dtoh"
        BY <1>8, <2>3, <3>1, <4>2 DEF WorkerInv, StreamInv
      <4>4. QED
        BY <3>1, <4>3
    <3>2. QED
      BY <3>1 DEF Pending
  <2>6. \A m \in Inputs(path) : memory[address[path][m]] = Wanted(m)
    <3>1. \A m \in Inputs(path) : memory[device[path][m]] = Wanted(m)
      BY <2>1, <2>4, <2>5 DEF BeforeExecution
    <3>2. \A m \in Inputs(path) : address[path][m] = device[path][m]
      BY <1>1 DEF CacheInv, Inputs
    <3>3. QED
      BY <3>1, <3>2
  <2>7. /\ executions' = Append(executions,
             [path |-> path,
              inputs |-> [m \in Inputs(path) |-> memory[address[path][m]]]])
        /\ memory' = [a \in DOMAIN memory |->
             IF \E n \in Outputs(path) : address[path][n] = a
               THEN Len(executions') ELSE memory[a]]
    <3>1. /\ executions' = Append(executions,
               [path |-> o.path,
                inputs |-> [n \in Inputs(o.path) |->
                              memory[address[o.path][n]]]])
          /\ memory' = [a \in DOMAIN memory |->
               IF \E n \in Outputs(o.path) : address[o.path][n] = a
                 THEN Len(executions') ELSE memory[a]]
      BY <1>4, <1>8 DEF Perform
    <3>2. o.path = path
      BY <2>1
    <3>3. QED
      BY ONLY <3>1, <3>2
  <2>8. [m \in Inputs(path) |-> memory[address[path][m]]]
          = [m \in Inputs(path) |-> Wanted(m)]
    BY <2>6
  <2>9. /\ Len(executions') \in DOMAIN executions'
        /\ executions'[Len(executions')] =
             [path |-> path, inputs |-> [m \in Inputs(path) |-> Wanted(m)]]
    <3> DEFINE e == [path |-> path,
                     inputs |-> [m \in Inputs(path) |-> Wanted(m)]]
    <3>1. executions' = Append(executions, e)
      BY <2>7, <2>8
    <3>2. executions \in Seq(Execution)
      BY DEF WorkerInv
    <3> HIDE DEF e
    <3>3. executions \in Seq(Execution \cup {e}) /\ e \in Execution \cup {e}
      BY <3>2, ElementOfSeq, LenProperties, IsASeq
    <3>4. /\ Len(executions') = Len(executions) + 1
          /\ Len(executions) \in Nat
          /\ DOMAIN executions' = 1 .. Len(executions')
          /\ executions'[Len(executions) + 1] = e
      BY <3>1, <3>3, AppendProperties, LenProperties
    <3>5. QED
      BY <3>4 DEF e
  <2>10. \A n \in Outputs(path) : memory'[device[path][n]] = Len(executions')
    BY <1>1, <2>7 DEF CacheInv, Outputs
  <2>11. \A n \in Outputs(path) : n \in Passed => Pending("dtoh", n)'
    <3>1. \A n \in Outputs(path) : n \in Passed => Pending("dtoh", n)
      BY <2>1, <2>4 DEF BeforeExecution
    <3>2. \A n : Pending("dtoh", n) => Pending("dtoh", n)'
      BY <1>2, <1>8, StaysPending
    <3>3. QED
      BY <3>1, <3>2
  <2>12. AfterExecution'
    <3>1. Own(Len(executions))'
      BY <1>2, <1>3, <2>9 DEF Own
    <3>2. QED
      BY <1>2, <1>3, <2>10, <2>11, <3>1 DEF AfterExecution
  <2>13. QED
    BY <2>2, <2>12 DEF MemoryInv
<1>9. CASE /\ stream # <<>> /\ o = Head(stream) /\ stream' = Tail(stream)
           /\ o.op = "dtoh"
  <2>1. o.path = path /\ o.name \in Outputs(path)
    BY <1>9, HeadOfStream
  <2>2. ~ Unexecuted /\ ~ Unexecuted'
    BY <1>2, <1>9, StreamPerformed
  <2>3. PICK k : /\ Own(k)
                 /\ \A n \in Outputs(path) :
                      /\ memory[device[path][n]] = k
                      /\ n \in Passed =>
                           Pending("dtoh", n) \/ host[path][n] = k
    BY <1>1, <2>2 DEF MemoryInv, AfterExecution
  <2>4. /\ host' = [host EXCEPT ![path][o.name] = memory[device[path][o.name]]]
        /\ UNCHANGED memory
    BY <1>4, <1>9, <2>1 DEF Perform
  <2>5. \A n : Pending("dtoh", n) => Pending("dtoh", n)' \/ n = o.name
    BY <1>2, <1>9, StaysPending
  <2>6. \A n \in Outputs(path) :
          host'[path][n] = IF n = o.name THEN k ELSE host[path][n]
    <3>1. host \in [Path -> [Name -> Int]] /\ Outputs(path) \subseteq Name
      BY <1>1, EngineTyped DEF TypeOK
    <3>2. memory[device[path][o.name]] = k
      BY <2>1, <2>3
    <3>3. QED
      BY <1>1, <2>4, <3>1, <3>2
  <2>7. \A n \in Outputs(path) :
          /\ memory'[device[path][n]] = k
          /\ n \in Passed => Pending("dtoh", n)' \/ host'[path][n] = k
    BY <2>3, <2>4, <2>5, <2>6
  <2>8. AfterExecution'
    BY <1>2, <1>3, <1>5, <2>3, <2>7 DEF AfterExecution
  <2>9. QED
    BY <2>2, <2>8 DEF MemoryInv
<1>10. QED
  BY <1>4, <1>6, <1>7, <1>8, <1>9 DEF Operations

(* The loops of the call put a copy of each tensor that they pass on the   *)
(* stream.                                                                 *)
LEMMA MemorySubmitted ==
  ASSUME WorkerInv, NEW n \in Name, CopyIn(n) \/ CopyOut(n), settled
  PROVE  MemoryInv'
<1>1. TypeOK /\ MemoryInv /\ path \in Path
  BY EngineTyped DEF WorkerInv
<1>2. /\ index <= Len(IoTensors[path]) /\ n = IoTensors[path][index]
      /\ index' = index + 1 /\ Copying /\ Copying'
      /\ UNCHANGED <<pc, frame, buffers, memory, executions>>
  BY <1>1 DEF CopyIn, CopyOut, Copies, Copying
<1>3. /\ Passed' = Passed \cup {n} /\ path' = path
      /\ \A m : Wanted(m)' = Wanted(m)
  BY <1>1, <1>2, LoopOfTensors DEF path, frame, Wanted
<1>4. \A p : Inputs(p)' = Inputs(p) /\ Outputs(p)' = Outputs(p)
  BY DEF Inputs, Outputs, Tensors
<1>5. CASE CopyIn(n)
  <2>1. /\ pc = "copy in" /\ Unexecuted /\ Unexecuted'
    BY <1>2, <1>5 DEF CopyIn, Unexecuted
  <2>2. BeforeExecution
    BY <1>1, <1>2, <2>1 DEF MemoryInv
  <2>3. /\ \A m : Pending("htod", m) => Pending("htod", m)'
        /\ n \in Inputs(path) => Pending("htod", n)'
    <3>1. CASE n \in Inputs(path)
      <4>1. PICK o \in Operations :
                   o = [op |-> "htod", path |-> path, name |-> n,
                        value |-> host[path][n]]
        BY <1>1, CopyTyped
      <4>2. task' = task /\ stream' = Append(stream, o)
        BY <1>2, <1>5, <3>1, <4>1 DEF CopyIn, Copies, frame
      <4>3. /\ \A op, m : Pending(op, m) => Pending(op, m)'
            /\ Pending(o.op, o.name)'
        BY <4>2, SubmittedEffect
      <4>4. QED
        BY <4>1, <4>3
    <3>2. CASE n \notin Inputs(path)
      BY <1>5, <3>2 DEF CopyIn, Copies, Pending
    <3>3. QED
      BY <3>1, <3>2
  <2>4. ASSUME NEW m \in Inputs(path), m \in Passed'
        PROVE  Pending("htod", m)' \/ memory'[device'[path][m]] = Wanted(m)
    BY <1>2, <1>3, <2>2, <2>3, <2>4 DEF BeforeExecution, buffers
  <2>5. BeforeExecution'
    BY <1>2, <1>3, <1>4, <2>1, <2>4 DEF BeforeExecution
  <2>6. QED
    BY <2>1, <2>5 DEF MemoryInv
<1>6. CASE CopyOut(n)
  <2>1. /\ pc = "copy out" /\ pc' = "copy out"
        /\ stream' = IF n \in Outputs(path)
             THEN Append(stream, [op |-> "dtoh", path |-> path, name |-> n])
             ELSE stream
    BY <1>2, <1>6 DEF CopyOut, Copies
  <2>2. /\ Unexecuted' <=> Unexecuted
        /\ \A op, m : Pending(op, m) => Pending(op, m)'
        /\ n \in Outputs(path) => Pending("dtoh", n)'
    <3>1. CASE n \in Outputs(path)
      <4>1. PICK o \in Operations :
                   o = [op |-> "dtoh", path |-> path, name |-> n]
        BY <1>1, CopyTyped
      <4>2. task' = task /\ stream' = Append(stream, o)
        BY <1>2, <2>1, <3>1, <4>1 DEF frame
      <4>3. /\ Unexecuted => Unexecuted' \/ pc = "copy in"
            /\ Unexecuted' => Unexecuted \/ o.op = "execute" \/ pc' = "copy in"
            /\ \A op, m : Pending(op, m) => Pending(op, m)'
            /\ Pending(o.op, o.name)'
        BY <4>2, SubmittedEffect
      <4>4. QED
        BY <2>1, <4>1, <4>3
    <3>2. CASE n \notin Outputs(path)
      BY <1>2, <1>3, <2>1, <3>2 DEF Pending, Unexecuted
    <3>3. QED
      BY <3>1, <3>2
  <2>3. CASE Unexecuted
    <3>1. BeforeExecution
      BY <1>1, <1>2, <2>3 DEF MemoryInv
    <3>2. ASSUME NEW m \in Inputs(path)
          PROVE  Pending("htod", m)' \/ memory'[device'[path][m]] = Wanted(m)
      BY <1>2, <2>1, <2>2, <3>1 DEF BeforeExecution, buffers
    <3>3. ASSUME NEW m \in Outputs(path), m \in Passed'
          PROVE  Pending("dtoh", m)'
      BY <1>3, <2>1, <2>2, <3>1, <3>3 DEF BeforeExecution
    <3>4. BeforeExecution'
      BY <1>3, <1>4, <3>2, <3>3 DEF BeforeExecution
    <3>5. QED
      BY <2>2, <2>3, <3>4 DEF MemoryInv
  <2>4. CASE ~ Unexecuted
    <3>1. AfterExecution
      BY <1>1, <1>2, <2>4 DEF MemoryInv
    <3>2. UNCHANGED <<host, device, memory, executions>>
      BY <1>2 DEF buffers
    <3>3. \A k : Own(k)' = Own(k)
      BY <1>3, <1>4, <3>2 DEF Own
    <3>4. PICK k : /\ Own(k)
                   /\ \A m \in Outputs(path) :
                        /\ memory[device[path][m]] = k
                        /\ m \in Passed =>
                             Pending("dtoh", m) \/ host[path][m] = k
      BY <3>1 DEF AfterExecution
    <3>5. \A m \in Outputs(path) :
            /\ memory[device[path][m]] = k
            /\ m \in Passed' => Pending("dtoh", m)' \/ host[path][m] = k
      BY <1>3, <2>2, <3>4
    <3>6. AfterExecution'
      BY <1>3, <1>4, <3>2, <3>3, <3>4, <3>5 DEF AfterExecution
    <3>7. QED
      BY <2>2, <2>4, <3>6 DEF MemoryInv
  <2>5. QED
    BY <2>3, <2>4
<1>7. QED
  BY <1>5, <1>6

(* What the allocations hold, while a call that was settled copies and     *)
(* executes, is its own doing.                                             *)
LEMMA MemoryStep ==
  ASSUME WorkerInv, [Next]_vars
  PROVE  MemoryInv'
<1>1. TypeOK /\ MemoryInv
  BY DEF WorkerInv
<1>2. \A p : Inputs(p)' = Inputs(p) /\ Outputs(p)' = Outputs(p)
  BY DEF Inputs, Outputs, Tensors
<1>3. CASE ~ Copying' \/ ~ settled'
  BY <1>3 DEF MemoryInv
<1>4. CASE Populated
  <2>1. pc' = "copy in" /\ index' = 1 /\ task' = task
    BY <1>4 DEF Populated, frame
  <2>2. Passed' = {}
    BY <1>1, <2>1, LoopOfTensors
  <2>3. Unexecuted' /\ BeforeExecution'
    BY <2>1, <2>2 DEF Unexecuted, BeforeExecution
  <2>4. QED
    BY <2>3 DEF MemoryInv
<1>5. CASE Execute
  <2>1. /\ pc = "copy in" /\ pc' = "copy out" /\ index' = 1
        /\ index > Len(IoTensors[path])
        /\ stream' = Append(stream, [op |-> "execute", path |-> path])
        /\ UNCHANGED <<frame, device, memory>>
    BY <1>5 DEF Execute, buffers
  <2>2. /\ Passed = Tensors(path) /\ Passed' = {} /\ path' = path
        /\ \A m : Wanted(m)' = Wanted(m)
    BY <1>1, <2>1, LoopOfTensors DEF path, frame, Wanted
  <2>3. settled => BeforeExecution
    BY <1>1, <2>1 DEF MemoryInv, Copying, Unexecuted
  <2>4. [op |-> "execute", path |-> path] \in Operations
    BY <1>1, EngineTyped DEF Operations
  <2>5. /\ Unexecuted' /\ \A op, m : Pending(op, m) => Pending(op, m)'
    BY <2>1, <2>4, SubmittedEffect DEF frame
  <2>6. ASSUME settled, NEW m \in Inputs(path)
        PROVE  Pending("htod", m)' \/ memory'[device'[path][m]] = Wanted(m)
    BY <2>1, <2>2, <2>3, <2>5, <2>6 DEF BeforeExecution, Inputs
  <2>7. settled => BeforeExecution'
    BY <1>2, <2>2, <2>6 DEF BeforeExecution
  <2>8. QED
    BY <2>1, <2>5, <2>7 DEF MemoryInv, frame
<1>6. ASSUME NEW n \in Name, CopyIn(n) \/ CopyOut(n)
      PROVE  MemoryInv'
  BY <1>3, <1>6, MemorySubmitted DEF CopyIn, CopyOut, Copies, frame
<1>7. CASE GpuStep
  <2>1. CASE Copying /\ settled
    BY <1>7, <2>1, MemoryPerformed
  <2>2. CASE ~ (Copying /\ settled)
    BY <1>3, <1>7, <2>2 DEF GpuStep, Copying, frame
  <2>3. QED
    BY <2>1, <2>2
<1>8. CASE UNCHANGED vars
  <2>1. /\ UNCHANGED <<pc, task, given, calls, settled, index, device, host,
                       memory, stream, executions>>
    BY <1>8 DEF vars, frame, buffers, streams
  <2>2. Passed' = Passed /\ path' = path /\ \A m : Wanted(m)' = Wanted(m)
    BY <1>1, <2>1, LoopOfTensors DEF path, Wanted
  <2>3. /\ Unexecuted' = Unexecuted /\ Copying' = Copying
        /\ \A op, n : Pending(op, n)' = Pending(op, n)
    BY <2>1, <2>2 DEF Unexecuted, Copying, Pending
  <2>4. BeforeExecution => BeforeExecution'
    BY <1>2, <2>1, <2>2, <2>3 DEF BeforeExecution
  <2>5. AfterExecution => AfterExecution'
    BY <1>2, <2>1, <2>2, <2>3 DEF AfterExecution, Own
  <2>6. QED
    BY <1>1, <2>1, <2>3, <2>4, <2>5 DEF MemoryInv
<1>9. CASE Fails \/ Resolve \/ LoadEngine \/ CreateContext \/ Buffers \/ Bound
             \/ ExecuteFails \/ Return
  BY <1>3, <1>9
     DEF Fails, Resolve, LoadEngine, CreateContext, Buffers, Bound,
         ExecuteFails, Return, Raise, Copying
<1>10. ASSUME NEW n \in Name, Bind(n) \/ BindFails(n) \/ Populate(n)
       PROVE  MemoryInv'
  BY <1>3, <1>10 DEF Bind, BindFails, Allocate, Populate, Raise, Copying
<1>11. ASSUME NEW t \in Task,
              NEW g \in [InputName -> {"absent", "fits", "mismatched"}],
              Run(t, g)
       PROVE  MemoryInv'
  BY <1>3, <1>11 DEF Run, Copying
<1>12. QED
  BY <1>4, <1>5, <1>6, <1>7, <1>8, <1>9, <1>10, <1>11 DEF Next

-----------------------------------------------------------------------------
(***************************************************************************)
(* What run returns.                                                       *)
(***************************************************************************)
(* A call that returns ends with the outputs of its own execution, and     *)
(* what is performed later is of other engines.                            *)
LEMMA ResultStep ==
  ASSUME WorkerInv, [Next]_vars
  PROVE  ResultIsOfFrame'
<1>1. TypeOK /\ MemoryInv /\ ResultIsOfFrame /\ StreamInv
  BY DEF WorkerInv
<1>2. \A p : Inputs(p)' = Inputs(p) /\ Outputs(p)' = Outputs(p)
  BY DEF Inputs, Outputs, Tensors
<1>3. CASE pc' # "idle" \/ outcome' # "ok" \/ ~ settled'
  BY <1>3 DEF ResultIsOfFrame
<1>4. CASE UNCHANGED <<pc, frame, outcome, host, executions>>
  BY <1>1, <1>2, <1>4 DEF ResultIsOfFrame, frame, path
<1>5. CASE Return /\ settled
  <2>1. /\ pc = "copy out" /\ index > Len(IoTensors[path]) /\ stream = <<>>
        /\ UNCHANGED <<frame, host, executions>>
    BY <1>5 DEF Return, buffers
  <2>2. Passed = Tensors(path) /\ path' = path
    BY <1>1, <2>1, LoopOfTensors DEF path, frame
  <2>3. ~ Unexecuted /\ \A n : ~ Pending("dtoh", n)
    <3>1. DOMAIN stream = {}
      <4>1. stream = <<>>
        BY <2>1
      <4>2. QED
        BY <4>1
    <3>2. pc # "copy in"
      BY <2>1
    <3>3. QED
      BY <3>1, <3>2 DEF Unexecuted, Pending
  <2>4. AfterExecution
    BY <1>1, <1>5, <2>1, <2>3 DEF MemoryInv, Copying
  <2>5. PICK k : Own(k) /\ \A n \in Outputs(path) : host[path][n] = k
    BY <2>2, <2>3, <2>4 DEF AfterExecution, Outputs
  <2>6. k \in DOMAIN executions
          /\ executions[k] =
               [path |-> path,
                inputs |-> [m \in Inputs(path) |->
                              IF given[m] = "fits" THEN calls ELSE 0]]
    BY <2>5 DEF Own, Wanted
  <2>7. QED
    BY <1>2, <2>1, <2>2, <2>5, <2>6 DEF ResultIsOfFrame, frame
<1>6. CASE GpuStep
  <2>1. CASE pc = "idle" /\ outcome = "ok" /\ settled
    <3>1. stream = <<>>
      BY <1>1, <2>1 DEF StreamInv, Copying
    <3>2. PICK o \in Operations : Perform(o) /\ Orderly(o) /\ o.path # path
      BY <1>6, <2>1, <3>1, GpuStepPerforms
    <3>3. /\ host'[path] = host[path]
          /\ \A k \in DOMAIN executions : /\ k \in DOMAIN executions'
                                          /\ executions'[k] = executions[k]
      BY <3>2, OthersPerformed, ExecutionsKept
    <3>4. PICK k \in DOMAIN executions :
            /\ executions[k] =
                 [path |-> path,
                  inputs |-> [m \in Inputs(path) |->
                                IF given[m] = "fits" THEN calls ELSE 0]]
            /\ \A n \in Outputs(path) : host[path][n] = k
      BY <1>1, <2>1 DEF ResultIsOfFrame
    <3>5. UNCHANGED <<frame, path>>
      BY <1>6 DEF GpuStep, frame, path
    <3>6. QED
      BY <1>2, <3>3, <3>4, <3>5 DEF ResultIsOfFrame, frame
  <2>2. CASE ~ (pc = "idle" /\ outcome = "ok" /\ settled)
    BY <1>3, <1>6, <2>2 DEF GpuStep, frame
  <2>3. QED
    BY <2>1, <2>2
<1>7. CASE UNCHANGED vars
  BY <1>4, <1>7 DEF vars, buffers
<1>8. CASE Fails \/ ExecuteFails
  BY <1>3, <1>8 DEF Fails, ExecuteFails, Raise
<1>9. CASE Resolve \/ LoadEngine \/ CreateContext \/ Buffers \/ Bound
             \/ Populated \/ Execute
  BY <1>3, <1>9
     DEF Resolve, LoadEngine, CreateContext, Buffers, Bound, Populated,
         Execute, Raise
<1>10. ASSUME NEW n \in Name, Bind(n) \/ BindFails(n) \/ Populate(n)
                              \/ CopyIn(n) \/ CopyOut(n)
       PROVE  ResultIsOfFrame'
  BY <1>3, <1>10
     DEF Bind, BindFails, Allocate, Populate, CopyIn, CopyOut, Copies, Raise
<1>11. ASSUME NEW t \in Task,
              NEW g \in [InputName -> {"absent", "fits", "mismatched"}],
              Run(t, g)
       PROVE  ResultIsOfFrame'
  BY <1>3, <1>11 DEF Run
<1>12. CASE Return /\ ~ settled
  BY <1>3, <1>12 DEF Return, frame
<1>13. QED
  BY <1>5, <1>6, <1>7, <1>8, <1>9, <1>10, <1>11, <1>12 DEF Next

(* Only an engine whose tensors were described has cached buffers, and     *)
(* only one with cached buffers is executed.                               *)
LEMMA RejectedStep ==
  ASSUME WorkerInv, [Next]_vars
  PROVE  RejectedNeverExecuted'
<1>1. /\ RejectedNeverExecuted /\ CourseInv /\ cached \subseteq described
      /\ executions \in Seq(Execution)
  BY DEF WorkerInv, TypeOK
<1>2. \A p : Inputs(p)' = Inputs(p) /\ Outputs(p)' = Outputs(p)
  BY DEF Inputs, Outputs, Tensors
<1>3. CASE UNCHANGED executions
  BY <1>1, <1>2, <1>3 DEF RejectedNeverExecuted
<1>4. CASE GpuStep
  <2>1. PICK o \in Operations : Perform(o) /\ Orderly(o)
    BY <1>4, GpuStepPerforms
  <2>2. CASE o.op # "execute"
    BY <1>3, <2>1, <2>2 DEF Perform
  <2>3. CASE o.op = "execute"
    <3>1. o.path \in described
      BY <1>1, <2>1 DEF Orderly
    <3> DEFINE e == [path |-> o.path,
                     inputs |-> [n \in Inputs(o.path) |->
                                   memory[address[o.path][n]]]]
    <3>2. executions' = Append(executions, e) /\ e.path = o.path
      BY <2>1, <2>3 DEF Perform
    <3> HIDE DEF e
    <3>3. \A i \in DOMAIN executions' :
            \/ i \in DOMAIN executions /\ executions'[i] = executions[i]
            \/ executions'[i] = e
      <4>1. executions \in Seq(Execution \cup {e}) /\ e \in Execution \cup {e}
        BY <1>1, ElementOfSeq, LenProperties, IsASeq
      <4>2. /\ DOMAIN executions' = 1 .. Len(executions) + 1
            /\ Len(executions) \in Nat
            /\ DOMAIN executions = 1 .. Len(executions)
            /\ executions'[Len(executions) + 1] = e
            /\ \A i \in 1 .. Len(executions) : executions'[i] = executions[i]
        BY <3>2, <4>1, AppendProperties, LenProperties
      <4>3. QED
        BY <4>2
    <3>4. QED
      BY <1>1, <1>2, <3>1, <3>2, <3>3 DEF RejectedNeverExecuted, CourseInv
  <2>4. QED
    BY <2>2, <2>3
<1>5. CASE UNCHANGED vars
  BY <1>3, <1>5 DEF vars
<1>6. CASE Fails \/ Resolve \/ LoadEngine \/ CreateContext \/ Buffers \/ Bound
             \/ Populated \/ Execute \/ ExecuteFails \/ Return
  BY <1>3, <1>6
     DEF Fails, Resolve, LoadEngine, CreateContext, Buffers, Bound, Populated,
         Execute, ExecuteFails, Return
<1>7. ASSUME NEW n \in Name, Bind(n) \/ BindFails(n) \/ Populate(n)
                             \/ CopyIn(n) \/ CopyOut(n)
      PROVE  RejectedNeverExecuted'
  BY <1>3, <1>7 DEF Bind, BindFails, Populate, CopyIn, CopyOut, Copies
<1>8. ASSUME NEW t \in Task,
             NEW g \in [InputName -> {"absent", "fits", "mismatched"}],
             Run(t, g)
      PROVE  RejectedNeverExecuted'
  BY <1>3, <1>8 DEF Run
<1>9. QED
  BY <1>4, <1>5, <1>6, <1>7, <1>8 DEF Next

-----------------------------------------------------------------------------
(***************************************************************************)
(* The theorems.                                                           *)
(***************************************************************************)
(* Before the first call nothing is cached, bound, submitted or executed.  *)
LEMMA WorkerInit ==
  ASSUME Init
  PROVE  WorkerInv
<1>1. TypeOK
  <2>1. 0 \in 0 .. MaxCalls /\ 1 \in Nat \ {0}
    BY EngineAssumption
  <2>2. /\ memory \in Seq(Int) /\ stream \in Seq(Operations)
        /\ orphans \in [1 .. calls -> Seq(Operations)]
        /\ DOMAIN executions = {}
    <3>1. <<>> \in Seq(Int) /\ <<>> \in Seq(Operations)
      BY EmptySeq
    <3>2. orphans = <<>> /\ calls = 0 /\ memory = <<>> /\ stream = <<>>
          /\ executions = <<>>
      BY DEF Init
    <3>3. <<>> \in [1 .. 0 -> Seq(Operations)]
      OBVIOUS
    <3>4. QED
      BY <3>1, <3>2, <3>3
  <2>3. NoAddress \in Addresses
    BY DEF NoAddress, Addresses
  <2>4. QED
    BY <2>1, <2>2, <2>3 DEF Init, TypeOK
<1>2. executions \in Seq(Execution)
  BY EmptySeq DEF Init
<1>3. QED
  BY <1>1, <1>2
     DEF Init, WorkerInv, CourseInv, CacheInv, BindInv, HostInv, OrphansInv,
         SettledInv, StreamInv, MemoryInv, Copying, ResultIsOfFrame,
         RejectedNeverExecuted

(* The invariant of the worker is inductive.                               *)
THEOREM WorkerInvariant == Spec => []WorkerInv
<1>1. Init => WorkerInv
  BY WorkerInit
<1>2. WorkerInv /\ [Next]_vars => WorkerInv'
  BY TypeStep, CourseStep, CacheStep, BindStep, HostStep, OrphansStep,
     StreamStep, MemoryStep, ResultStep, RejectedStep DEF WorkerInv
<1>3. QED
  BY <1>1, <1>2, PTL DEF Spec

(* The variables of TensorRtWorker always have their types.                *)
THEOREM WorkerTypeOK == Spec => []TypeOK
BY WorkerInvariant, PTL DEF WorkerInv

(* What run reports is computed by one execution from the inputs of its    *)
(* own frame, whatever earlier calls have left in the buffers and bound,   *)
(* and whatever of other engines on their streams, if nothing of its own   *)
(* engine was left there when it began.                                    *)
THEOREM WorkerResultIsOfFrame == Spec => []ResultIsOfFrame
BY WorkerInvariant, PTL DEF WorkerInv

(* While a call copies and executes, the context of its engine has the     *)
(* addresses of the cached buffers.                                        *)
THEOREM WorkerBoundToBuffers == Spec => []BoundToBuffers
<1>1. WorkerInv => BoundToBuffers
  BY DEF WorkerInv, CourseInv, CacheInv, Copying, BoundToBuffers
<1>2. QED
  BY <1>1, WorkerInvariant, PTL

(* An engine without inputs or without outputs is never executed.          *)
THEOREM WorkerRejectedNeverExecuted == Spec => []RejectedNeverExecuted
BY WorkerInvariant, PTL DEF WorkerInv

=============================================================================
