---------------------------- MODULE TensorRtWorker ----------------------------
(***************************************************************************)
(* TensorRtWorker (workers.py): the engines, execution contexts and bound  *)
(* buffers that are kept from one call of run to the next, for each engine *)
(* path, and the CUDA stream on which a call copies and computes.          *)
(*                                                                         *)
(* The GPU works through a stream on its own time.  A call that fails      *)
(* leaves its stream behind with what it has submitted: copies of inputs,  *)
(* the execution, copies of outputs.  TensorRT, PyCUDA and the file system *)
(* are external: each of their calls may fail.                             *)
(***************************************************************************)
EXTENDS Integers, Sequences, Functions

CONSTANTS
  Task, Path,
  EnginePath,         \* the engine_path of a task
  Name, InputName,    \* the names of tensors, and of those of mode INPUT
  IoTensors,          \* the tensors of an engine, in the order of their index
  MaxCalls            \* bound on the calls of run

ASSUME EngineAssumption ==
  /\ EnginePath \in [Task -> Path]
  /\ InputName \subseteq Name
  /\ IoTensors \in [Path -> Seq(Name)]
  /\ \A p \in Path : IsInjective(IoTensors[p])
  /\ MaxCalls \in Nat

VARIABLES
  pc, task,
  given,              \* payload["tensorrt_inputs"] of the frame
  calls,              \* the calls of run; the value of a given input
  index,              \* the tensor that the loops of a call have come to
  outcome,            \* how the last call ended
  engines, contexts,  \* the paths in _engines and _contexts
  described,          \* the paths whose metadata has io_tensors
  cached,             \* the paths in _buffers
  host, device,       \* the host array and the allocation of each buffer
  fresh,              \* the allocations of _allocate_and_bind_buffers
  address,            \* the address each tensor has in the context of a path
  memory,             \* the contents of each allocation
  stream,             \* the operations of the stream of this call
  orphans,            \* the streams of failed calls
  executions,         \* ghost: the path and the inputs of each execution
  settled             \* ghost: no earlier call had left an operation of the
                      \* engine on its stream when this one began

frame   == <<task, given, calls, settled>>
caches  == <<engines, contexts, described, cached>>
buffers == <<host, device, fresh, address>>
streams == <<stream, orphans>>
vars    == <<pc, frame, index, outcome, caches, buffers, memory, streams,
             executions>>

path == EnginePath[task]
Tensors(p) == Range(IoTensors[p])
Inputs(p)  == Tensors(p) \cap InputName
Outputs(p) == Tensors(p) \ InputName

Addresses  == [Name -> Nat]
NoAddress  == [n \in Name |-> 0]
Operations == [op : {"htod"}, path : Path, name : Name, value : Int]
                \cup [op : {"execute"}, path : Path]
                \cup [op : {"dtoh"}, path : Path, name : Name]

\* What an allocation holds before anything is copied to it.
Uninitialized == -1

TypeOK ==
  /\ pc \in {"idle", "resolve", "engine", "context", "buffers", "bind",
             "populate", "copy in", "copy out"}
  /\ task \in Task
  /\ given \in [InputName -> {"absent", "fits", "mismatched"}]
  /\ calls \in 0 .. MaxCalls /\ settled \in BOOLEAN
  /\ index \in Nat \ {0}
  /\ cached \subseteq described /\ described \subseteq contexts
  /\ contexts \subseteq engines /\ engines \subseteq Path
  /\ host \in [Path -> [Name -> Int]]
  /\ device \in [Path -> Addresses] /\ fresh \in Addresses
  /\ address \in [Path -> Addresses]
  /\ memory \in Seq(Int)
  /\ stream \in Seq(Operations) /\ orphans \in [1 .. calls -> Seq(Operations)]
  /\ \A i \in DOMAIN executions :
       executions[i].inputs \in [Inputs(executions[i].path) -> Int]

Init ==
  /\ pc = "idle" /\ task \in Task /\ calls = 0 /\ index = 1
  /\ given = [n \in InputName |-> "absent"]
  /\ outcome = "none" /\ settled = TRUE
  /\ engines = {} /\ contexts = {} /\ described = {} /\ cached = {}
  /\ host = [p \in Path |-> [n \in Name |-> 0]]
  /\ device = [p \in Path |-> NoAddress] /\ fresh = NoAddress
  /\ address = [p \in Path |-> NoAddress]
  /\ memory = <<>> /\ stream = <<>> /\ orphans = <<>> /\ executions = <<>>

-----------------------------------------------------------------------------
\* An exception leaves run.  The stream of the call is left as it is.
Raise(error) ==
  /\ pc' = "idle" /\ outcome' = error
  /\ orphans' = [orphans EXCEPT ![calls] = stream]
  /\ stream' = <<>>

\* run is called with a frame.
Run(t, g) ==
  /\ pc = "idle" /\ calls < MaxCalls
  /\ pc' = "resolve" /\ task' = t /\ given' = g
  /\ calls' = calls + 1 /\ index' = 1 /\ outcome' = "none"
  /\ settled' = \A c \in DOMAIN orphans : \A o \in Range(orphans[c]) :
                   o.path # EnginePath[t]
  /\ orphans' = Append(orphans, <<>>)
  /\ UNCHANGED <<caches, buffers, memory, stream, executions>>

\* The loops of _execute have come to one of the tensors.
AtTensorOf(names) ==
  index <= Len(IoTensors[path]) /\ IoTensors[path][index] \in names

\* A call of a library or of the file system fails; each look into a cache
\* resolves the path of the engine again.  A copy that raises was not
\* submitted; an error of what was submitted surfaces in a later call, at the
\* latest in synchronize.
Fails ==
  /\ \/ pc \in {"resolve", "engine", "buffers"} /\ Raise("no_engine_file")
     \/ pc = "engine" /\ path \notin engines /\ Raise("not_deserialized")
     \/ pc = "context" /\ Raise("no_context")
     \/ pc = "bind" /\ index <= Len(IoTensors[path]) /\ Raise("unsupported")
     \/ pc = "populate" /\ index = 1 /\ Raise("unsupported")
     \/ pc = "copy in" /\ AtTensorOf(Inputs(path)) /\ Raise("not_copied")
     \/ pc = "copy out" /\ AtTensorOf(Outputs(path)) /\ Raise("not_copied")
     \/ /\ pc = "copy out" /\ index > Len(IoTensors[path])
        /\ Raise("not_synchronized")
  /\ UNCHANGED <<frame, index, caches, buffers, memory, executions>>

Resolve ==
  /\ pc = "resolve"
  /\ pc' = IF path \in contexts THEN "buffers" ELSE "engine"
  /\ UNCHANGED <<frame, index, outcome, caches, buffers, memory, streams,
                 executions>>

\* _engine_for.
LoadEngine ==
  /\ pc = "engine"
  /\ engines' = engines \cup {path}
  /\ pc' = "context"
  /\ UNCHANGED <<frame, index, outcome, contexts, described, cached,
                 buffers, memory, streams, executions>>

\* Mutated form: the tensors are stored before they are looked at.
CreateContextUninspected ==
  /\ pc = "context"
  /\ contexts' = contexts \cup {path}
  /\ address' = [address EXCEPT ![path] = NoAddress]
  /\ described' = described \cup {path}
  /\ IF Inputs(path) # {} /\ Outputs(path) # {}
       THEN pc' = "buffers" /\ UNCHANGED <<outcome, streams>>
       ELSE Raise("no_tensors")
  /\ UNCHANGED <<frame, index, engines, cached, host, device, fresh, memory,
                 executions>>

\* _context_for stores the context and then inspects the tensors.
CreateContext ==
  /\ pc = "context"
  /\ contexts' = contexts \cup {path}
  /\ address' = [address EXCEPT ![path] = NoAddress]
  /\ IF Inputs(path) # {} /\ Outputs(path) # {}
       THEN /\ described' = described \cup {path}
            /\ pc' = "buffers"
            /\ UNCHANGED <<outcome, streams>>
       ELSE Raise("no_tensors") /\ UNCHANGED described
  /\ UNCHANGED <<frame, index, engines, cached, host, device, fresh, memory,
                 executions>>

\* Mutated form: an engine without io_tensors is bound all the same.
BuffersUndescribed ==
  /\ pc = "buffers"
  /\ pc' = IF path \in cached THEN "populate" ELSE "bind"
  /\ UNCHANGED <<frame, index, outcome, caches, buffers, memory, streams,
                 executions>>

\* _buffers_for.
Buffers ==
  /\ pc = "buffers"
  /\ IF path \notin described /\ path \notin cached
       THEN Raise("key_error")
       ELSE /\ pc' = IF path \in cached THEN "populate" ELSE "bind"
            /\ UNCHANGED <<outcome, streams>>
  /\ UNCHANGED <<frame, index, caches, buffers, memory, executions>>

-----------------------------------------------------------------------------
\* _allocate_and_bind_buffers, one tensor at a time.
Allocate(n) ==
  /\ pc = "bind" /\ index <= Len(IoTensors[path])
  /\ n = IoTensors[path][index]
  /\ memory' = Append(memory, Uninitialized)
  /\ fresh' = [fresh EXCEPT ![n] = Len(memory')]

Bind(n) ==
  /\ Allocate(n)
  /\ address' = [address EXCEPT ![path][n] = Len(memory')]
  /\ index' = index + 1
  /\ UNCHANGED <<pc, frame, outcome, caches, host, device, streams,
                 executions>>

\* set_tensor_address returns false, the address set or not.
BindFails(n) ==
  /\ Allocate(n)
  /\ address' \in {address, [address EXCEPT ![path][n] = Len(memory')]}
  /\ Raise("not_bound")
  /\ UNCHANGED <<frame, index, caches, host, device, executions>>

\* Mutated form: the buffers are stored as soon as the first is bound.
BoundEarly ==
  /\ pc = "bind" /\ index > 1
  /\ cached' = cached \cup {path}
  /\ device' = [device EXCEPT ![path] = fresh]
  /\ host' = [host EXCEPT ![path] = [n \in Name |-> 0]]
  /\ pc' = "populate" /\ index' = 1
  /\ UNCHANGED <<frame, outcome, engines, contexts, described, fresh,
                 address, memory, streams, executions>>

Bound ==
  /\ pc = "bind" /\ index > Len(IoTensors[path])
  /\ cached' = cached \cup {path}
  /\ device' = [device EXCEPT ![path] = fresh]
  /\ host' = [host EXCEPT ![path] = [n \in Name |-> 0]]
  /\ pc' = "populate" /\ index' = 1
  /\ UNCHANGED <<frame, outcome, engines, contexts, described, fresh,
                 address, memory, streams, executions>>

-----------------------------------------------------------------------------
\* Mutated form: an input that is not given keeps what it holds.
PopulateGiven(n) ==
  /\ pc = "populate" /\ index <= Len(IoTensors[path])
  /\ n = IoTensors[path][index]
  /\ IF n \in InputName /\ given[n] = "mismatched"
       THEN Raise("mismatch") /\ UNCHANGED <<index, host>>
       ELSE /\ host' = IF n \in InputName /\ given[n] = "fits"
                         THEN [host EXCEPT ![path][n] = calls]
                         ELSE host
            /\ index' = index + 1
            /\ UNCHANGED <<pc, outcome, streams>>
  /\ UNCHANGED <<frame, caches, device, fresh, address, memory, executions>>

\* _populate_inputs, one buffer at a time.
Populate(n) ==
  /\ pc = "populate" /\ index <= Len(IoTensors[path])
  /\ n = IoTensors[path][index]
  /\ IF n \in InputName /\ given[n] = "mismatched"
       THEN Raise("mismatch") /\ UNCHANGED <<index, host>>
       ELSE /\ host' = IF n \in InputName
                         THEN [host EXCEPT ![path][n] =
                                 IF given[n] = "fits" THEN calls ELSE 0]
                         ELSE host
            /\ index' = index + 1
            /\ UNCHANGED <<pc, outcome, streams>>
  /\ UNCHANGED <<frame, caches, device, fresh, address, memory, executions>>

Populated ==
  /\ pc = "populate" /\ index > Len(IoTensors[path])
  /\ pc' = "copy in" /\ index' = 1
  /\ UNCHANGED <<frame, outcome, caches, buffers, memory, streams,
                 executions>>

\* The loops of _execute, which put a copy of each input on the stream, and
\* of each output when the execution has been put there.  The host arrays are
\* not page-locked: what is copied to the device is what they hold when the
\* copy is submitted.
Copies(n, names, operation) ==
  /\ index <= Len(IoTensors[path])
  /\ n = IoTensors[path][index]
  /\ stream' = IF n \in names THEN Append(stream, operation) ELSE stream
  /\ index' = index + 1
  /\ UNCHANGED <<pc, frame, outcome, caches, buffers, memory, orphans,
                 executions>>

CopyIn(n) ==
  /\ pc = "copy in"
  /\ Copies(n, Inputs(path), [op |-> "htod", path |-> path, name |-> n,
                              value |-> host[path][n]])

CopyOut(n) ==
  /\ pc = "copy out"
  /\ Copies(n, Outputs(path), [op |-> "dtoh", path |-> path, name |-> n])

Execute ==
  /\ pc = "copy in" /\ index > Len(IoTensors[path])
  /\ stream' = Append(stream, [op |-> "execute", path |-> path])
  /\ pc' = "copy out" /\ index' = 1
  /\ UNCHANGED <<frame, outcome, caches, buffers, memory, orphans,
                 executions>>

\* execute_async_v3 returns false: the copies have been submitted.
ExecuteFails ==
  /\ pc = "copy in" /\ index > Len(IoTensors[path])
  /\ Raise("not_executed")
  /\ UNCHANGED <<frame, index, caches, buffers, memory, executions>>

\* synchronize returns when the stream is empty.
Return ==
  /\ pc = "copy out" /\ index > Len(IoTensors[path]) /\ stream = <<>>
  /\ pc' = "idle" /\ outcome' = "ok"
  /\ UNCHANGED <<frame, index, caches, buffers, memory, streams, executions>>

-----------------------------------------------------------------------------
\* The GPU carries out an operation.  An execution writes its own number to
\* the outputs, at the addresses that the context has.
Perform(o) ==
  \/ /\ o.op = "htod"
     /\ memory' = [memory EXCEPT ![device[o.path][o.name]] = o.value]
     /\ UNCHANGED <<host, executions>>
  \/ /\ o.op = "execute"
     /\ executions' = Append(executions,
          [path |-> o.path,
           inputs |-> [n \in Inputs(o.path) |-> memory[address[o.path][n]]]])
     /\ memory' = [a \in DOMAIN memory |->
          IF \E n \in Outputs(o.path) : address[o.path][n] = a
            THEN Len(executions') ELSE memory[a]]
     /\ UNCHANGED host
  \/ /\ o.op = "dtoh"
     /\ host' = [host EXCEPT ![o.path][o.name] =
                   memory[device[o.path][o.name]]]
     /\ UNCHANGED <<memory, executions>>

GpuStep ==
  /\ \/ /\ stream # <<>>
        /\ Perform(Head(stream))
        /\ stream' = Tail(stream) /\ UNCHANGED orphans
     \/ \E c \in DOMAIN orphans :
          /\ orphans[c] # <<>>
          /\ Perform(Head(orphans[c]))
          /\ orphans' = [orphans EXCEPT ![c] = Tail(@)] /\ UNCHANGED stream
  /\ UNCHANGED <<pc, frame, index, outcome, caches, device, fresh, address>>

Next ==
  \/ \E t \in Task, g \in [InputName -> {"absent", "fits", "mismatched"}] :
       Run(t, g)
  \/ Fails
  \/ Resolve \/ LoadEngine \/ CreateContext \/ Buffers
  \/ \E n \in Name : Bind(n) \/ BindFails(n)
  \/ Bound
  \/ \E n \in Name : Populate(n)
  \/ Populated
  \/ \E n \in Name : CopyIn(n) \/ CopyOut(n)
  \/ Execute \/ ExecuteFails \/ Return
  \/ GpuStep

Spec == Init /\ [][Next]_vars

-----------------------------------------------------------------------------
(* What run reports is computed by one execution of its engine, from the   *)
(* inputs of its own frame: the given ones, and zero for each that is not  *)
(* given, never a value that an earlier frame, of this task or of another  *)
(* task of the same engine, has left in a buffer, wherever earlier calls   *)
(* have failed, and whatever of other engines they have left on their      *)
(* streams.  It is so for a call that begins when nothing of its own       *)
(* engine is left: nothing orders the streams of two calls, and operations *)
(* of both on the same buffers may mix.                                    *)
ResultIsOfFrame ==
  pc = "idle" /\ outcome = "ok" /\ settled =>
    \E k \in DOMAIN executions :
      /\ executions[k] =
           [path |-> path,
            inputs |-> [m \in Inputs(path) |->
                          IF given[m] = "fits" THEN calls ELSE 0]]
      /\ \A n \in Outputs(path) : host[path][n] = k

(* While a call copies and executes, the context has the addresses of the  *)
(* cached buffers, although earlier calls may have bound some of the       *)
(* tensors to allocations that were given up when a later one failed.      *)
BoundToBuffers ==
  pc \in {"populate", "copy in", "copy out"} =>
    \A n \in Tensors(path) : address[path][n] = device[path][n]

(* An engine without inputs or without outputs is not executed: the        *)
(* context of one stays cached when its inspection fails, and a later call *)
(* finds it.                                                               *)
RejectedNeverExecuted ==
  \A i \in DOMAIN executions :
    LET p == executions[i].path IN Inputs(p) # {} /\ Outputs(p) # {}

=============================================================================
