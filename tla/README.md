# A verification project for InferEdgeOrchestrator

InferEdgeOrchestrator runs several inference workloads on one edge device. It
takes frames from a source, keeps them in bounded queues, sheds load when the
backlog exceeds a threshold, executes one frame at a time by priority, and
writes a report that explains every decision. This directory holds TLA+ modules
translated from its source, TLC configurations that check them on small
instances, and theorems that TLAPS proves for every instance: every safety and
action property that a passing run checks is also proved.
Paths such as `runtime.py` are below `src/inferedge_orchestrator/`.

## 1. The system

The program is one Python process and one thread. What makes it hard is not
parallel code but long sequences of legal calls: a backlog carried from one
cycle to the next, a policy that looks at queues while it changes them, evidence
kept redundantly in counters and logs, and calls to workers, remote hosts and a
GPU that may fail at any point.

| component | state it keeps | operations | hard behaviour | what makes it correct |
|---|---|---|---|---|
| runtime loop, `runtime.py` | cycle, the frame in flight | `run`, `_record_backlog_and_shed`, `_execute_one` | two loops (cycles, drain) with different exits; an exception of the worker | no frame is lost or counted twice; the run ends; a backlog over the threshold never reaches the worker |
| task queues, `task_queue.py` | one deque for each task | `enqueue`, `pop`, `drop_oldest`, the backlog queries | three overflow policies, two of which behave alike | bounded; frames of a task are served in order |
| policy, `policy.py` | none; reads and changes the queues | `apply` | one walk takes at most one frame of each task, the protected task is fixed before | lowest first; the protected task keeps its frames; one walk per cycle is enough |
| scheduler, `scheduler.py` | none | `choose_next` | ties by deadline, name | no priority inversion, also against the policy |
| frame sources, `frames.py` | a sequence number | `frames_for_cycle` | which payload says what | the number identifies a frame |
| telemetry, `telemetry.py` | counters, peaks, six logs | `record_*`, `to_report` | counters and logs are kept apart; summaries are computed from samples | the report agrees with itself and with what happened |
| configuration, `config.py` | none after loading | loading, validation, merging of manifests and results | which source of a field wins | only valid configurations run |
| overload comparison, `scenarios.py` | the time at which the worker is free | `run_overload_comparison` | nothing executes before the last arrival | both passes see the same frames; the protected task does not lose |
| remote dispatch, `remote_dispatch.py` | none between dispatches | `dispatch_remote_task` | timeouts that may have been carried out, fallbacks, failures that raise | who is called, how often, and whether the result is true |
| workers, `workers.py` | sessions, engines, contexts, buffers | `run` | caches that survive a failed call; a stream that does too | a result is computed from its own frame |
| sustained runs and EdgeEnv feed, `sustained.py` | two files | input overrides, the run, a dozen summaries of its logs, the feed and its validation | inputs assigned by `agent_type`; a feed refused after the report is written; files read by another process while they are written | the summaries agree with each other and with the run; a feed that passes its check says what was executed |
| EdgeEnv feed check, `scripts/check_edgeenv_runtime_feed_contract.py` | none; a process of its own | one check of a feed file | it may run at any time | it never passes an unfinished file |
| command line, `cli.py` | none | one command for each of the above | order of the steps, interrupts | a command ends |
| resource monitor, adapter, starter of the remote HTTP worker | none | input and conversion | - | - |

The runtime calls, for each cycle: the source (`frames_for_cycle`), the queues
(`enqueue`), the telemetry (`record_drop`, `record_backlog`), the policy
(`apply`, which calls `drop_oldest`), the telemetry again, the scheduler
(`choose_next`), the queues (`pop`) and the worker (`run`), and records the
result. After the last cycle the drain loop does the same without the source.
A sustained run wraps this: the command loads the configuration, changes the
inputs of some tasks, calls the runtime, and then derives from its report the
summaries, writes the report, and writes the feed if it is valid.
The overload comparison uses the source, the queues, the policy and the
scheduler without the runtime. Remote dispatch shares nothing with them but the
shape of its records.

`PROJECT.json` lists the hazards, each at its line, with the properties that
would catch it.

## 2. The modules

| module | models | notes |
|---|---|---|
| `RunConfig` | the validated configuration, frames, when a task emits, the two orders of tasks | a task is its rank in the order of names; times are whole numbers |
| `TaskQueues` | `BoundedTaskQueues` | `queue[t]` is the deque of t |
| `LoadShedding` | `LoadSheddingPolicy.apply` | one step for each iteration of its loop: `BeginWalk`, `PassBy`, `Shed`, `WalkEnded` |
| `PriorityScheduler` | `choose_next` | `ServedBefore` is the sort key |
| `Telemetry` | the counters, peaks and logs of `TelemetryCollector` | one operator for each `record_*` |
| `OrchestratorRuntime` | `OrchestratorRuntime.run` | composes the above; `pc` is the statement it is about to execute |
| `RuntimeProperties` | properties of the runtime | also the instance of `FrameLedger` |
| `TelemetryReport`, `ReportProperties` | `to_report` (totals, queue state, worker health, risk rollup) and properties of a finished report | state functions of the telemetry variables |
| `SustainedSummaries` | the summaries of `sustained.py` over a finished report: scenario coverage, pressure windows, policy pressure, stale drops, scheduler fairness, latency budget protection, worker health trend, review hints | state functions, as `TelemetryReport` |
| `SustainedProperties` | - | properties of those summaries, with `ReportProperties` |
| `ConfigMerge` | a task of the configuration merged with its agent manifest and runtime result, and its validation | pure operators; an entry is a partial function from fields |
| `SustainedFeed` | which input each local profile reads and when it raises, the lineage of the feed, the validation of the feed | - |
| `SustainedRun` | the command `run-multi-workload-sustained`, its two files, and the contract check as a second process | extends `OrchestratorRuntime`, whose `Next` is one of its actions |
| `FrameLedger` | the abstract specification: what the runtime promises of its frames | refined by `OrchestratorRuntime` |
| `OverloadScenario` | `run_overload_comparison` | composes the queues, policy and scheduler in its own way |
| `RemoteDispatch` | `dispatch_remote_task` | one step for each call of a worker |
| `TensorRtWorker` | `TensorRtWorker.run` and the CUDA stream | the GPU is an actor of its own |
| `MCRuntime`, `MCScenario`, `MCRemoteDispatch`, `MCTensorRt`, `MCSustainedRun` | - | the constants of the instances |
| `QueueLemmas` | - | lemmas about queues, orders, counts and the steps of a walk, shared by the runtime and the comparison |
| `RuntimeProofs`, `AccountProofs`, `EvidenceProofs` | - | theorems about the runtime, its logs and its reports |
| `ScenarioProofs`, `DispatchProofs`, `WorkerProofs`, `SustainedProofs` | - | theorems about the other components |

How state and actions correspond to the code:

- `config` is a variable that no action changes. It is chosen in `Init`, so that
  one run of TLC covers a whole set of configurations, and a theorem holds for
  every set of valid ones (`ConfigsAssumption`).
- `toVisit` is what an inner `for` loop has not reached. `protected` is the
  result of `_highest_priority_backlogged_task`, as a set of one or none.
- `frames_for_cycle` builds all frames of a cycle before the first is enqueued.
  `Enqueue` builds and enqueues one in a step: building the others touches only
  the sequence number.
- `apply` returns its drops and decisions, and the caller records them in two
  loops. They are recorded at the drop; nothing runs in between.
- `inFlight` is the frame that has been popped and has not been recorded. When
  the worker raises it is in no log, and no report is written: `pc = "failed"`.
- `runtime_event_timeline` repeats the entries of the other logs and is not
  kept a second time.
- In `RemoteDispatch` a place in the registry identifies a worker and `id` is
  its `worker_id`, which two workers may share. `carriedOut` is a ghost: how
  often the task has really been done, which dispatch does not see.
- In `TensorRtWorker` an allocation is a number, `address` is what the execution
  context has bound, `device` and `host` are the cached buffers, and a stream is
  the sequence of the operations it has yet to perform. The call puts them there
  one at a time, and the GPU may perform any part of them, and of what failed calls
  have left behind, in between. A copy reads or writes its buffer when it is
  performed, except that a copy to the device takes what the host array held when
  it was submitted (the arrays of numpy are not page-locked). `Fails` is the failure of
  any call of a library: of `memcpy_htod_async`, `memcpy_dtoh_async` and
  `synchronize` too, the last two with the execution on the stream. `settled` is a
  ghost: whether nothing of the engine was left on a stream when the call began.
- In `SustainedRun`, `step` is the statement the command is about to execute.
  `Load` fills the fields of `config` that come from the files; before it they
  have the values of no task. `write_text` empties a file and then fills it, so a
  file is "partial" for one step; an interrupt there leaves it so, and so does
  an `OSError` of the writing. `WriteFails` is that error and the one of `mkdir` or
  of the opening, which leave the file as it was; it may come at the report, at a
  valid feed, and at the file of a captured snapshot, before the overrides. `gate` is
  the one result of the contract check, which may be run in any state.
- A file that an option names is "none", "good" or "bad" (missing or
  unreadable); the path of an input, which the configuration may name too, may
  also be "empty", a directory without images. `InputFails` says for which files the profile of a task raises;
  `RuntimeStep` lets the worker raise exactly then.

Definitions marked "Mutated form" are plausible mistakes. They are used by no
specification; `PROJECT.json` pairs each with the property that refutes it.

## 3. The runs

All runs are exhaustive.

| run | instance | shows |
|---|---|---|
| `RuntimePair` | two tasks, four cycles, every combination of two priorities, queue sizes 1 and 2, `drop_oldest` and `drop_low_priority`, periods 1 and 2, thresholds 1 and 3, with and without drain, latencies 1 to 3; and queues of three over six cycles, thresholds 2 and 4, cycles without arrivals, runs of no cycle | every frame is in exactly one place and settles; the runtime refines `FrameLedger`; counters, decisions and logs agree; no peak is missed; queues are bounded and in order; the drain loop's `break` is never needed; the risk level is honest, agrees with the hints of a sustained report, and overflows are reported; a task not listed as starving was served; the coverage a report claims has no gap |
| `RuntimeTriple` | three tasks, priorities 0 to 2, sizes 1 and 2, periods 1 and 2, thresholds 1 to 3 | the inductive invariant below; one walk is enough; who is shed and who is served; a task alone at the top never waits; the pressure windows of a report are the decisions of the policy |
| `Scenario` | two tasks, zero and four cycles over many configurations, and 22 cycles over some | both passes account for the same frames; no frame of the protected task is slower by priority, so its 95th percentile does not get worse; a walk takes one frame of each task |
| `RemoteDispatch` | every registry of two workers over the reasons to be ineligible, and many of three; execution or plan only; up to three attempts | who is called and in which order; nothing after a success; the result is true; no doubled execution when none was asked for; a dispatch ends |
| `TensorRt` | three calls by four tasks, two of which share an engine with two outputs, one of which has an engine without outputs; every failure of a library, before and after the execution is on the stream | results come from one execution on their own frame, whatever other engines have left on their streams; the context is bound to the cached buffers; a rejected engine is never executed |
| `SustainedRun` | two tasks, two cycles or none; the inputs of the command line one at a time and in some mixtures, good, bad and empty; a task declared by its entry, by a manifest, and by a manifest and a result that lacks a field; six worker setups; a configured source that is good, bad or empty; a failure of each file that is written; an interrupt and a check at any time | a check that passes means that a complete report lies next to its feed and that a required producer was executed; inputs given are in the evidence; a feed is refused for its lineage only; the fields that matter come from a file; the command ends |
| `RuntimeFileBacked`, `ReportDepth`, `ScenarioShedding`, `RemoteDoubledIds`, `RemoteFailures`, `SustainedCoverage` | - | the six findings of section 6 |

Why the bounds are enough:

- *Queues.* With sizes 1 and 2 every overflow happens in four cycles, and the
  threshold 3 lets both queues fill before the policy acts (2 + 2 > 3); with the
  threshold 1 the policy acts before they do. Where one task emits in every
  second cycle the queues run empty and fill again.
- *Priorities.* Two tasks tie or differ; three are needed for a task between the
  protected one and the first to be shed. The order of names opposes the order
  of deadlines, and the list is in the reverse order of names, so that the ties
  are broken differently by source, policy and scheduler.
- *Latencies* lie below, at and above a budget: task 1 has budget 1, task 2 has 2.
- *Percentile.* Below 20 frames it is the maximum; 22 frames reach a rank that
  is not the last.
- *Dispatch.* Three workers are the fewest with a choice left after one
  fallback. Outcomes are every category the code reports.
- *TensorRT.* Two failed calls, of one engine or of two, and a last one that
  must come out right take three calls; a failed bind and a failed copy, execution
  or synchronization may come in either order. Without `settled`, one failed
  call and one that returns are enough for TLC to refute `ResultIsOfFrame`.
- *Sustained run.* One task is the vision agent, above or below the other, and
  the threshold 1 sheds the lower one in every cycle, so that a configured
  producer may never be executed; the threshold 2 executes both. No cycle leaves
  a report without any producer. The setups are those of the committed
  configurations: profiles without inputs, with a payload or a snapshot, marked
  device-local with and without a stage, and a dummy worker.

`MaxCalls` and `MaxFrames` are the only bounds on counters that are not fields of
a configuration. `CHECK_DEADLOCK FALSE` stands where a run, a dispatch or the
calls come to their end.

Fairness. `FairSpec` of `OrchestratorRuntime` is `WF_vars(Next)`: the interpreter
goes on with a run, and a call of the worker returns or raises. The dummy worker
sleeps a configured time; that a GPU or an ONNX session comes back is an
assumption. `FairSpec` of `RemoteDispatch` is the same; `urlopen` and
`subprocess.run` are called with `timeout_sec`. That of `urlopen` applies to each
socket operation, so a server that sends a byte now and then can stretch a call;
that it ends is assumed. `FairSustainedSpec` asks weak fairness of `CommandNext`,
the statements of the command; `Interrupt` and `CheckFeed` are the acts of others
and are not forced. No fairness is asked of any single action: the outcomes
of a call are never forced.

## 4. The proofs

`tlapm` checks every proof to its leaves. The theorems hold for all values of the
constants that satisfy these assumptions, each of which is something that the
code makes sure of or cannot avoid:

- *Runtime and reports.* Any finite set of tasks (`TaskAssumption`), any set of
  valid configurations (`ConfigsAssumption`: positive sizes, periods, thresholds,
  and an order without ties), any set of latencies (`LatenciesAssumption`) and any
  value for an absent delay (`NoDelayAssumption`).
- *Overload comparison.* Of these, the first two.
- *Remote dispatch.* Any set of registries and requests (`DispatchesAssumption`),
  of any number of workers.
- *TensorRT worker.* Any tasks and engines, where an engine lists each of its
  tensors once (`EngineAssumption`).
- *Sustained runs.* Any set of command lines (`RequestsAssumption`), worker setups
  (`WorkerSetupsAssumption`) and files of the configuration in which each task has
  an entry and the fields have values that the loader can convert
  (`DeclarationsAssumption`). `ConfigsAssumption` is about the configuration
  before it is loaded; that what `Load` accepts is a valid one is proved.

| module | theorems | from |
|---|---|---|
| `RuntimeProofs` | `RuntimeTypeOK` | one lemma for each action |
| | `RuntimeQueueBound` | every step leaves the queues alone, takes a head, or puts in one frame where there is room or for one that goes |
| | `RuntimeBacklogInv`, and from it `RuntimeBacklogWithinThreshold`, `RuntimeNoSheddingInDrain`, `RuntimeDrainNeverStalls` | `BacklogIInv` |
| | `RuntimeTopPriorityNeverWaits`, `RuntimeNoPriorityInversion` | `PriorityIInv` |
| `AccountProofs` | `RuntimeFramesAccounted`, `RuntimeServedInOrder` | `AccountIInv` |
| | `RuntimeLedgerImplemented` | `AccountIInv`, one lemma for each kind of step |
| `EvidenceProofs` | `RuntimePeakRecorded`, `RuntimeShedsLowestFirst`, `RuntimeEvidenceConsistent` | `SheddingIInv`, `EvidenceIInv` |
| | `RuntimeHintsAgreeWithRisk` | `EvidenceIInv` |
| | `RuntimePressureSummariesAgree` | `PressureIInv` |
| | `RuntimeCoverageIsComplete` | `CoverageIInv` |
| | `RuntimeOverflowShowsCapacity`, `RuntimeRiskLevelIsHonest`, `RuntimeFairnessIsHonest` | `ReportIInv` |
| `ScenarioProofs` | `ScenarioTypeOK`, `ScenarioWalkTakesOneOfEach` | the second from `WalkInv` |
| | `ScenarioSameFrames` | `SameFramesInv` |
| | `ScenarioProtectedNotSlower` | `GainInv` |
| `DispatchProofs` | `DispatchTypeOK`, `DispatchSuccessEnds`, `DispatchCallsByPreference`, `DispatchResultIsTruthful`, `DispatchNotCarriedOutTwice` | `DispatchInv`, `OrderInv`, `EffectInv` |
| `WorkerProofs` | `WorkerTypeOK`, `WorkerResultIsOfFrame`, `WorkerBoundToBuffers`, `WorkerRejectedNeverExecuted` | `WorkerInv` |
| `SustainedProofs` | `SustainedTypes` | `TypesInv` |
| | `SustainedBudgetsStated` | `RunInv`, `LoadedInv` |
| | `SustainedGateMeansProduced`, `SustainedRefusedOnlyForLineage` | `RunInv`, `FileInv`, `GateInv` |
| | `SustainedOverridesTraced` | `RunInv`, `FileInv`, `OverriddenInv`, `ReadInv` |

Types. `TypeOK` of the runtime contains `ValidConfig(config)`, so that no later
proof needs to know where the configuration came from, and the runtime's `Init`
is used only through `Started`, which says the same of a configuration that is
merely valid. This is what lets the sustained command, which loads its
configuration in a step of its own, use the runtime's lemmas as they are.

Sums. The number of frames in all queues, or executed by all tasks, is
`SumFunction`, a fold. Induction over data is out of the prover's reach, so
`QueueLemmas` relates such a sum to the cardinality of a set of units, a pair for
each task and each number up to its count, and argues about the set.

The backlog argument. A walk of the policy takes at most one frame of each task
and never one of the protected task, so nothing in `policy.py` alone brings a
backlog of, say, threshold + 3 back under the threshold (in the overload
comparison it does not: section 6). In the runtime it does, because of what the
other parts do, and the property is not inductive without saying so. `BacklogInv`
says that before the worker's turn the backlog is at most

    threshold - 1 + Cardinality(Owing)

where `Owing` holds the tasks that emitted in this cycle and that the walk has
not passed (the protected task stays in it), and that each of them has a frame.
A cycle starts at threshold - 1 or less, since the worker has taken a frame or the
queues are empty; each arrival adds one task to `Owing` and at most one frame;
each step of the walk above the threshold takes a frame of a task and the task
from `Owing`; a walk that has passed all but the protected task ends at the
threshold at most. In the drain loop nobody owes, so the policy has nothing to do,
and the scheduler always finds a candidate.

The priority argument. `TopPriorityNeverWaits` says what a task alone at the
highest priority gets, and to carry over a step it has to say why. `NeverWaits`
adds that such a task has at most one frame, that its queue is empty when its
arrival comes (so that it never meets a full queue, even of size 1), that the
policy protects it whenever it has both a frame and work to do, and that its
queue is empty again after the scheduler's choice. `OwnFrames` ties the task of a
frame to its queue, which the counters need; `ProtectedIsHighest` keeps the
policy's choice valid until the scheduler makes its own, which sorts ties in
another way.

The accounting argument. That no frame is lost or counted twice needs to know
that a number stands for one frame. `AccountIInv` says that the numbers in the
four places (queues, worker, results, drops) are exactly those a source has given
out and that there are as many entries as numbers, so no number is in two
entries; that at most one frame is with the worker; that the queues of two tasks
share no number; and, for the order of service, that each queue is increasing and
that everything that has left it at its head, served, evicted or shed, is older
than what it holds. A step is an arrival, a move from one place to another, or a change of
something else, and each kind is argued once. The refinement of `FrameLedger`
follows: an arrival is an arrival, a drop is a drop, the pop of a frame is
invisible and its record is the execution. `FrameLedger` asks no fairness; that
every frame settles is a property of the runtime alone (`EveryFrameSettles`).

The evidence argument. The policy's decision names a protected task, so there has
to be one whenever a walk sheds: above the threshold some task has a backlog, and a
finite set of tasks with a backlog has a first in the policy's order. Induction
over data being out of reach, the proof takes the task with the fewest ahead of
it, by the well-foundedness of the natural numbers. `WalkInv` ties the queues to
the last sample of the depths while a walk lasts (a task not yet passed has the
depth that was sampled, one passed has one frame less, or none), which is what
makes "lowest first" a statement about the backlog the decisions were taken on.
`EvidenceConsistent` is carried by three equations: each counter is the
cardinality of the entries of its log.

The dispatch argument. `DispatchInv` gives the course: a fallback follows a failed
primary call, a success is the last call there is, nothing is written before the
end. `OrderInv` says that each candidate is the selected one, still to be tried or
tried once, and that what was tried ranks before what is to be tried; it needs
the ids to be unique (`RemoteDoubledIds` shows why). `EffectInv` relates the ghost
`carriedOut` to what the calls tell: no call performed, nothing carried out; a
success, something carried out; and for a cautious request nothing has been carried
out when its one fallback is called.

The report argument. A report reads logs that were written at different times,
so its properties need what the logs say of each other. `PlacesInv` says where
the samples of the depths are: each cycle has two, and only the one before the
policy of a cycle with arrivals can be above the threshold, because the walk brings
the backlog back (the backlog argument). Hence each window of pressure is one
sample. `DecisionInv` ties the samples above the threshold to the decisions of the
policy: each has a decision taken on the depth it shows, and each decision was
taken on a depth that some sample reaches. `ExecutionsInv` says that executions
have strictly increasing cycles and that every turn of the drain loop has one,
which is why a complete coverage has no gap. `TakenInv` counts the frames of a task
(executed, dropped, queued and with the worker) against the cycles in which it has
emitted, so that after a drain each frame is an execution or a drop, and a task
that has emitted and is not listed as starving has executions. `OverflowInv` says
that a frame lost to a full queue leaves a peak of at least the size of that queue by
the next sample.

The comparison argument. Both passes draw frames from sources of their own.
`PositionInv` says that the number of a frame is its place in the baseline: the
second pass draws, in the same order, exactly the frames that the first executed.
`SameFrames` then follows by counting (`AccountInv`). For `ProtectedNotSlower`,
`GainInv` follows a task alone at the highest priority. The frames of it that are
kept follow each other without a gap in the order of the baseline; while it has a
frame nothing else is executed; and its k-th execution takes no longer than any
execution of the baseline that is the k-th of the task or a later one. The baseline
obeys a recurrence (`BaselineRecurrence`): a frame of the task waits at least as
long as the one before it, less the time between their arrivals. The second pass
obeys it with equality, which is the whole gain. The percentile is stated as the
least latency that enough executions do not exceed, and a smaller set of smaller
latencies has a percentile that is no larger.

The worker argument. What could go wrong is that a call reads memory or a host
array that an earlier, failed call still writes. `OrphansInv` says that what failed
calls have left on their streams (copies to inputs, executions, copies of outputs)
is `Orderly`: on tensors of cached engines. `CacheInv` says that each cached tensor
has an allocation of its own, whose address is what the context has bound; so an
operation of one engine does not touch the buffers of another. `SettledInv` says
that a settled call keeps what it began with: nothing of its own engine on
another stream, until it fails or the next call begins. `HostInv` says that, once
a call copies, the host arrays of its inputs hold what it wants. `StreamInv` gives the
order of the operations of the call (copies in, each with the value that is
wanted, the execution, copies out), and `MemoryInv`, for a settled call, what has
been computed at each point of it: before the execution every input that was
passed is in memory or pending; after it one execution is `Own`, the memory of every
output holds its number, and every output that was passed is in the host array or
pending. The executions that others append in between do not change that. `CourseInv` and `BindInv` say the same of a call that is
still creating its engine, context and buffers.

The sustained argument. A step of the command is a step of the runtime, or leaves
the runtime alone, or sets its configuration before it has started; so `RunInv`
carries the runtime's evidence argument through the command. `LoadedInv` says that
the configuration keeps the budgets and policies that `validate` has accepted.
`FileInv` gives the order of the files: a report only after a complete run, a feed
only next to its report and only when its lineage is valid, and not the whole of it
when the command has raised: that was a refusal, or a failed write. With `EvidenceIInv`
the summaries of a report are well-formed, so the lineage is the one reason left to
refuse a feed (`FeedOk`), and `GateInv` says what a check that passed has found,
whenever it ran. `OverriddenInv` says that after the overrides each task that reads
an input of the command line is marked, and `ReadInv` that a task with a result has
been able to read its input.

Two proof attempts have changed the model. The operator `Window` of
`SustainedSummaries` had a bullet in the wrong column, so that its condition on
earlier samples belonged to another conjunct than meant; the peak it chose could not
be shown to exist. And the type of a loaded configuration could not be shown without
`Convertible`, which says what the conversions of `config.py` accept; a file they do
not accept raises in `from_dict`, before anything that is modelled.

Only model-checked: the liveness properties `EveryFrameSettles`, `DispatchEnds` and
`CommandEnds`, which are out of the prover's reach, and the six runs of section 6,
which show counterexamples.

## 5. What is not modelled

- `monitor.py` (reads `/proc`), `inferedge_adapter.py` (one conversion of fields)
  and `scripts/remote_http_worker.py` (answers each request on its own): none
  keeps state between two calls.
- Of `sustained.py`: the workload profiles, the identity of the scenario, the
  samples of tegrastats and the resource context, which copy values from inputs
  into the report. Nothing in the program reads them back.
- Of `config.py`: parsing, and the fields that are only copied.
- The other commands of `cli.py`, which call one modelled function each.
- The ONNX Runtime worker (a cache of sessions that is filled once) and the
  digests that the local profiles compute. To the runtime a worker is a latency or
  an exception; to a sustained run it is also the input it has read.
- Means and percentiles of the report, resource snapshots and the fields copied
  from manifests and results; reasons are named, their wording is not.
- Non-integral times. The comparison of a latency with a budget and the ranks of
  deadlines are the only uses that matter to the control.
- Real elapsed time in the runtime: `created_at_ms` follows from the cycle.

- In the TensorRT worker, what two operations do at the same time: each is one step.
  Two calls that fail and succeed on the same engine are modelled with every order of
  their operations, but `ResultIsOfFrame` is stated for a call that begins when
  nothing of its own engine is left on a stream (`settled`). This is a limit of the
  code, not of the model: nothing in it waits for the stream of a failed call, and
  without the condition TLC finds a result that is computed from the input of an
  earlier frame: the first call raises after it has submitted its input copy, the
  second copies its own input, the late copy is performed, and the second executes.

Some behaviour is modelled as it is and has no property of its own:

- `deadline_missed` compares the worker's latency with the budget; time in the
  queue does not count.
- A connect timeout of `urlopen` arrives as `URLError` and is reported as
  `connection_error`, so `fallback_on: ["timeout"]` does not match it.
- `fallback_on` is compared with the error of the primary call only. After a
  first fallback any error leads to the next worker, up to `max_attempts`.
- When a dispatch raises, the result file of an earlier one stays in place.
- The comparison takes its interval from an argument, not from the file.
- Every pressure window is one cycle long (`PressureSummariesAgree`), so
  `longest_window_cycles` is 0 or 1 whatever the load.
- A vision input on the command line makes the frames of all tasks file-backed,
  so such a run has no evidence of scheduler delay (see `RuntimeFileBacked`).
- An input for an agent type that no task has is ignored without a message.
- A configuration in which only the vision task, or only the voice task, has an
  input but is not marked device-local runs to the end, writes its report, and
  then raises if a feed was asked for (`RefusedOnlyForLineage`).
- A feed that cannot be written raises when the report is complete, as a refusal
  does; unlike a refusal it may leave an unfinished feed.
- A runtime result without `scheduled_priority` gives the task priority 0, even if
  its manifest states another; the budget, in contrast, is then refused.
- `drop_newest` losses are not counted among the stale drops.

## 6. Findings

Each run reaches a state that contradicts a sentence of the documents.

- `RuntimeFileBacked`: frames of image and video sources carry no cycle, so
  delays in such runs are always absent and no task is listed as delayed.
- `ReportDepth`: `final_queue_depth` is the last sample, taken before the last
  execution; a run that drained reports a frame that is still queued.
- `ScenarioShedding`: a walk can end above the threshold with eligible frames
  left. Only the comparison gets there; the runtime does not (section 4).
- `RemoteDoubledIds`: with a repeated `worker_id` the fallback calls a worker
  that was rejected.
- `RemoteFailures`: some failures of a call raise out of `dispatch_remote_task`
  and no result is written.
- `SustainedCoverage`: the scenario coverage calls a count of all events of
  device-local tasks `device_local_producer_count`; the producer signals of the
  same report count results under that name. The run recorded in
  `docs/jetson_smoke_test.md:259-260` has 35 of the one and 99 of the other.

## 7. Plan

1. The arguments behind the liveness properties, as far as they are safety: for
   each of `EveryFrameSettles`, `DispatchEnds` and `CommandEnds` a measure that every
   step of the program decreases, stated as an action property and proved. What
   remains for TLC is then only that a step is taken.
2. Absence of deadlock in the same form: in every state that is not an end, the
   guard of some action holds (the guards, not `ENABLED`).
3. The session cache of the ONNX worker and the resource context, when a property
   of the reports comes to depend on them.
