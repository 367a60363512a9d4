----------------------------- MODULE SustainedFeed -----------------------------
(***************************************************************************)
(* The EdgeEnv telemetry feed of a sustained run: which input produced     *)
(* each result (workers.py, the local profiles), the lineage that the feed *)
(* derives from it, and the validation of the feed (sustained.py).         *)
(*                                                                         *)
(* A file named by an option is "none" (not named), "good" or "bad" (it is *)
(* missing, or not what the worker can read).  An input path may also be   *)
(* "empty", a directory without images.                                    *)
(***************************************************************************)
EXTENDS SustainedSummaries, ConfigMerge

VARIABLES
  options,     \* the worker_options of each task, and its agent_type
  inputPath    \* what is at input_path, when the frames come from a file

Paths      == {"none", "good", "bad"}
InputPaths == {"good", "bad", "empty"}
Workloads  == {"realtime_vision", "voice_command", "telemetry_monitor",
               "utility"}

\* localProfile: the implementation is local_profile_adapter; model, ingress
\* and snapshot: vision_model_path (with its backend), ingress_payload_path
\* and resource_snapshot_path; staged: producer_stage is given.
WorkerOptions ==
  [agent : Agents, localProfile : BOOLEAN, workload : Workloads,
   model : Paths, ingress : Paths, snapshot : Paths,
   snapshotSource : {"resource_snapshot_fixture",
                     "process_resource_snapshot"},
   deviceLocal : BOOLEAN, staged : BOOLEAN]

Profiles(t, workload) ==
  options[t].localProfile /\ options[t].workload = workload

\* _vision_file_sample, _voice_ingress_profile and _safety_resource_profile
\* raise when the file they read is bad.
VisionInputFails(t) ==
  /\ Profiles(t, "realtime_vision")
  /\ \/ config.fileBacked /\ inputPath = "bad"
     \/ options[t].model = "bad"

IngressFails(t) == Profiles(t, "voice_command") /\ options[t].ingress = "bad"

SnapshotFails(t) ==
  Profiles(t, "telemetry_monitor") /\ options[t].snapshot = "bad"

\* The run of the worker raises.
InputFails(t) == VisionInputFails(t) \/ IngressFails(t) \/ SnapshotFails(t)

NoSource == "none"

\* producer_source of the output of a run.
ProducerSource(t) ==
  IF Profiles(t, "realtime_vision") /\ config.fileBacked
    THEN "frame_file"
  ELSE IF Profiles(t, "voice_command") /\ options[t].ingress # "none"
    THEN "fastapi_request_fixture"
  ELSE IF Profiles(t, "telemetry_monitor") /\ options[t].snapshot # "none"
    THEN options[t].snapshotSource
  ELSE NoSource

DeviceLocalTasks == {t \in Task : options[t].deviceLocal}

\* The tasks whose producer_sources is not empty: record_execution adds the
\* source of each result.
ProducingTasks ==
  {t \in Task : executed[t] > 0 /\ ProducerSource(t) # NoSource}

ProducerEvents ==
  {i \in DOMAIN resultEvents : resultEvents[i].frame.task \in ProducingTasks}

(***************************************************************************)
(* device_local_event_count of the runtime event summary.  It counts every *)
(* event that names a device-local task: its schedules and drops too.      *)
(***************************************************************************)
DeviceLocalEventCount ==
  Cardinality({i \in DOMAIN scheduleDecisions :
                 scheduleDecisions[i] \in DeviceLocalTasks})
    + Cardinality({i \in DOMAIN resultEvents :
                     resultEvents[i].frame.task \in DeviceLocalTasks})
    + Cardinality({i \in DOMAIN dropEvents :
                     dropEvents[i].frame.task \in DeviceLocalTasks})

-----------------------------------------------------------------------------
\* _edgeenv_producer_context, {} if no task has produced.
HasLineage == ProducingTasks # {}

\* Mutated form: every device-local task counts as a source.
LineageOfConfiguredTasks ==
  [role               |-> "supplemental",
   sources            |-> {ProducerSource(t) : t \in ProducingTasks
                                                 \cup DeviceLocalTasks},
   deviceLocalSources |-> {ProducerSource(t) : t \in DeviceLocalTasks},
   byTask             |-> [t \in ProducingTasks \cup DeviceLocalTasks |->
                             {ProducerSource(t)}],
   stagedTasks        |-> {t \in Task : options[t].staged},
   events             |-> Cardinality(ProducerEvents),
   deviceLocalEvents  |-> DeviceLocalEventCount,
   deviceLocalTasks   |-> Cardinality(DeviceLocalTasks)]

Lineage ==
  [role               |-> "supplemental",
   sources            |-> {ProducerSource(t) : t \in ProducingTasks},
   deviceLocalSources |-> {ProducerSource(t) :
                             t \in DeviceLocalTasks \cap ProducingTasks},
   byTask             |-> [t \in ProducingTasks |-> {ProducerSource(t)}],
   stagedTasks        |-> {t \in Task : options[t].staged},
   events             |-> Cardinality(ProducerEvents),
   deviceLocalEvents  |-> DeviceLocalEventCount,
   deviceLocalTasks   |-> Cardinality(DeviceLocalTasks)]

\* The producer fields of the scenario coverage.
CoverageOfProducers ==
  IF HasLineage
    THEN [producerSourceCount      |-> Lineage.events,
          deviceLocalProducerCount |-> Lineage.deviceLocalEvents]
    ELSE [producerSourceCount |-> 0, deviceLocalProducerCount |-> 0]

\* _producer_source_signals: it goes by the name of the source.
ProducerSourceSignals ==
  LET fromDevice ==
        {i \in ProducerEvents :
           ProducerSource(resultEvents[i].frame.task) \in
             {"frame_file", "fastapi_request_fixture",
              "resource_snapshot_fixture", "process_resource_snapshot"}}
  IN  [producerSourceCount      |-> Cardinality(ProducerEvents),
       deviceLocalProducerCount |-> Cardinality(fromDevice)]

Operation ==
  [queueDepth       |-> MaxTotalQueueDepth,
   timeline         |-> OperationTimelineSummary,
   policyPressure   |-> PolicyPressureSummary,
   staleDrop        |-> StaleDropSummary,
   fairness         |-> SchedulerFairnessSummary,
   budgetProtection |-> LatencyBudgetProtection]

-----------------------------------------------------------------------------
(***************************************************************************)
(* validate_edgeenv_runtime_telemetry_feed and the functions it calls.     *)
(* The markers of the feed itself, its mapping hint and its guard          *)
(* alignment are constants that the builder and the validator share, and   *)
(* are left out; so are the tests that a field is a list or an object.     *)
(***************************************************************************)
Marked(summary, schema) ==
  /\ summary.labels.schema = schema
  /\ summary.labels.role = "supplemental"
  /\ summary.labels.scheduler = "orchestrator"
  /\ summary.labels.decisionOwner = "lab"
  /\ summary.labels.notADeploymentDecision

ValidLatencyBudgetProtection(p) ==
  /\ Marked(p, "latency-budget-protection")
  /\ p.regressionOwner = "edgeenv"
  /\ DOMAIN p.budgets # {}

ValidScenarioCoverage(c) ==
  /\ Marked(c, "scenario-coverage")
  /\ {c.cycleCount, c.maxCycle, c.taskCount, c.queueSamples,
      c.latencySamples, c.decisions} \subseteq Nat

ValidWorkerHealthTrend(w) == Marked(w, "worker-health-trend")

ValidPolicyPressure(p) ==
  /\ Marked(p, "policy-pressure")
  /\ {p.decisionCount, p.fallbackDecisionCount, p.maxBefore, p.maxOver}
       \subseteq Nat

ValidPressureWindow(w) ==
  /\ Marked(w, "pressure-window")
  /\ {w.windowCount, w.longestCycles, w.peakTotalDepth, w.threshold}
       \subseteq Nat

ValidStaleDrop(s) ==
  /\ Marked(s, "stale-drop")
  /\ {s.staleCount, s.totalCount} \subseteq Nat

ValidSchedulerFairness(f) ==
  /\ Marked(f, "scheduler-fairness")
  /\ DOMAIN f.taskFairness # {}

ValidOperationTimeline(o) ==
  /\ o.schema = "operation-timeline"
  /\ o.hints # {}
  /\ ValidScenarioCoverage(o.coverage)
  /\ ValidStaleDrop(o.staleDrop)
  /\ ValidPolicyPressure(o.policyPressure)
  /\ ValidPressureWindow(o.pressureWindow)
  /\ ValidSchedulerFairness(o.fairness)
  /\ ValidWorkerHealthTrend(o.healthTrend)

ValidOperation(op) ==
  /\ ValidLatencyBudgetProtection(op.budgetProtection)
  /\ ValidOperationTimeline(op.timeline)
  /\ ValidPolicyPressure(op.policyPressure)
  /\ ValidStaleDrop(op.staleDrop)
  /\ ValidSchedulerFairness(op.fairness)

\* _validate_edgeenv_producer_context.
ValidLineage(l) ==
  /\ l.role = "supplemental"
  /\ l.sources # {} /\ l.deviceLocalSources # {}
  /\ DOMAIN l.byTask # {} /\ \A t \in DOMAIN l.byTask : l.byTask[t] # {}
  /\ l.deviceLocalSources \subseteq
       l.sources \cap UNION {l.byTask[t] : t \in DOMAIN l.byTask}
  /\ l.stagedTasks # {}
  /\ l.events > 0 /\ l.deviceLocalEvents > 0 /\ l.deviceLocalTasks > 0

\* requireProducer is require_device_local_producer.  (Bound variables, so
\* that TLC evaluates the feed once and not at each use.)
FeedValid(requireProducer) ==
  /\ \A operation \in {Operation} : ValidOperation(operation)
  /\ HasLineage => \A lineage \in {Lineage} : ValidLineage(lineage)
  /\ requireProducer => HasLineage

=============================================================================
