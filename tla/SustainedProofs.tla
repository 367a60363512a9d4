--------------------------- MODULE SustainedProofs ---------------------------
(***************************************************************************)
(* Proofs of what the command run-multi-workload-sustained promises of its *)
(* configuration, its report and its feed, whatever the files declare and  *)
(* the command line names, wherever it is interrupted and whichever write  *)
(* fails.                                                                  *)
(***************************************************************************)
EXTENDS EvidenceProofs, SustainedRun

-----------------------------------------------------------------------------
(***************************************************************************)
(* The load of the configuration.                                          *)
(***************************************************************************)
(* A mapping over another has each field of one of them.                   *)
LEMMA GetField ==
  ASSUME NEW mapping, NEW default, NEW field \in Fields
  PROVE  Get(mapping, default)[field]
           = IF field \in DOMAIN mapping THEN mapping[field]
                                         ELSE default[field]
BY DEF Get

(* A field has the value that a file states for it, or its default.        *)
LEMMA LoadedIsStated ==
  ASSUME NEW d, "entry" \in DOMAIN d, NEW field \in Fields
  PROVE  \/ LoadedTask(d)[field] \in Stated(d, field)
         \/ LoadedTask(d)[field] = Default[field]
<1>1. \A file \in DOMAIN d :
        field \in DOMAIN d[file] => d[file][field] \in Stated(d, field)
  BY DEF Stated
<1>2. \/ AgentDefaults(d)[field] \in Stated(d, field)
      \/ AgentDefaults(d)[field] = Default[field]
  <2>1. CASE Named(d, "result")
    BY <1>1, <2>1, GetField
       DEF AgentDefaults, Named, DefaultsFromRuntimeResult
  <2>2. CASE Named(d, "manifest") /\ ~ Named(d, "result")
    BY <1>1, <2>2, GetField
       DEF AgentDefaults, Named, DefaultsFromAgentManifest
  <2>3. CASE ~ Named(d, "manifest") /\ ~ Named(d, "result")
    BY <2>3 DEF AgentDefaults
  <2>4. QED
    BY <2>1, <2>2, <2>3
<1>3. d["entry"] = d.entry
  OBVIOUS
<1>4. QED
  BY <1>1, <1>2, <1>3, GetField DEF LoadedTask

(* What from_dict makes of a field has the type of the field.              *)
LEMMA LoadedTyped ==
  ASSUME NEW d, "entry" \in DOMAIN d,
         \A file \in DOMAIN d : Convertible(d[file])
  PROVE  /\ LoadedTask(d).priority \in Int
         /\ LoadedTask(d).budget \in Int
         /\ LoadedTask(d).agent \in Agents
         /\ LoadedTask(d).fallback \in BOOLEAN
<1>1. {"priority", "budget", "agent", "fallback"} = Fields
  BY DEF Fields
<1>2. ASSUME NEW field \in Fields, NEW v \in Stated(d, field)
      PROVE  \E file \in DOMAIN d : /\ Convertible(d[file])
                                    /\ field \in DOMAIN d[file]
                                    /\ v = d[file][field]
  BY <1>2 DEF Stated
<1>3. LoadedTask(d)["priority"] \in Int
  BY <1>1, <1>2, LoadedIsStated DEF Convertible, Default
<1>4. LoadedTask(d)["budget"] \in Int
  BY <1>1, <1>2, LoadedIsStated DEF Convertible, Default
<1>5. LoadedTask(d)["agent"] \in Agents
  BY <1>1, <1>2, LoadedIsStated DEF Convertible, Default, Agents, NoAgent
<1>6. LoadedTask(d)["fallback"] \in BOOLEAN
  BY <1>1, <1>2, LoadedIsStated DEF Convertible, Default
<1>7. QED
  BY <1>3, <1>4, <1>5, <1>6

(* What the tasks of a run are loaded as.                                  *)
LEMMA LoadedTasks ==
  ASSUME declared \in Declarations, NEW t \in Task
  PROVE  /\ Loaded[t].priority \in Int
         /\ Loaded[t].budget \in Int
         /\ Loaded[t].agent \in Agents
         /\ Loaded[t].fallback \in BOOLEAN
         /\ Loaded[t].budget > 0
              => Loaded[t].budget \in Stated(declared[t], "budget")
         /\ Loaded[t].fallback
              => Loaded[t].fallback \in Stated(declared[t], "fallback")
<1>1. /\ "entry" \in DOMAIN declared[t]
      /\ \A file \in DOMAIN declared[t] : Convertible(declared[t][file])
  BY DeclarationsAssumption
<1>2. Loaded[t] = LoadedTask(declared[t])
  BY DEF Loaded
<1>3. /\ LoadedTask(declared[t]).priority \in Int
      /\ LoadedTask(declared[t]).budget \in Int
      /\ LoadedTask(declared[t]).agent \in Agents
      /\ LoadedTask(declared[t]).fallback \in BOOLEAN
  BY <1>1, LoadedTyped
<1>4. \/ LoadedTask(declared[t])["budget"] \in Stated(declared[t], "budget")
      \/ LoadedTask(declared[t])["budget"] = 0
  BY <1>1, LoadedIsStated DEF Fields, Default
<1>5. \/ LoadedTask(declared[t])["fallback"]
           \in Stated(declared[t], "fallback")
      \/ LoadedTask(declared[t])["fallback"] = FALSE
  BY <1>1, LoadedIsStated DEF Fields, Default
<1>6. QED
  BY <1>2, <1>3, <1>4, <1>5

(* An accepted configuration is valid.                                     *)
LEMMA LoadedValid ==
  ASSUME ValidConfig(config), declared \in Declarations,
         \A t \in Task : AcceptedTask(Loaded[t])
  PROVE  ValidConfig(LoadedConfig)
<1>1. /\ [t \in Task |-> Loaded[t].priority] \in [Task -> Nat]
      /\ [t \in Task |-> Loaded[t].budget] \in [Task -> PositiveNat]
      /\ [t \in Task |-> Loaded[t].fallback] \in [Task -> BOOLEAN]
  BY LoadedTasks DEF AcceptedTask, PositiveNat
<1>2. /\ config \in Config
      /\ \A s, t \in Task : s # t => config.order[s] # config.order[t]
  BY DEF ValidConfig
<1>3. LoadedConfig \in Config
  BY <1>1, <1>2 DEF LoadedConfig, Config
<1>4. LoadedConfig.order = config.order
  BY <1>2 DEF LoadedConfig, Config
<1>5. QED
  BY <1>2, <1>3, <1>4 DEF ValidConfig

(* Loading changes three fields of it,                                     *)
LEMMA LoadedFields ==
  ASSUME ValidConfig(config)
  PROVE  /\ LoadedConfig.budget = [t \in Task |-> Loaded[t].budget]
         /\ LoadedConfig.fallback = [t \in Task |-> Loaded[t].fallback]
         /\ LoadedConfig.frames = config.frames
BY DEF LoadedConfig, ValidConfig, Config

(* and pointing the tasks at their inputs one.                             *)
LEMMA FileBackedFields ==
  ASSUME ValidConfig(config), NEW b \in BOOLEAN
  PROVE  LET c == [config EXCEPT !.fileBacked = @ \/ b]
         IN  /\ ValidConfig(c)
             /\ c.frames = config.frames
             /\ c.budget = config.budget /\ c.fallback = config.fallback
             /\ b => c.fileBacked
<1> DEFINE c == [config EXCEPT !.fileBacked = @ \/ b]
<1>1. config \in Config /\ config.fileBacked \in BOOLEAN
  BY DEF ValidConfig, Config
<1>2. (config.fileBacked \/ b) \in BOOLEAN
  OBVIOUS
<1>3. c \in Config
  BY <1>1, <1>2 DEF Config
<1>4. /\ c.frames = config.frames
      /\ c.budget = config.budget /\ c.fallback = config.fallback
      /\ c.order = config.order
  BY <1>1 DEF Config
<1>5. c.fileBacked = (config.fileBacked \/ b)
  BY <1>1 DEF Config
<1>6. ValidConfig(c)
  BY <1>3, <1>4 DEF ValidConfig
<1>7. QED
  BY <1>4, <1>5, <1>6

-----------------------------------------------------------------------------
(***************************************************************************)
(* The types.                                                              *)
(***************************************************************************)
\* The arguments and the files of a run do not change, and two snapshots are
\* refused before anything else happens.
ArgumentsInv ==
  /\ request \in Request /\ declared \in Declarations
  /\ step \notin {"load", "raised", "interrupted"}
       => request.snapshot # "both"

\* Until the run nothing of it has happened.
IdleInv == step \in {"load", "override"} => Started

TypesInv == SustainedTypeOK /\ ArgumentsInv /\ IdleInv

(* A command starts so.                                                    *)
LEMMA TypesInit == RunInit => TypesInv
<1> SUFFICES ASSUME RunInit PROVE TypesInv
  OBVIOUS
<1>1. Started
  BY StartedInit DEF RunInit
<1>2. TypeOK
  BY <1>1, TypeInit
<1>3. request \in Request /\ declared \in Declarations
  BY RequestsAssumption DEF RunInit
<1>4. options \in [Task -> WorkerOptions]
  BY WorkerSetupsAssumption DEF RunInit
<1>5. QED
  BY <1>1, <1>2, <1>3, <1>4
     DEF RunInit, TypesInv, SustainedTypeOK, ArgumentsInv, IdleInv, InputPaths,
         Steps, Files, NoGate

(* The configuration loaded is one that the runtime can start with.        *)
LEMMA LoadTypes == ASSUME TypesInv, Load PROVE TypesInv' /\ Started'
<1>1. /\ step = "load" /\ Started /\ TypeOK
      /\ request \in Request /\ declared \in Declarations
      /\ options \in [Task -> WorkerOptions]
  BY DEF Load, TypesInv, IdleInv, ArgumentsInv, SustainedTypeOK
<1>2. UNCHANGED <<idleVars, inputPath>>
  BY DEF Load
<1>3. ASSUME config' = LoadedConfig,
             \A t \in Task : AcceptedTask(Loaded[t])
      PROVE  Started'
  <2>1. ValidConfig(config)
    BY <1>1 DEF Started
  <2>2. ValidConfig(config') /\ config'.frames = config.frames
    BY <1>1, <1>3, <2>1, LoadedValid, LoadedFields
  <2>3. UNCHANGED <<queue, toVisit, protected, pc, cycle, sequence, inFlight,
                    telemetryVars>>
    BY <1>2 DEF idleVars
  <2>4. QED
    BY <1>1, <2>2, <2>3
       DEF Started, QueuesInit, TelemetryInit, telemetryVars
<1>4. ASSUME options' = [t \in Task |->
                           [options[t] EXCEPT !.agent = Loaded[t].agent]]
      PROVE  options' \in [Task -> WorkerOptions]
  <2>1. ASSUME NEW t \in Task
        PROVE  [options[t] EXCEPT !.agent = Loaded[t].agent] \in WorkerOptions
    <3>1. Loaded[t].agent \in Agents
      BY <1>1, LoadedTasks
    <3>2. options[t] \in WorkerOptions
      BY <1>1
    <3>3. QED
      BY <3>1, <3>2 DEF WorkerOptions
  <2>2. QED
    BY <1>4, <2>1
<1>5. CASE (\A t \in Task : AcceptedTask(Loaded[t]))
             /\ request.snapshot # "both"
  <2>1. /\ config' = LoadedConfig /\ step' = "override"
        /\ options' = [t \in Task |->
                         [options[t] EXCEPT !.agent = Loaded[t].agent]]
    BY <1>5 DEF Load, Goto
  <2>2. Started' /\ options' \in [Task -> WorkerOptions]
    BY <1>3, <1>4, <1>5, <2>1
  <2>3. TypeOK'
    BY <2>2, TypeInit, PTL
  <2>4. QED
    BY <1>1, <1>2, <1>5, <2>1, <2>2, <2>3
       DEF TypesInv, SustainedTypeOK, ArgumentsInv, IdleInv, idleVars,
           fileVars, Steps
<1>6. CASE ~ ((\A t \in Task : AcceptedTask(Loaded[t]))
                /\ request.snapshot # "both")
  <2>1. step' = "raised" /\ UNCHANGED <<config, options>>
    BY <1>6 DEF Load, Goto
  <2>2. UNCHANGED vars
    BY <1>2, <2>1 DEF idleVars, vars
  <2>3. TypeOK'
    BY <1>1, <2>2, TypeStep
  <2>4. Started'
    BY <1>1, <2>2
       DEF Started, QueuesInit, TelemetryInit, vars, telemetryVars
  <2>5. QED
    BY <1>1, <1>2, <2>1, <2>3, <2>4
       DEF TypesInv, SustainedTypeOK, ArgumentsInv, IdleInv, idleVars,
           fileVars, Steps, Ended
<1>7. QED
  BY <1>5, <1>6

(* The options of a task stay options.                                     *)
LEMMA OverriddenTyped ==
  ASSUME options \in [Task -> WorkerOptions], request \in Request,
         request.snapshot # "both", NEW t \in Task
  PROVE  Overridden(t) \in WorkerOptions
<1> DEFINE o == options[t]
           staged == o.staged \/ Overrides(t)
           local  == o.deviceLocal \/ Overrides(t)
           model  == Pointed(o.model, "vision", t, request.model)
           ingress == Pointed(o.ingress, "voice", t, request.voice)
           snapshot == Pointed(o.snapshot, "safety", t, SnapshotGiven)
           source == IF o.agent = "safety" /\ request.snapshot = "captured"
                       THEN "process_resource_snapshot" ELSE o.snapshotSource
<1>1. o \in WorkerOptions
  OBVIOUS
<1>2. /\ o.model \in Paths /\ o.ingress \in Paths /\ o.snapshot \in Paths
      /\ o.snapshotSource \in {"resource_snapshot_fixture",
                               "process_resource_snapshot"}
  BY <1>1 DEF WorkerOptions
<1>3. /\ request.model \in Paths /\ request.voice \in Paths
      /\ SnapshotGiven \in Paths
  BY DEF Request, SnapshotGiven, Paths
<1>4. /\ staged \in BOOLEAN /\ local \in BOOLEAN
      /\ model \in Paths /\ ingress \in Paths /\ snapshot \in Paths
  BY <1>2, <1>3 DEF Pointed
<1>5. source \in {"resource_snapshot_fixture", "process_resource_snapshot"}
  BY <1>2
<1>6. Overridden(t) = [o EXCEPT !.deviceLocal = local, !.staged = staged,
                                !.model = model, !.ingress = ingress,
                                !.snapshot = snapshot,
                                !.snapshotSource = source]
  BY <1>1 DEF Overridden, WorkerOptions
<1> HIDE DEF o, staged, local, model, ingress, snapshot, source
<1>7. QED
  BY <1>1, <1>4, <1>5, <1>6 DEF WorkerOptions

(* The tasks are pointed at inputs of the command line.                    *)
LEMMA OverrideTypes == ASSUME TypesInv, Override PROVE TypesInv' /\ Started'
<1>1. /\ step = "override" /\ Started /\ TypeOK
      /\ request \in Request /\ declared \in Declarations
      /\ request.snapshot # "both"
      /\ options \in [Task -> WorkerOptions]
      /\ inputPath \in InputPaths
  BY DEF Override, TypesInv, IdleInv, ArgumentsInv, SustainedTypeOK
<1>2. /\ options' = [t \in Task |-> Overridden(t)]
      /\ config' = [config EXCEPT !.fileBacked = @ \/ Given(request.vision)]
      /\ UNCHANGED idleVars
      /\ step' \in {"raised", "run"}
  BY DEF Override, Goto
<1>3. options' \in [Task -> WorkerOptions]
  BY <1>1, <1>2, OverriddenTyped
<1>4. inputPath' \in InputPaths
  <2>1. request.vision \in {"none"} \cup InputPaths
    BY <1>1 DEF Request
  <2>2. QED
    BY <1>1, <2>1 DEF Override, Given
<1>5. Started'
  <2>1. ValidConfig(config') /\ config'.frames = config.frames
    BY <1>1, <1>2, FileBackedFields DEF Started, Given
  <2>2. UNCHANGED <<queue, toVisit, protected, pc, cycle, sequence, inFlight,
                    telemetryVars>>
    BY <1>2 DEF idleVars
  <2>3. QED
    BY <1>1, <2>1, <2>2
       DEF Started, QueuesInit, TelemetryInit, telemetryVars
<1>6. TypeOK'
  BY <1>5, TypeInit, PTL
<1>7. UNCHANGED <<request, declared, reportFile, feedFile, gate>>
  BY <1>2 DEF idleVars, fileVars
<1>8. QED
  BY <1>1, <1>2, <1>3, <1>4, <1>5, <1>6, <1>7
     DEF TypesInv, SustainedTypeOK, ArgumentsInv, IdleInv, Steps, Ended

(* A step of the runtime leaves the command where it is.                   *)
LEMMA RuntimeTypes == ASSUME TypesInv, RuntimeStep PROVE TypesInv'
<1>1. step = "run" /\ Next /\ UNCHANGED commandVars
  BY DEF RuntimeStep
<1>2. TypeOK'
  BY <1>1, TypeStep DEF TypesInv, SustainedTypeOK
<1>3. QED
  BY <1>1, <1>2
     DEF TypesInv, SustainedTypeOK, ArgumentsInv, IdleInv, commandVars,
         inputVars, fileVars

(* What is done after the run is typed.                                    *)
LEMMA AfterwardsTypes ==
  ASSUME TypesInv,
         \/ FinishRun \/ LoadTegrastats \/ WriteReport \/ WriteFeed
         \/ WriteFails \/ Interrupt \/ CheckFeed \/ UNCHANGED allVars
  PROVE  TypesInv'
<1>1. UNCHANGED vars /\ UNCHANGED inputVars
  BY DEF FinishRun, LoadTegrastats, WriteReport, WriteFeed, WriteFails,
         Interrupt, CheckFeed, allVars, commandVars
<1>2. TypeOK'
  BY <1>1, TypeStep DEF TypesInv, SustainedTypeOK
<1>3. /\ step' \in Steps
      /\ step' \in {"load", "override"} => step' = step
      /\ step \in {"load", "raised", "interrupted"}
           => step' \in {"load", "raised", "interrupted"}
  BY DEF FinishRun, LoadTegrastats, WriteReport, WriteFeed, WriteFails,
         Interrupt, CheckFeed, allVars, commandVars, Goto, TypesInv,
         SustainedTypeOK,
         Steps, Ended
<1>4. reportFile' \in Files /\ feedFile' \in Files
  BY DEF FinishRun, LoadTegrastats, WriteReport, WriteFeed, WriteFails,
         Interrupt, CheckFeed, allVars, commandVars, fileVars, TypesInv,
         SustainedTypeOK, Files
<1>5. gate' \in [file : Files \cup {"none"}, required : BOOLEAN,
                 passed : BOOLEAN]
  <2>1. CASE CheckFeed
    <3>1. PICK required \in BOOLEAN : \E passed \in GateResults(required) :
            gate' = [file |-> feedFile, required |-> required,
                     passed |-> passed]
      BY <2>1 DEF CheckFeed
    <3>2. FeedValid(required) \in BOOLEAN
      BY DEF FeedValid
    <3>3. GateResults(required) \subseteq BOOLEAN
      BY <3>2 DEF GateResults
    <3>4. feedFile \in Files
      BY DEF TypesInv, SustainedTypeOK
    <3>5. QED
      BY <3>1, <3>3, <3>4
  <2>2. CASE UNCHANGED gate
    BY <2>2 DEF TypesInv, SustainedTypeOK
  <2>3. QED
    BY <2>1, <2>2
       DEF FinishRun, LoadTegrastats, WriteReport, WriteFeed, WriteFails,
           Interrupt, allVars, commandVars
<1>6. IdleInv'
  BY <1>1, <1>3
     DEF TypesInv, IdleInv, Started, QueuesInit, TelemetryInit, vars,
         telemetryVars
<1>7. ArgumentsInv'
  BY <1>1, <1>3 DEF TypesInv, ArgumentsInv, inputVars
<1>8. QED
  BY <1>1, <1>2, <1>3, <1>4, <1>5, <1>6, <1>7
     DEF TypesInv, SustainedTypeOK, inputVars

(* Each step of the command keeps the types.                               *)
LEMMA TypesStep == ASSUME TypesInv, [RunNext]_allVars PROVE TypesInv'
BY LoadTypes, OverrideTypes, RuntimeTypes, AfterwardsTypes
   DEF RunNext, CommandNext

(* The types of the command, which include those of the runtime: the       *)
(* configuration it loads is one that the runtime's theorems are about.    *)
THEOREM SustainedTypes == SustainedSpec => []SustainedTypeOK
<1>1. RunInit => TypesInv
  BY TypesInit
<1>2. TypesInv /\ [RunNext]_allVars => TypesInv'
  BY TypesStep
<1>3. TypesInv => SustainedTypeOK
  BY DEF TypesInv
<1>4. QED
  BY <1>1, <1>2, <1>3, PTL DEF SustainedSpec

-----------------------------------------------------------------------------
(***************************************************************************)
(* The feed.                                                               *)
(***************************************************************************)
(* So the feed has valid summaries, whatever the run.                      *)
LEMMA SummariesValid == ASSUME TypeOK PROVE ValidOperation(Operation)
<1> USE DEF Marked, Supplemental
<1>1. Task # {} /\ DOMAIN config.budget = Task /\ config.threshold \in Nat
  BY TaskAssumption DEF TypeOK, ValidConfig, Config, PositiveNat
<1>2. /\ Len(queueDepthTimeline) \in Nat /\ Len(resultEvents) \in Nat
      /\ Len(policyDecisions) \in Nat /\ Len(dropEvents) \in Nat
      /\ Cardinality(StaleDrops) \in Nat
  BY PlacesOfLog DEF TypeOK, TelemetryTypeOK, StaleDrops
<1>3. ValidLatencyBudgetProtection(LatencyBudgetProtection)
  BY <1>1 DEF ValidLatencyBudgetProtection, LatencyBudgetProtection
<1>4. ValidScenarioCoverage(ScenarioCoverage)
  BY <1>2, CyclesTyped, TotalsTyped
     DEF ValidScenarioCoverage, ScenarioCoverage
<1>5. ValidWorkerHealthTrend(WorkerHealthTrend)
  BY DEF ValidWorkerHealthTrend, WorkerHealthTrend
<1>6. ValidPolicyPressure(PolicyPressureSummary)
  BY <1>2, PressureTyped, TotalsTyped
     DEF ValidPolicyPressure, PolicyPressureSummary
<1>7. ValidPressureWindow(PressureWindowSummary)
  BY <1>1, WindowsTyped DEF ValidPressureWindow, PressureWindowSummary
<1>8. ValidStaleDrop(StaleDropSummary)
  BY <1>2 DEF ValidStaleDrop, StaleDropSummary
<1>9. ValidSchedulerFairness(SchedulerFairnessSummary)
  BY <1>1 DEF ValidSchedulerFairness, SchedulerFairnessSummary
<1>10. ReviewHints # {}
  BY DEF ReviewHints, OrNominal
<1>11. ValidOperationTimeline(OperationTimelineSummary)
  BY <1>4, <1>5, <1>6, <1>7, <1>8, <1>9, <1>10
     DEF ValidOperationTimeline, OperationTimelineSummary
<1>12. QED
  BY <1>3, <1>6, <1>8, <1>9, <1>11 DEF ValidOperation, Operation

-----------------------------------------------------------------------------
(***************************************************************************)
(* The lineage.                                                            *)
(***************************************************************************)
\* When the feed of the run is valid.
FeedOk ==
  \/ ProducingTasks = {}
  \/ /\ ProducingTasks \cap DeviceLocalTasks # {}
     /\ \E t \in Task : options[t].staged

(* What has been executed is counted among the events.                     *)
LEMMA ProducedEvents ==
  ASSUME TypeOK, ResultsCounted, NEW t \in Task, executed[t] > 0
  PROVE  /\ t \in ProducingTasks => Cardinality(ProducerEvents) > 0
         /\ t \in DeviceLocalTasks => DeviceLocalEventCount > 0
<1>1. /\ \A s \in SUBSET DOMAIN resultEvents :
           IsFiniteSet(s) /\ Cardinality(s) \in Nat
      /\ \A s \in SUBSET DOMAIN scheduleDecisions : Cardinality(s) \in Nat
      /\ \A s \in SUBSET DOMAIN dropEvents : Cardinality(s) \in Nat
  BY PlacesOfLog DEF TypeOK, TelemetryTypeOK
<1>2. Results(t) \in SUBSET DOMAIN resultEvents /\ Cardinality(Results(t)) > 0
  BY DEF Results, ResultsCounted
<1>3. PICK i \in DOMAIN resultEvents : resultEvents[i].frame.task = t
  BY <1>1, <1>2, FS_EmptySet DEF Results
<1>4. ASSUME NEW s \in SUBSET DOMAIN resultEvents, i \in s
      PROVE  Cardinality(s) > 0
  BY <1>1, <1>4, FS_EmptySet
<1>5. ASSUME t \in ProducingTasks PROVE Cardinality(ProducerEvents) > 0
  BY <1>3, <1>4, <1>5 DEF ProducerEvents
<1>6. ASSUME t \in DeviceLocalTasks PROVE DeviceLocalEventCount > 0
  <2>1. PICK a \in Nat : a = Cardinality(
          {j \in DOMAIN scheduleDecisions :
             scheduleDecisions[j] \in DeviceLocalTasks})
    BY <1>1
  <2>2. PICK b \in Nat : b = Cardinality(
          {j \in DOMAIN resultEvents :
             resultEvents[j].frame.task \in DeviceLocalTasks})
    BY <1>1
  <2>3. PICK c \in Nat : c = Cardinality(
          {j \in DOMAIN dropEvents :
             dropEvents[j].frame.task \in DeviceLocalTasks})
    BY <1>1
  <2>4. b > 0
    BY <1>3, <1>4, <1>6, <2>2
  <2>5. DeviceLocalEventCount = a + b + c
    BY <2>1, <2>2, <2>3 DEF DeviceLocalEventCount
  <2>6. QED
    BY <2>4, <2>5
<1>7. QED
  BY <1>5, <1>6

(* The lineage of a feed with a producer is valid if one of the producers  *)
(* is device-local and some task has a stage.                              *)
LEMMA LineageValid ==
  ASSUME TypeOK, ResultsCounted, ProducingTasks # {}
  PROVE  ValidLineage(Lineage)
           <=> /\ ProducingTasks \cap DeviceLocalTasks # {}
               /\ \E t \in Task : options[t].staged
<1>1. /\ Lineage.role = "supplemental"
      /\ Lineage.sources = {ProducerSource(t) : t \in ProducingTasks}
      /\ Lineage.deviceLocalSources =
           {ProducerSource(t) : t \in DeviceLocalTasks \cap ProducingTasks}
      /\ Lineage.byTask = [t \in ProducingTasks |-> {ProducerSource(t)}]
      /\ Lineage.stagedTasks = {t \in Task : options[t].staged}
      /\ Lineage.events = Cardinality(ProducerEvents)
      /\ Lineage.deviceLocalEvents = DeviceLocalEventCount
      /\ Lineage.deviceLocalTasks = Cardinality(DeviceLocalTasks)
  BY DEF Lineage
<1>2. ASSUME ValidLineage(Lineage)
      PROVE  /\ ProducingTasks \cap DeviceLocalTasks # {}
             /\ \E t \in Task : options[t].staged
  <2>1. Lineage.deviceLocalSources # {} /\ Lineage.stagedTasks # {}
    BY <1>2 DEF ValidLineage
  <2>2. QED
    BY <1>1, <2>1
<1>3. ASSUME NEW p \in ProducingTasks \cap DeviceLocalTasks,
             NEW s \in Task, options[s].staged
      PROVE  ValidLineage(Lineage)
  <2>1. p \in Task /\ executed[p] > 0
    BY DEF ProducingTasks
  <2>2. Lineage.events > 0 /\ Lineage.deviceLocalEvents > 0
    BY <1>1, <2>1, ProducedEvents
  <2>3. Lineage.deviceLocalTasks > 0
    <3>1. IsFiniteSet(DeviceLocalTasks)
      BY TaskAssumption, FS_Subset DEF DeviceLocalTasks
    <3>2. Cardinality(DeviceLocalTasks) \in Nat
      BY <3>1, FS_CardinalityType
    <3>3. Cardinality(DeviceLocalTasks) # 0
      BY <3>1, FS_EmptySet
    <3>4. QED
      BY <1>1, <3>2, <3>3
  <2>4. /\ Lineage.sources # {} /\ Lineage.deviceLocalSources # {}
        /\ Lineage.stagedTasks # {}
    BY <1>1, <1>3
  <2>5. /\ DOMAIN Lineage.byTask = ProducingTasks
        /\ \A t \in ProducingTasks : Lineage.byTask[t] = {ProducerSource(t)}
    BY <1>1
  <2>6. Lineage.deviceLocalSources \subseteq
          Lineage.sources
            \cap UNION {Lineage.byTask[t] : t \in DOMAIN Lineage.byTask}
    <3> SUFFICES ASSUME NEW t \in DeviceLocalTasks \cap ProducingTasks
                 PROVE  /\ ProducerSource(t) \in Lineage.sources
                        /\ \E q \in DOMAIN Lineage.byTask :
                             ProducerSource(t) \in Lineage.byTask[q]
      BY <1>1
    <3>1. QED
      BY <1>1, <2>5
  <2>7. QED
    BY <1>1, <2>2, <2>3, <2>4, <2>5, <2>6 DEF ValidLineage
<1>4. QED
  BY <1>2, <1>3

(* A feed is refused for its lineage alone.                                *)
LEMMA FeedValidity ==
  TypeOK /\ ResultsCounted =>
    /\ FeedValid(FALSE) <=> FeedOk
    /\ FeedValid(TRUE) <=> FeedOk /\ ProducingTasks # {}
<1> SUFFICES ASSUME TypeOK, ResultsCounted, NEW r \in BOOLEAN
             PROVE  FeedValid(r)
                      <=> FeedOk /\ (r => ProducingTasks # {})
  OBVIOUS
<1>1. ValidOperation(Operation)
  BY SummariesValid
<1>2. FeedValid(r) <=> /\ HasLineage => ValidLineage(Lineage)
                       /\ r => HasLineage
  BY <1>1 DEF FeedValid
<1>3. QED
  BY <1>2, LineageValid DEF HasLineage, FeedOk

-----------------------------------------------------------------------------
(***************************************************************************)
(* The run inside the command.                                             *)
(***************************************************************************)
\* A step of the command is one of the runtime, or leaves it alone, or sets
\* its configuration before the first of them.
RunInv == TypesInv /\ EvidenceIInv

(* A command starts with a run that has not started.                       *)
LEMMA RunInvInit == RunInit => RunInv
BY TypesInit, StartedInit, EvidenceInit DEF RunInv, RunInit

(* What the runtime guarantees holds inside the command.                   *)
LEMMA RunInvStep == RunInv /\ [RunNext]_allVars => RunInv'
<1> SUFFICES ASSUME RunInv, [RunNext]_allVars PROVE RunInv'
  OBVIOUS
<1>1. TypesInv'
  BY TypesStep DEF RunInv
<1>2. ASSUME Load \/ Override PROVE EvidenceIInv'
  <2>1. Started'
    BY <1>2, LoadTypes, OverrideTypes DEF RunInv
  <2>2. QED
    BY <2>1, EvidenceInit, PTL
<1>3. ASSUME ~ (Load \/ Override) PROVE EvidenceIInv'
  <2>1. [Next]_vars
    BY <1>3 DEF RunNext, CommandNext, RuntimeStep, FinishRun, LoadTegrastats,
                WriteReport, WriteFeed, WriteFails, Interrupt, CheckFeed,
                allVars
  <2>2. QED
    BY <2>1, EvidenceKept DEF RunInv
<1>4. QED
  BY <1>1, <1>2, <1>3 DEF RunInv

\* Once it is loaded, the configuration has the budgets and policies that
\* validate accepted.
LoadedInv ==
  step \notin {"load", "raised", "interrupted"} =>
    \A t \in Task : /\ AcceptedTask(Loaded[t])
                    /\ config.budget[t] = Loaded[t].budget
                    /\ config.fallback[t] = Loaded[t].fallback

(* No action but the first two changes the configuration or the options.   *)
LEMMA StepOfRest ==
  ASSUME RunInv, [RunNext]_allVars, ~ (Load \/ Override)
  PROVE  /\ UNCHANGED <<config, inputVars>>
         /\ \/ step \notin {"load", "override"}
            \/ step' \in {step, "raised", "interrupted"}
<1>1. ASSUME RuntimeStep PROVE config' = config
  <2>1. Next
    BY <1>1 DEF RuntimeStep
  <2>2. QED
    BY <2>1 DEF Next, SkipTask, Enqueue, BeginShedding, PassByTask, ShedTask,
                EndShedding, Schedule, WorkerReturns, WorkerRaises,
                NothingToExecute, controlVars
<1>2. UNCHANGED <<config, inputVars>>
  BY <1>1 DEF RunNext, CommandNext, RuntimeStep, FinishRun, LoadTegrastats,
              WriteReport, WriteFeed, WriteFails, Interrupt, CheckFeed,
              allVars, commandVars, vars
<1>3. \/ step \notin {"load", "override"}
      \/ step' \in {step, "raised", "interrupted"}
  BY DEF RunNext, CommandNext, RuntimeStep, FinishRun, LoadTegrastats,
         WriteReport, WriteFeed, WriteFails, Interrupt, CheckFeed, allVars,
         commandVars, Goto
<1>4. QED
  BY <1>2, <1>3

(* The configuration stays as it was loaded.                               *)
LEMMA LoadedStep == RunInv /\ LoadedInv /\ [RunNext]_allVars => LoadedInv'
<1> SUFFICES ASSUME RunInv, LoadedInv, [RunNext]_allVars PROVE LoadedInv'
  OBVIOUS
<1>1. CASE Load
  <2>1. /\ declared' = declared
        /\ step' # "raised" => /\ \A t \in Task : AcceptedTask(Loaded[t])
                               /\ config' = LoadedConfig
    BY <1>1 DEF Load, Goto, idleVars
  <2>2. ValidConfig(config)
    BY DEF RunInv, TypesInv, SustainedTypeOK, TypeOK
  <2>3. Loaded' = Loaded
    BY <2>1 DEF Loaded
  <2>4. QED
    BY <2>1, <2>2, <2>3, LoadedFields DEF LoadedInv
<1>2. CASE Override
  <2>1. /\ step = "override" /\ declared' = declared
        /\ config' = [config EXCEPT !.fileBacked = @ \/ Given(request.vision)]
    BY <1>2 DEF Override, idleVars
  <2>2. ValidConfig(config) /\ Given(request.vision) \in BOOLEAN
    BY DEF RunInv, TypesInv, SustainedTypeOK, TypeOK, Given
  <2>3. config'.budget = config.budget /\ config'.fallback = config.fallback
    BY <2>1, <2>2, FileBackedFields
  <2>4. Loaded' = Loaded
    BY <2>1 DEF Loaded
  <2>5. QED
    BY <2>1, <2>3, <2>4 DEF LoadedInv
<1>3. CASE ~ (Load \/ Override)
  <2>1. /\ UNCHANGED <<config, declared>>
        /\ step \in {"load", "raised", "interrupted"}
             => step' \in {"load", "raised", "interrupted"}
    <3>1. UNCHANGED <<config, inputVars>>
      BY <1>3, StepOfRest
    <3>2. step \in {"raised", "interrupted"} => step' = step
      BY <1>3
         DEF RunNext, CommandNext, RuntimeStep, FinishRun, LoadTegrastats,
             WriteReport, WriteFeed, WriteFails, Interrupt, CheckFeed, allVars,
             commandVars, Ended
    <3>3. QED
      BY <1>3, <3>1, <3>2, StepOfRest DEF inputVars
  <2>2. Loaded' = Loaded
    BY <2>1 DEF Loaded
  <2>3. QED
    BY <2>1, <2>2 DEF LoadedInv
<1>4. QED
  BY <1>1, <1>2, <1>3

(* A budget that latencies are compared with, and a fallback policy that   *)
(* is counted, is stated in a file of the task: the defaults that a        *)
(* runtime result puts in place of what the manifest states are refused by *)
(* validate, or count nothing.                                             *)
THEOREM SustainedBudgetsStated == SustainedSpec => []BudgetsStated
<1>1. RunInit => RunInv /\ LoadedInv
  BY RunInvInit DEF RunInit, LoadedInv
<1>2. RunInv /\ LoadedInv /\ [RunNext]_allVars => RunInv' /\ LoadedInv'
  BY RunInvStep, LoadedStep
<1>3. RunInv /\ LoadedInv => BudgetsStated
  <2> SUFFICES ASSUME RunInv, LoadedInv,
                      step \notin {"load", "raised", "interrupted"},
                      NEW t \in Task
               PROVE  /\ config.budget[t] > 0
                      /\ config.budget[t] \in Stated(declared[t], "budget")
                      /\ fallbackUsed[t] > 0
                           => TRUE \in Stated(declared[t], "fallback")
    BY DEF BudgetsStated
  <2>1. declared \in Declarations
    BY DEF RunInv, TypesInv, ArgumentsInv
  <2>2. Loaded[t].budget > 0 /\ config.budget[t] = Loaded[t].budget
          /\ config.fallback[t] = Loaded[t].fallback
    BY DEF LoadedInv, AcceptedTask
  <2>3. config.budget[t] \in Stated(declared[t], "budget")
    BY <2>1, <2>2, LoadedTasks
  <2>4. ASSUME fallbackUsed[t] > 0
        PROVE  TRUE \in Stated(declared[t], "fallback")
    <3>1. config.fallback[t]
      BY <2>4 DEF RunInv, EvidenceIInv, DecisionsCounted
    <3>2. Loaded[t].fallback = TRUE
      BY <2>1, <2>2, <3>1, LoadedTasks
    <3>3. QED
      BY <2>1, <3>2, LoadedTasks
  <2>5. QED
    BY <2>2, <2>3, <2>4
<1>4. QED
  BY <1>1, <1>2, <1>3, PTL DEF SustainedSpec

-----------------------------------------------------------------------------
(***************************************************************************)
(* The files.                                                              *)
(***************************************************************************)
\* The report is written after a complete run, and the feed after the report
\* if it is asked for and its lineage is valid: no refusal, interruption or
\* failed write leaves a feed, or a part of one, that is not so.
FileInv ==
  /\ step \in {"tegrastats", "report", "write report"} => pc = "done"
  /\ reportFile = "this" =>
       /\ pc = "done"
       /\ step \in {"feed", "write feed"} \cup Ended
  /\ step \in {"feed", "write feed"} => reportFile = "this" /\ request.feed
  /\ step = "write feed" => FeedOk
  /\ step = "returned" =>
       reportFile = "this" /\ (request.feed => feedFile = "this")
  /\ feedFile \in {"partial", "this"} => FeedOk /\ reportFile = "this"
  /\ feedFile = "this" => step = "returned"
  /\ step = "raised" /\ reportFile = "this" => request.feed

(* What decides about the feed does not change after the run.              *)
LEMMA FeedOkKept ==
  ASSUME UNCHANGED <<vars, inputVars>> PROVE FeedOk' = FeedOk
<1>1. UNCHANGED <<executed, config, options, inputPath>>
  BY DEF vars, telemetryVars, inputVars
<1>2. ProducingTasks' = ProducingTasks /\ DeviceLocalTasks' = DeviceLocalTasks
  BY <1>1 DEF ProducingTasks, DeviceLocalTasks, ProducerSource, Profiles
<1>3. QED
  BY <1>1, <1>2 DEF FeedOk

(* Each step keeps the order of the files.                                 *)
LEMMA FileStep == RunInv /\ FileInv /\ [RunNext]_allVars => FileInv'
<1> SUFFICES ASSUME RunInv, FileInv, [RunNext]_allVars PROVE FileInv'
  OBVIOUS
<1>1. FeedValid(FALSE) <=> FeedOk
  BY FeedValidity
     DEF RunInv, TypesInv, SustainedTypeOK, EvidenceIInv
<1>2. CASE Load \/ Override \/ RuntimeStep
  <2>1. /\ step \in {"load", "override", "run"}
        /\ step' \in {"load", "override", "run", "raised"}
        /\ UNCHANGED <<reportFile, feedFile>>
    BY <1>2 DEF Load, Override, RuntimeStep, Goto, idleVars, fileVars,
                commandVars
  <2>2. reportFile # "this" /\ feedFile \notin {"partial", "this"}
    BY <2>1 DEF FileInv, Ended
  <2>3. QED
    BY <2>1, <2>2 DEF FileInv
<1>3. ASSUME \/ FinishRun \/ LoadTegrastats \/ WriteReport \/ WriteFeed
             \/ WriteFails \/ Interrupt \/ CheckFeed \/ UNCHANGED allVars
      PROVE  FileInv'
  <2>1. UNCHANGED <<vars, inputVars>>
    BY <1>3 DEF FinishRun, LoadTegrastats, WriteReport, WriteFeed, WriteFails,
                Interrupt, CheckFeed, allVars, commandVars
  <2>2. pc' = pc /\ request' = request /\ FeedOk' = FeedOk
    BY <2>1, FeedOkKept DEF vars, inputVars
  <2>3. CASE FinishRun
    BY <2>2, <2>3 DEF FileInv, FinishRun, Goto, fileVars, Ended
  <2>4. CASE LoadTegrastats
    BY <2>2, <2>4 DEF FileInv, LoadTegrastats, Goto, fileVars, Ended
  <2>5. CASE WriteReport
    BY <2>2, <2>5 DEF FileInv, WriteReport, Goto, Ended
  <2>6. CASE WriteFeed
    BY <1>1, <2>2, <2>6 DEF FileInv, WriteFeed, Goto, Ended
  <2>7. CASE WriteFails \/ Interrupt
    BY <1>1, <2>2, <2>7
       DEF FileInv, WriteFails, Interrupt, Goto, fileVars, Ended
  <2>8. CASE CheckFeed \/ UNCHANGED allVars
    <3>1. UNCHANGED <<step, reportFile, feedFile>>
      BY <2>8 DEF CheckFeed, allVars, commandVars, fileVars
    <3>2. QED
      BY <2>2, <3>1 DEF FileInv
  <2>9. QED
    BY <1>3, <2>3, <2>4, <2>5, <2>6, <2>7, <2>8
<1>4. QED
  BY <1>2, <1>3 DEF RunNext, CommandNext

\* What a check that passed has found.
GateInv ==
  gate.passed =>
    /\ gate.file \in {"earlier", "this"}
    /\ gate.file = "this" =>
         feedFile = "this" /\ (gate.required => HasLineage)

(* A check finds what is in the feed, and no step takes it back.           *)
LEMMA GateStep ==
  RunInv /\ FileInv /\ GateInv /\ [RunNext]_allVars => GateInv'
<1> SUFFICES ASSUME RunInv, FileInv, GateInv, [RunNext]_allVars PROVE GateInv'
  OBVIOUS
<1>1. FeedValid(TRUE) <=> FeedOk /\ HasLineage
  BY FeedValidity
     DEF RunInv, TypesInv, SustainedTypeOK, EvidenceIInv, HasLineage
<1>2. CASE CheckFeed
  <2>1. PICK required \in BOOLEAN : \E passed \in GateResults(required) :
          gate' = [file |-> feedFile, required |-> required,
                   passed |-> passed]
    BY <1>2 DEF CheckFeed
  <2>2. PICK passed \in GateResults(required) :
          gate' = [file |-> feedFile, required |-> required,
                   passed |-> passed]
    BY <2>1
  <2>3. feedFile' = feedFile /\ HasLineage' = HasLineage
    BY <1>2 DEF CheckFeed, fileVars, inputVars, vars, telemetryVars,
                HasLineage, ProducingTasks, ProducerSource, Profiles
  <2>4. passed => /\ feedFile \in {"earlier", "this"}
                  /\ feedFile = "this" => FeedValid(required)
    BY <2>2 DEF GateResults
  <2>5. QED
    BY <1>1, <2>1, <2>2, <2>3, <2>4 DEF GateInv
<1>3. CASE UNCHANGED gate
  <2>1. CASE feedFile = "this"
    <3>1. step = "returned"
      BY <2>1 DEF FileInv
    <3>2. UNCHANGED <<vars, inputVars, feedFile>>
      BY <3>1 DEF RunNext, CommandNext, Load, Override, RuntimeStep,
                  FinishRun, LoadTegrastats, WriteReport, WriteFeed,
                  WriteFails, Interrupt, CheckFeed, allVars, commandVars,
                  fileVars, Ended
    <3>3. HasLineage' = HasLineage
      BY <3>2 DEF inputVars, vars, telemetryVars, HasLineage,
                  ProducingTasks, ProducerSource, Profiles
    <3>4. QED
      BY <1>3, <3>2, <3>3 DEF GateInv
  <2>2. CASE feedFile # "this"
    BY <1>3, <2>2 DEF GateInv
  <2>3. QED
    BY <2>1, <2>2
<1>4. QED
  BY <1>2, <1>3
     DEF RunNext, CommandNext, Load, Override, RuntimeStep, FinishRun,
         LoadTegrastats, WriteReport, WriteFeed, WriteFails, Interrupt,
         allVars, commandVars, idleVars

(* The order of the files and the check is an invariant.                   *)
LEMMA FilesInvariant == SustainedSpec => [](RunInv /\ FileInv /\ GateInv)
<1>1. RunInit => RunInv /\ FileInv /\ GateInv
  BY RunInvInit DEF RunInit, FileInv, GateInv, NoGate
<1>2. RunInv /\ FileInv /\ GateInv /\ [RunNext]_allVars
        => (RunInv /\ FileInv /\ GateInv)'
  BY RunInvStep, FileStep, GateStep
<1>3. QED
  BY <1>1, <1>2, PTL DEF SustainedSpec

(* A check that passed on the feed of this run found it next to a complete *)
(* report; and if it required a device-local producer, then a task marked  *)
(* device-local was executed and read its input.                           *)
THEOREM SustainedGateMeansProduced == SustainedSpec => []GateMeansProduced
<1>1. RunInv /\ FileInv /\ GateInv => GateMeansProduced
  BY DEF FileInv, GateInv, GateMeansProduced, FeedOk, HasLineage,
         ProducingTasks
<1>2. QED
  BY <1>1, FilesInvariant, PTL

(* The feed of a finished run is refused for its lineage alone; only a     *)
(* valid one, of a complete report, begins to be written; and a command    *)
(* that raises with its report on disk was asked for a feed and has not    *)
(* written it.                                                             *)
THEOREM SustainedRefusedOnlyForLineage ==
  SustainedSpec => []RefusedOnlyForLineage
<1>1. RunInv /\ FileInv /\ GateInv => RefusedOnlyForLineage
  <2> SUFFICES ASSUME RunInv, FileInv PROVE RefusedOnlyForLineage
    OBVIOUS
  <2>1. FeedValid(FALSE) <=> FeedOk
    BY FeedValidity
       DEF RunInv, TypesInv, SustainedTypeOK, EvidenceIInv
  <2>2. QED
    BY <2>1 DEF FileInv, RefusedOnlyForLineage, FeedOk
<1>2. QED
  BY <1>1, FilesInvariant, PTL

-----------------------------------------------------------------------------
(***************************************************************************)
(* The inputs.                                                             *)
(***************************************************************************)
\* The options of the tasks after the overrides.
Configured ==
  step \notin {"load", "override", "raised", "interrupted"}
    \/ reportFile = "this"

OverriddenInv ==
  Configured =>
    /\ Given(request.vision) => config.fileBacked
    /\ \A t \in Task :
         /\ Overrides(t) => options[t].deviceLocal /\ options[t].staged
         /\ options[t].agent = "voice" /\ Given(request.voice)
              => Given(options[t].ingress)
         /\ options[t].agent = "safety" /\ Given(request.snapshot)
              => Given(options[t].snapshot)

(* The overrides are made once.                                            *)
LEMMA OverriddenStep ==
  RunInv /\ FileInv /\ OverriddenInv /\ [RunNext]_allVars => OverriddenInv'
<1> SUFFICES ASSUME RunInv, FileInv, OverriddenInv, [RunNext]_allVars
             PROVE  OverriddenInv'
  OBVIOUS
<1>1. CASE Load
  BY <1>1 DEF Load, Goto, idleVars, fileVars, FileInv, Ended, OverriddenInv,
              Configured
<1>2. CASE Override
  <2>1. /\ ValidConfig(config) /\ Given(request.vision) \in BOOLEAN
        /\ options \in [Task -> WorkerOptions]
        /\ config' = [config EXCEPT !.fileBacked = @ \/ Given(request.vision)]
        /\ options' = [t \in Task |-> Overridden(t)]
        /\ request' = request
    BY <1>2 DEF Override, idleVars, Given, RunInv, TypesInv,
                SustainedTypeOK, TypeOK
  <2>2. Given(request.vision) => config'.fileBacked
    BY <2>1, FileBackedFields
  <2>3. ASSUME NEW t \in Task
        PROVE  /\ options'[t].agent = options[t].agent
               /\ options'[t].deviceLocal
                    = (options[t].deviceLocal \/ Overrides(t))
               /\ options'[t].staged = (options[t].staged \/ Overrides(t))
               /\ options'[t].ingress
                    = Pointed(options[t].ingress, "voice", t, request.voice)
               /\ options'[t].snapshot
                    = Pointed(options[t].snapshot, "safety", t, SnapshotGiven)
    <3>1. options[t] \in WorkerOptions /\ options'[t] = Overridden(t)
      BY <2>1
    <3>2. QED
      BY <3>1, Zenon DEF Overridden, WorkerOptions
  <2>4. Given(request.snapshot) => Given(SnapshotGiven)
    BY DEF SnapshotGiven, Given
  <2>5. ASSUME NEW t \in Task PROVE Overrides(t)' = Overrides(t)
    BY <2>1, <2>3 DEF Overrides, Given
  <2>6. ASSUME NEW t \in Task
        PROVE  /\ Overrides(t)'
                    => options'[t].deviceLocal /\ options'[t].staged
               /\ options'[t].agent = "voice" /\ Given(request.voice)
                    => Given(options'[t].ingress)
               /\ options'[t].agent = "safety" /\ Given(request.snapshot)
                    => Given(options'[t].snapshot)
    BY <2>3, <2>4, <2>5 DEF Pointed
  <2>7. QED
    BY <2>1, <2>2, <2>6 DEF OverriddenInv, Given
<1>3. CASE ~ (Load \/ Override)
  <2>1. UNCHANGED <<config, request, options>>
    BY <1>3, StepOfRest DEF inputVars
  <2>2. Configured' => Configured
    <3>1. CASE step \in {"load", "override"}
      <4>1. /\ step' \in {step, "raised", "interrupted"}
            /\ reportFile' = reportFile
        BY <1>3, <3>1
           DEF RunNext, CommandNext, RuntimeStep, FinishRun, LoadTegrastats,
               WriteReport, WriteFeed, WriteFails, Interrupt, CheckFeed,
               allVars, commandVars, fileVars, Goto
      <4>2. QED
        BY <3>1, <4>1 DEF Configured
    <3>2. CASE step \in {"raised", "interrupted"}
      BY <1>3, <3>2
         DEF RunNext, CommandNext, RuntimeStep, FinishRun, LoadTegrastats,
             WriteReport, WriteFeed, WriteFails, Interrupt, CheckFeed, allVars,
             commandVars, fileVars, Ended, Configured
    <3>3. QED
      BY <3>1, <3>2 DEF Configured
  <2>3. \A t \in Task : Overrides(t)' = Overrides(t)
    BY <2>1 DEF Overrides, Given
  <2>4. QED
    BY <2>1, <2>2, <2>3 DEF OverriddenInv, Given
<1>4. QED
  BY <1>1, <1>2, <1>3

\* A task whose input is bad has no result.
ReadInv == \A t \in Task : executed[t] > 0 => ~ InputFails(t)

(* A result is recorded only when the worker has not raised.               *)
LEMMA ReadStep == RunInv /\ ReadInv /\ [RunNext]_allVars => ReadInv'
<1> SUFFICES ASSUME RunInv, ReadInv, [RunNext]_allVars PROVE ReadInv'
  OBVIOUS
<1>1. CASE Load \/ Override
  <2>1. Started'
    BY <1>1, LoadTypes, OverrideTypes DEF RunInv
  <2>2. \A t \in Task : executed'[t] = 0
    BY <2>1 DEF Started, TelemetryInit
  <2>3. QED
    BY <2>2 DEF ReadInv
<1>2. CASE ~ (Load \/ Override)
  <2>1. UNCHANGED <<config, options, inputPath>>
    BY <1>2, StepOfRest DEF inputVars
  <2>2. \A t \in Task : InputFails(t)' = InputFails(t)
    BY <2>1 DEF InputFails, VisionInputFails, IngressFails, SnapshotFails,
                Profiles
  <2>3. CASE executed' = executed
    BY <2>2, <2>3 DEF ReadInv
  <2>4. ASSUME NEW latency \in Latencies, RuntimeStep, WorkerReturns(latency)
        PROVE  ReadInv'
    <3>1. PICK f \in inFlight : RecordExecution(f, latency, cycle)
      BY <2>4 DEF WorkerReturns
    <3>2. pc' # "failed" /\ (pc' = "failed" <=> InputFails(f.task))
      BY <2>4 DEF RuntimeStep, WorkerReturns, Continue
    <3>3. executed \in [Task -> Nat] /\ f \in Frame
      BY DEF RunInv, TypesInv, SustainedTypeOK, TypeOK, TelemetryTypeOK
    <3>4. \A t \in Task : t # f.task => executed'[t] = executed[t]
      BY <3>1, <3>3 DEF RecordExecution
    <3>5. QED
      BY <2>2, <3>2, <3>4 DEF ReadInv
  <2>5. executed' = executed
          \/ (RuntimeStep /\ \E latency \in Latencies : WorkerReturns(latency))
    <3>1. CASE RuntimeStep
      BY <3>1 DEF RuntimeStep, Next, SkipTask, Enqueue, BeginShedding,
                  PassByTask, ShedTask, EndShedding, Schedule, WorkerRaises,
                  NothingToExecute, telemetryVars, RecordPolicyDecision
    <3>2. CASE ~ RuntimeStep
      BY <1>2, <3>2
         DEF RunNext, CommandNext, FinishRun, LoadTegrastats, WriteReport,
             WriteFeed, WriteFails, Interrupt, CheckFeed, allVars, vars,
             telemetryVars
    <3>3. QED
      BY <3>1, <3>2
  <2>6. QED
    BY <2>3, <2>4, <2>5
<1>3. QED
  BY <1>1, <1>2

(* A task of a report read its input, and if the command line named the    *)
(* input then its source is among the device-local ones.                   *)
LEMMA TracedOverride ==
  ASSUME RunInv, OverriddenInv, Configured, NEW t \in Task, executed[t] > 0,
         ReadsOverride(t)
  PROVE  t \in ProducingTasks \cap DeviceLocalTasks /\ options[t].staged
<1>1. options[t] \in WorkerOptions
  BY DEF RunInv, TypesInv, SustainedTypeOK
<1>2. /\ Given(request.vision) => config.fileBacked
      /\ Overrides(t) => options[t].deviceLocal /\ options[t].staged
      /\ options[t].agent = "voice" /\ Given(request.voice)
           => Given(options[t].ingress)
      /\ options[t].agent = "safety" /\ Given(request.snapshot)
           => Given(options[t].snapshot)
  BY DEF OverriddenInv
<1>3. options[t].snapshotSource
        \in {"resource_snapshot_fixture", "process_resource_snapshot"}
  BY <1>1 DEF WorkerOptions
<1>4. Overrides(t)
  BY DEF ReadsOverride, Overrides
<1>5. ProducerSource(t) # NoSource
  <2>1. CASE Given(request.vision) /\ options[t].agent = "vision"
               /\ Profiles(t, "realtime_vision")
    BY <1>2, <2>1 DEF ProducerSource, NoSource
  <2>2. CASE Given(request.voice) /\ options[t].agent = "voice"
               /\ Profiles(t, "voice_command")
    BY <1>2, <2>2 DEF ProducerSource, NoSource, Given, Profiles
  <2>3. CASE Given(request.snapshot) /\ options[t].agent = "safety"
               /\ Profiles(t, "telemetry_monitor")
    BY <1>2, <1>3, <2>3 DEF ProducerSource, NoSource, Given, Profiles
  <2>4. QED
    BY <2>1, <2>2, <2>3 DEF ReadsOverride
<1>6. QED
  BY <1>2, <1>4, <1>5 DEF ProducingTasks, DeviceLocalTasks

(* An input of the command line is in the evidence: a report in which a    *)
(* task that reads it was executed lists its source as device-local, with  *)
(* its stage, and comes with a feed if one was asked for and the command   *)
(* returned; and no task of a report read a bad file.                      *)
THEOREM SustainedOverridesTraced == SustainedSpec => []OverridesTraced
<1> DEFINE Inv == RunInv /\ FileInv /\ OverriddenInv /\ ReadInv
<1>1. RunInit => Inv
  <2> SUFFICES ASSUME RunInit PROVE Inv
    OBVIOUS
  <2>1. ReadInv
    BY StartedInit DEF RunInit, Started, TelemetryInit, ReadInv
  <2>2. QED
    BY <2>1, RunInvInit DEF RunInit, FileInv, OverriddenInv, Configured
<1>2. Inv /\ [RunNext]_allVars => Inv'
  BY RunInvStep, FileStep, OverriddenStep, ReadStep
<1>3. Inv => OverridesTraced
  <2> SUFFICES ASSUME Inv, reportFile = "this", NEW t \in Task,
                      executed[t] > 0
               PROVE  /\ ~ InputFails(t)
                      /\ ReadsOverride(t) =>
                           /\ ProducerSource(t) \in Lineage.deviceLocalSources
                           /\ t \in Lineage.stagedTasks
                           /\ request.feed /\ step = "returned"
                                => feedFile = "this"
    BY DEF OverridesTraced
  <2>1. ~ InputFails(t)
    BY DEF ReadInv
  <2>2. ASSUME ReadsOverride(t)
        PROVE  /\ ProducerSource(t) \in Lineage.deviceLocalSources
               /\ t \in Lineage.stagedTasks
               /\ request.feed /\ step = "returned" => feedFile = "this"
    <3>1. t \in ProducingTasks \cap DeviceLocalTasks /\ options[t].staged
      BY <2>2, TracedOverride DEF Configured
    <3>2. request.feed /\ step = "returned" => feedFile = "this"
      BY DEF FileInv
    <3>3. QED
      BY <3>1, <3>2 DEF Lineage
  <2>3. QED
    BY <2>1, <2>2
<1>4. QED
  BY <1>1, <1>2, <1>3, PTL DEF SustainedSpec

=============================================================================
