------------------------------ MODULE SustainedRun ------------------------------
(***************************************************************************)
(* The command run-multi-workload-sustained (cli.py,                       *)
(* _run_multi_workload_sustained, and the functions of sustained.py it     *)
(* calls): it loads the configuration, points the tasks at the inputs the  *)
(* command line names, has OrchestratorRuntime run, and writes the report  *)
(* and the EdgeEnv feed.                                                   *)
(*                                                                         *)
(* A second process, scripts/check_edgeenv_runtime_feed_contract.py, may   *)
(* read the feed at any time, and the command may be interrupted between   *)
(* any two steps.  write_text first empties the file and then fills it: a  *)
(* file is "partial" in between, and stays so if the writing fails.        *)
(***************************************************************************)
EXTENDS OrchestratorRuntime, SustainedFeed

CONSTANTS
  Requests,       \* the command lines
  Declarations,   \* what the files declare of the tasks
  WorkerSetups    \* the worker_options in the configuration file

(***************************************************************************)
(* The inputs the command line names (snapshot: "captured" for             *)
(* --capture-process-resource-snapshot, whose file only this run reads,    *)
(* "both" if --resource-snapshot is given too), the tegrastats log, and    *)
(* whether --edgeenv-feed-output is given.                                 *)
(***************************************************************************)
Request ==
  [vision : {"none"} \cup InputPaths, model : Paths, voice : Paths,
   snapshot : Paths \cup {"captured", "both"},
   tegrastats : {"none", "good", "missing"}, feed : BOOLEAN]

ASSUME RequestsAssumption == Requests \subseteq Request

ASSUME DeclarationsAssumption ==
  \A d \in Declarations : \A t \in Task :
    /\ "entry" \in DOMAIN d[t]
    /\ \A file \in DOMAIN d[t] : Convertible(d[t][file])

ASSUME WorkerSetupsAssumption == WorkerSetups \subseteq [Task -> WorkerOptions]

VARIABLES
  request, declared,
  step,                 \* the statement the command is about to execute
  reportFile, feedFile,
  gate                  \* the last run of the contract check, or NoGate

fileVars == <<reportFile, feedFile>>
inputVars == <<request, declared, options, inputPath>>
commandVars == <<inputVars, step, fileVars, gate>>
allVars == <<vars, commandVars>>

\* What no step before the run changes.
idleVars == <<queue, toVisit, protected, pc, cycle, sequence, inFlight,
              telemetryVars, request, declared, fileVars, gate>>

Ended == {"returned", "raised", "interrupted"}

Steps == {"load", "override", "run", "tegrastats", "report",
          "write report", "feed", "write feed"} \cup Ended

Files == {"absent", "earlier", "partial", "this"}

NoGate == [file |-> "none", required |-> FALSE, passed |-> FALSE]

RunInit ==
  /\ Init
  /\ request \in Requests /\ declared \in Declarations
  /\ options \in WorkerSetups
  /\ inputPath \in IF config.fileBacked THEN InputPaths ELSE {"good"}
  /\ step = "load"
  /\ reportFile \in {"absent", "earlier"} /\ feedFile = reportFile
  /\ gate = NoGate

Goto(next) == step' = next

-----------------------------------------------------------------------------
\* load_config, and the refusal of two snapshots.

Loaded == [t \in Task |-> LoadedTask(declared[t])]

LoadedConfig ==
  [config EXCEPT !.priority = [t \in Task |-> Loaded[t].priority],
                 !.budget   = [t \in Task |-> Loaded[t].budget],
                 !.fallback = [t \in Task |-> Loaded[t].fallback]]

\* Mutated form: a task without a budget is let through.
LoadUnvalidated ==
  /\ step = "load"
  /\ IF request.snapshot # "both"
       THEN /\ config' = LoadedConfig
            /\ options' =
                 [t \in Task |-> [options[t] EXCEPT !.agent = Loaded[t].agent]]
            /\ Goto("override")
       ELSE Goto("raised") /\ UNCHANGED <<config, options>>
  /\ UNCHANGED <<idleVars, inputPath>>

Load ==
  /\ step = "load"
  /\ IF (\A t \in Task : AcceptedTask(Loaded[t])) /\ request.snapshot # "both"
       THEN /\ config' = LoadedConfig
            /\ options' =
                 [t \in Task |-> [options[t] EXCEPT !.agent = Loaded[t].agent]]
            /\ Goto("override")
       ELSE Goto("raised") /\ UNCHANGED <<config, options>>
  /\ UNCHANGED <<idleVars, inputPath>>

-----------------------------------------------------------------------------
\* apply_device_local_input_overrides.

Given(path) == path # "none"

\* The command line names an input for tasks with the agent_type of t.
Overrides(t) ==
  \/ /\ options[t].agent = "vision"
     /\ Given(request.vision) \/ Given(request.model)
  \/ options[t].agent = "voice" /\ Given(request.voice)
  \/ options[t].agent = "safety" /\ Given(request.snapshot)

Pointed(path, agent, t, given) ==
  IF options[t].agent = agent /\ Given(given) THEN given ELSE path

SnapshotGiven ==
  IF request.snapshot = "captured" THEN "good" ELSE request.snapshot

\* Mutated form: a task keeps the flag of its configuration.
OverriddenUnflagged(t) ==
  [options[t] EXCEPT
     !.staged = @ \/ Overrides(t),
     !.model = Pointed(@, "vision", t, request.model),
     !.ingress = Pointed(@, "voice", t, request.voice),
     !.snapshot = Pointed(@, "safety", t, SnapshotGiven),
     !.snapshotSource =
       IF options[t].agent = "safety" /\ request.snapshot = "captured"
         THEN "process_resource_snapshot" ELSE @]

Overridden(t) ==
  [options[t] EXCEPT
     !.deviceLocal = @ \/ Overrides(t),
     !.staged = @ \/ Overrides(t),
     !.model = Pointed(@, "vision", t, request.model),
     !.ingress = Pointed(@, "voice", t, request.voice),
     !.snapshot = Pointed(@, "safety", t, SnapshotGiven),
     !.snapshotSource =
       IF options[t].agent = "safety" /\ request.snapshot = "captured"
         THEN "process_resource_snapshot" ELSE @]

\* A vision input becomes the frame source of every task.  The constructor of
\* OrchestratorRuntime then builds that source: _image_sequence_paths refuses
\* a directory without images.
Override ==
  /\ step = "override"
  /\ options' = [t \in Task |-> Overridden(t)]
  /\ config' = [config EXCEPT !.fileBacked = @ \/ Given(request.vision)]
  /\ inputPath' = IF Given(request.vision) THEN request.vision ELSE inputPath
  /\ Goto(IF inputPath' = "empty" THEN "raised" ELSE "run")
  /\ UNCHANGED idleVars

-----------------------------------------------------------------------------
\* run_multi_workload_sustained.  The worker raises when the input of its
\* task is bad, and does not otherwise.
RuntimeStep ==
  /\ step = "run" /\ pc \notin {"done", "failed"}
  /\ Next
  /\ \A f \in inFlight : pc' = "failed" <=> InputFails(f.task)
  /\ UNCHANGED commandVars

FinishRun ==
  /\ step = "run" /\ pc \in {"done", "failed"}
  /\ Goto(IF pc = "done" THEN "tegrastats" ELSE "raised")
  /\ UNCHANGED <<vars, inputVars, fileVars, gate>>

\* load_tegrastats_timeline reads the log when the run is over.
LoadTegrastats ==
  /\ step = "tegrastats"
  /\ Goto(IF request.tegrastats = "missing" THEN "raised" ELSE "report")
  /\ UNCHANGED <<vars, inputVars, fileVars, gate>>

WriteReport ==
  /\ \/ /\ step = "report"
        /\ reportFile' = "partial" /\ Goto("write report")
     \/ /\ step = "write report"
        /\ reportFile' = "this"
        /\ Goto(IF request.feed THEN "feed" ELSE "returned")
  /\ UNCHANGED <<vars, inputVars, feedFile, gate>>

\* Mutated form: a feed that is refused is not an error.
WriteValidFeed ==
  /\ \/ step = "feed" /\ FeedValid(FALSE)
        /\ feedFile' = "partial" /\ Goto("write feed")
     \/ step = "write feed" /\ feedFile' = "this" /\ Goto("returned")
  /\ UNCHANGED <<vars, inputVars, reportFile, gate>>

\* write_edgeenv_runtime_telemetry_feed.
WriteFeed ==
  /\ \/ /\ step = "feed"
        /\ IF FeedValid(FALSE)
             THEN feedFile' = "partial" /\ Goto("write feed")
             ELSE Goto("raised") /\ UNCHANGED feedFile
     \/ step = "write feed" /\ feedFile' = "this" /\ Goto("returned")
  /\ UNCHANGED <<vars, inputVars, reportFile, gate>>

\* mkdir or write_text raises OSError: before the file is opened, which leaves
\* it as it is, or while it is written, which leaves it "partial".  The file of
\* a captured snapshot is written before the overrides.
WriteFails ==
  /\ \/ step = "override" /\ request.snapshot = "captured"
     \/ step \in {"report", "write report", "write feed"}
     \/ step = "feed" /\ FeedValid(FALSE)
  /\ Goto("raised")
  /\ UNCHANGED <<vars, inputVars, fileVars, gate>>

Interrupt ==
  /\ step \notin Ended
  /\ Goto("interrupted")
  /\ UNCHANGED <<vars, inputVars, fileVars, gate>>

\* What the check of a feed file may return.  An earlier feed was valid when
\* it was written, with a producer or without.
GateResults(required) ==
  IF feedFile = "this" THEN {FeedValid(required)}
  ELSE IF feedFile = "earlier" THEN {TRUE, ~ required}
  ELSE {FALSE}

\* The contract check, run once.
CheckFeed ==
  /\ gate = NoGate
  /\ \E required \in BOOLEAN : \E passed \in GateResults(required) :
       gate' = [file |-> feedFile, required |-> required, passed |-> passed]
  /\ UNCHANGED <<vars, inputVars, step, fileVars>>

CommandNext ==
  Load \/ Override \/ RuntimeStep \/ FinishRun \/ LoadTegrastats
    \/ WriteReport \/ WriteFeed \/ WriteFails

RunNext == CommandNext \/ Interrupt \/ CheckFeed

SustainedSpec == RunInit /\ [][RunNext]_allVars

\* The command runs as long as it is not interrupted; nobody has to run the
\* check, and nothing has to interrupt.
FairSustainedSpec == SustainedSpec /\ WF_allVars(CommandNext)

-----------------------------------------------------------------------------
SustainedTypeOK ==
  /\ TypeOK
  /\ options \in [Task -> WorkerOptions]
  /\ inputPath \in InputPaths
  /\ step \in Steps
  /\ {reportFile, feedFile} \subseteq Files
  /\ gate \in [file : Files \cup {"none"}, required : BOOLEAN,
               passed : BOOLEAN]

(* A check that passed on the feed of this run found, next to a complete   *)
(* report, the feed of that report; and if it was told to require a        *)
(* device-local producer, then a task that is marked device-local was      *)
(* executed and read its input: that it was configured is not enough.      *)
(* No check passes on a file that is being written or was left unfinished. *)
GateMeansProduced ==
  gate.passed =>
    /\ gate.file \in {"earlier", "this"}
    /\ gate.file = "this" =>
         /\ reportFile = "this" /\ pc = "done"
         /\ gate.required =>
              \E t \in DeviceLocalTasks :
                executed[t] > 0 /\ ProducerSource(t) # NoSource

\* The workload profile that reads the input the command line has for t.
ReadsOverride(t) ==
  \/ Given(request.vision) /\ options[t].agent = "vision"
       /\ Profiles(t, "realtime_vision")
  \/ Given(request.voice) /\ options[t].agent = "voice"
       /\ Profiles(t, "voice_command")
  \/ Given(request.snapshot) /\ options[t].agent = "safety"
       /\ Profiles(t, "telemetry_monitor")

(* An input given on the command line is in the evidence: a report on disk *)
(* in which a task that reads the input was executed lists its source as   *)
(* device-local, with its stage; it comes with a feed if one was asked for *)
(* and the command returned; and no task of a report read a bad file.      *)
OverridesTraced ==
  reportFile = "this" =>
    \A t \in Task :
      executed[t] > 0 =>
        /\ ~ InputFails(t)
        /\ ReadsOverride(t) =>
             /\ ProducerSource(t) \in Lineage.deviceLocalSources
             /\ t \in Lineage.stagedTasks
             /\ request.feed /\ step = "returned" => feedFile = "this"

(* The feed of a finished run is refused for its lineage alone: if a task  *)
(* has produced, but none that is marked device-local, or if no task has a *)
(* stage.  None of the summaries is ever refused, whatever the run.  A     *)
(* refusal leaves the file of the feed as it was: only one that is valid,  *)
(* of a complete report, begins to be written.  A command that raises with *)
(* its report on disk was asked for a feed and has not written it.         *)
RefusedOnlyForLineage ==
  /\ pc = "done" /\ step = "run" =>
       (FeedValid(FALSE) <=>
          \/ ProducingTasks = {}
          \/ /\ ProducingTasks \cap DeviceLocalTasks # {}
             /\ \E t \in Task : options[t].staged)
  /\ feedFile \in {"partial", "this"} =>
       reportFile = "this" /\ FeedValid(FALSE)
  /\ step = "raised" /\ reportFile = "this" =>
       pc = "done" /\ request.feed /\ feedFile # "this"

(* A run compares latencies with budgets that a file states for the task,  *)
(* and counts fallbacks only of tasks for which one states a policy: the   *)
(* default that a runtime result without the field puts in place of what   *)
(* the manifest states is refused, or harmless.  (It is neither for the    *)
(* priority, which silently becomes 0.)                                    *)
BudgetsStated ==
  step \notin {"load", "raised", "interrupted"} =>
    \A t \in Task :
      /\ config.budget[t] > 0
      /\ config.budget[t] \in Stated(declared[t], "budget")
      /\ fallbackUsed[t] > 0 => TRUE \in Stated(declared[t], "fallback")

(* The command comes to an end: it returns, raises or is interrupted.      *)
CommandEnds == <>(step \in Ended)

(* "assert scenario_coverage["device_local_producer_count"] ==             *)
(* (signals["device_local_producer_count"])" (test_multi_workload_sustained*)
(* .py): the two summaries of a report that count the results of           *)
(* device-local producers under this name agree.                           *)
CoverageCountsProducers ==
  reportFile = "this" =>
    CoverageOfProducers.deviceLocalProducerCount =
      ProducerSourceSignals.deviceLocalProducerCount

=============================================================================
