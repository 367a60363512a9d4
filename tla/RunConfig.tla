------------------------------ MODULE RunConfig ------------------------------
(***************************************************************************)
(* The configuration of an orchestrator run (config.py, OrchestratorConfig *)
(* and TaskConfig) and the frame envelopes the frame sources build from it *)
(* (frames.py).                                                            *)
(*                                                                         *)
(* A configuration is loaded once and never changes.  It is kept in a      *)
(* variable, config, chosen in Init from the set Configs, so that one run  *)
(* of the model checker covers many configurations.                        *)
(***************************************************************************)
EXTENDS Integers, FiniteSets, Sequences

CONSTANTS
  Task,     \* the task names, each written as its rank in the order of names
  Configs   \* the configurations a run may be started with

VARIABLE config

DropPolicies == {"drop_oldest", "drop_newest", "drop_low_priority"}

PositiveNat == Nat \ {0}

(***************************************************************************)
(* The fields the runtime reads.  Times (the latency budgets, the frame    *)
(* interval, the latencies) are whole numbers of one unit.  order[t] is    *)
(* the place of t in the "tasks" list of the file; frames and drain are    *)
(* the arguments of OrchestratorRuntime.run; latency is                    *)
(* simulated_latency_ms and fileBacked says that input_source is one of    *)
(* image, image_sequence and video.                                        *)
(***************************************************************************)
Config ==
  [priority   : [Task -> Nat],
   queueSize  : [Task -> PositiveNat],
   dropPolicy : [Task -> DropPolicies],
   emitEvery  : [Task -> PositiveNat],
   budget     : [Task -> PositiveNat],
   latency    : [Task -> Nat],
   fallback   : [Task -> BOOLEAN],
   order      : [Task -> Nat],
   threshold  : PositiveNat,
   interval   : PositiveNat,
   fileBacked : BOOLEAN,
   frames     : Nat,
   drain      : BOOLEAN]

\* What TaskConfig.validate and OrchestratorConfig.validate let through.  A
\* list has one entry per place: two tasks have different places in it.
ValidConfig(c) ==
  /\ c \in Config
  /\ \A s, t \in Task : s # t => c.order[s] # c.order[t]

ASSUME TaskAssumption ==
  Task \subseteq Nat /\ Task # {} /\ IsFiniteSet(Task)

ASSUME ConfigsAssumption == \A c \in Configs : ValidConfig(c)

(***************************************************************************)
(* A FrameEnvelope.  Its sequence number is unique in a run (both sources  *)
(* count every frame of every task) and stands for frame_id.               *)
(***************************************************************************)
Frame == [task : Task, sequence : PositiveNat, cycle : Nat]

Emits(t, cycle) == cycle % config.emitEvery[t] = 0

CreatedAt(f)  == f.cycle * config.interval
DeadlineAt(f) == CreatedAt(f) + config.budget[f.task]

\* sorted_tasks_by_priority: (-priority, name).
HighFirst(s, t) ==
  \/ config.priority[s] > config.priority[t]
  \/ config.priority[s] = config.priority[t] /\ s < t

\* LoadSheddingPolicy._tasks_low_first: (priority, name).
LowFirst(s, t) ==
  \/ config.priority[s] < config.priority[t]
  \/ config.priority[s] = config.priority[t] /\ s < t

=============================================================================
