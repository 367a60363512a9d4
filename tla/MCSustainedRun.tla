---------------------------- MODULE MCSustainedRun ----------------------------
(***************************************************************************)
(* Instances of SustainedRun for TLC.                                      *)
(***************************************************************************)
EXTENDS SustainedRun

TwoTasks == {1, 2}
FastLatency == {1}

(***************************************************************************)
(* Before the load the fields that come from the declarations have the     *)
(* values of no task.  With a threshold of one, the task of lower priority *)
(* is shed in every cycle and never executed.                              *)
(***************************************************************************)
BusyConfigs ==
  [priority   : {[t \in TwoTasks |-> 0]},
   queueSize  : {[t \in TwoTasks |-> 1]},
   dropPolicy : {[t \in TwoTasks |-> "drop_oldest"]},
   emitEvery  : {[t \in TwoTasks |-> 1]},
   budget     : {[t \in TwoTasks |-> 1]},
   latency    : {[t \in TwoTasks |-> 1]},
   fallback   : {[t \in TwoTasks |-> FALSE]},
   order      : {[t \in TwoTasks |-> t]},
   threshold  : {1, 2},
   interval   : {1},
   fileBacked : BOOLEAN,
   frames     : {2},
   drain      : {TRUE}]

RunConfigs ==
  BusyConfigs
    \cup {[c EXCEPT !.frames = 0] : c \in {d \in BusyConfigs :
                                           d.threshold = 1 /\ d.fileBacked}}

Plain ==
  [vision |-> "none", model |-> "none", voice |-> "none",
   snapshot |-> "none", tegrastats |-> "none", feed |-> TRUE]

\* One input at a time, two at a time, and what does not mix.
OneRequest ==
  {[Plain EXCEPT !.vision = v] : v \in {"good", "bad", "empty"}}
    \cup {[Plain EXCEPT !.vision = "good", !.model = m] : m \in Paths}
    \cup {[Plain EXCEPT !.voice = v] : v \in {"good", "bad"}}
    \cup {[Plain EXCEPT !.snapshot = s] : s \in {"good", "captured", "both"}}
    \cup {[Plain EXCEPT !.tegrastats = l, !.feed = f] :
            l \in {"good", "missing"}, f \in BOOLEAN}
    \cup {[Plain EXCEPT !.model = "good", !.voice = "good",
                        !.snapshot = "bad"]}

AllRequests == {Plain} \cup OneRequest

Entry(priority, agent) ==
  [entry |-> [priority |-> priority, budget |-> 2, agent |-> agent]]

\* Task 1 is the vision agent, above or below task 2; it may take its fields
\* from a manifest, and from a runtime result without some of them.
Manifest == [priority |-> 2, budget |-> 1, agent |-> "vision",
             fallback |-> TRUE]

VisionDeclarations ==
  {Entry(2, "vision"), Entry(0, "vision"),
   [entry |-> <<>>, manifest |-> Manifest],
   [entry |-> <<>>, manifest |-> Manifest,
    result |-> [budget |-> 2, agent |-> "vision"]],
   [entry |-> <<>>, manifest |-> Manifest,
    result |-> [priority |-> 2, agent |-> "vision"]]}

AllDeclarations ==
  {[t \in TwoTasks |-> IF t = 1 THEN vision ELSE Entry(1, "voice")] :
     vision \in VisionDeclarations}
    \cup {[t \in TwoTasks |-> IF t = 1 THEN Entry(2, "vision")
                                       ELSE Entry(1, "safety")]}

Options(workload) ==
  [agent |-> "none", localProfile |-> TRUE, workload |-> workload,
   model |-> "none", ingress |-> "none", snapshot |-> "none",
   snapshotSource |-> "resource_snapshot_fixture",
   deviceLocal |-> FALSE, staged |-> FALSE]

\* The committed configurations: local profiles without inputs, with the
\* inputs of one kind, and as device-local producers; and dummy workers.
AllSetups ==
  {[t \in TwoTasks |-> IF t = 1 THEN Options("realtime_vision") ELSE second] :
     second \in
       {Options("voice_command"), Options("telemetry_monitor"),
        [Options("voice_command") EXCEPT !.ingress = "good"],
        [Options("voice_command") EXCEPT !.ingress = "good", !.staged = TRUE,
                                         !.deviceLocal = TRUE],
        [Options("telemetry_monitor") EXCEPT !.snapshot = "good",
                                             !.deviceLocal = TRUE],
        [Options("utility") EXCEPT !.localProfile = FALSE]}}

=============================================================================
