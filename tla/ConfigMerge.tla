------------------------------ MODULE ConfigMerge ------------------------------
(***************************************************************************)
(* How a task of the configuration gets its fields (config.py,             *)
(* TaskConfig.from_dict): from its entry in the file, else from the agent  *)
(* manifest or the runtime result the entry names, else from a default.    *)
(*                                                                         *)
(* A mapping read from a file is a function on the fields it has.          *)
(***************************************************************************)
EXTENDS Integers

Agents == {"vision", "voice", "safety", "none"}

NoAgent == "none"

\* The fields that more than one of the three files may give.
Fields == {"priority", "budget", "agent", "fallback"}

\* The value of a field that the mapping read does not have.
Default ==
  [priority |-> 0, budget |-> 0, agent |-> NoAgent, fallback |-> FALSE]

\* What from_dict can convert: a field that a mapping has is of its type.
Convertible(mapping) ==
  /\ "priority" \in DOMAIN mapping => mapping["priority"] \in Int
  /\ "budget" \in DOMAIN mapping => mapping["budget"] \in Int
  /\ "agent" \in DOMAIN mapping => mapping["agent"] \in Agents
  /\ "fallback" \in DOMAIN mapping => mapping["fallback"] \in BOOLEAN

\* mapping.get, of each field.
Get(mapping, default) ==
  [field \in Fields |->
     IF field \in DOMAIN mapping THEN mapping[field] ELSE default[field]]

\* Both return every field: one that the file lacks has its default.
DefaultsFromAgentManifest(manifest) == Get(manifest, Default)
DefaultsFromRuntimeResult(result)   == Get(result, Default)

Named(declared, file) == file \in DOMAIN declared

(***************************************************************************)
(* _agent_defaults_from_task.  dict.update lets the runtime result replace *)
(* every field of the manifest, those the result lacks included.           *)
(***************************************************************************)
AgentDefaults(declared) ==
  IF Named(declared, "result")
    THEN DefaultsFromRuntimeResult(declared.result)
  ELSE IF Named(declared, "manifest")
    THEN DefaultsFromAgentManifest(declared.manifest)
  ELSE Default

LoadedTask(declared) == Get(declared.entry, AgentDefaults(declared))

\* TaskConfig.validate, of these fields.
AcceptedTask(task) == task.budget > 0 /\ task.priority >= 0

\* The values that the files of a task state for a field.
Stated(declared, field) ==
  {declared[file][field] :
     file \in {f \in DOMAIN declared : field \in DOMAIN declared[f]}}

=============================================================================
