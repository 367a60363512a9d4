---------------------------- MODULE RemoteDispatch ----------------------------
(***************************************************************************)
(* dispatch_remote_task (remote_dispatch.py): a worker is selected from    *)
(* the registry, it is called once, and when that fails in a way the       *)
(* request names, other workers are called in turn; what happened is       *)
(* written to one result file.                                             *)
(*                                                                         *)
(* A step is one call of a worker or one stage of _build_result.  What the *)
(* network and the worker make of a call is the environment's choice.      *)
(***************************************************************************)
EXTENDS Integers, FiniteSets, Sequences

CONSTANT Dispatches   \* the registries and requests dispatch may be given

VARIABLES
  dispatch,     \* the registry and the request of this dispatch
  pc,
  selected,     \* selected: a set of one place in the registry, or of none
  toTry,        \* the places of the fallback candidates not reached yet
  primary,      \* remote_execution_result: a set of one, or of none
  attempts,     \* fallback_execution_result["attempts"]
  result,       \* what is written to the output: a set of one, or of none
  carriedOut    \* ghost: how many times a worker has carried the task out

vars == <<dispatch, pc, selected, toTry, primary, attempts, result,
          carriedOut>>

PositiveNat == Nat \ {0}

Transports == {"http", "ssh", "file_contract"}

\* matches is supports(request); addressed says that the metadata or the
\* request give the endpoint URL, or the ssh host and command.  The id is
\* the rank of worker_id in the order of the ids.
Worker ==
  [id : Nat, online : BOOLEAN,
   health : {"healthy", "constrained", "unhealthy"}, matches : BOOLEAN,
   capacity : Nat, transport : Transports, addressed : BOOLEAN]

Statuses == {"succeeded", "failed", "skipped"}

\* error_category; "none" where it is absent.
Categories ==
  {"none", "timeout", "http_error", "connection_error",
   "missing_endpoint_url", "missing_ssh_contract", "remote_command_failed",
   "unsupported_starter_transport", "execution_not_requested",
   "no_worker_selected"}

\* fallbackOn may name anything; the names dispatch never reports (the
\* defaults worker_unhealthy and runtime_error among them) change nothing.
Dispatch ==
  [registry : Seq(Worker), execute : BOOLEAN, maxAttempts : PositiveNat,
   fallbackOn : SUBSET Categories]

ASSUME DispatchesAssumption == Dispatches \subseteq Dispatch

Place == DOMAIN dispatch.registry
At(i) == dispatch.registry[i]

\* An execution result; place is 0 when there was no worker to call.
Outcome ==
  [place : Nat, status : Statuses, category : Categories, performed : BOOLEAN]

-----------------------------------------------------------------------------
\* _evaluate_worker
Eligible(w) ==
  w.online /\ w.health \in {"healthy", "constrained"} /\ w.matches

HealthRank(w) == IF w.health = "healthy" THEN 0 ELSE 1

\* Mutated form: the smallest capacity first.
RankedBeforeByLoad(i, j) ==
  LET v == At(i)
      w == At(j)
  IN  \/ HealthRank(v) < HealthRank(w)
      \/ /\ HealthRank(v) = HealthRank(w)
         /\ \/ v.capacity < w.capacity
            \/ v.capacity = w.capacity /\ v.id < w.id
            \/ v.capacity = w.capacity /\ v.id = w.id /\ i < j

\* The stable sort of _select_worker, by (rank, -capacity, id).
RankedBefore(i, j) ==
  LET v == At(i)
      w == At(j)
  IN  \/ HealthRank(v) < HealthRank(w)
      \/ /\ HealthRank(v) = HealthRank(w)
         /\ \/ v.capacity > w.capacity
            \/ v.capacity = w.capacity /\ v.id < w.id
            \/ v.capacity = w.capacity /\ v.id = w.id /\ i < j

FirstOf(places) ==
  {i \in places : \A j \in places \ {i} : RankedBefore(i, j)}

\* worker_by_id of _execute_fallback_plan: the last of the workers that
\* have this id.
ById(id) ==
  CHOOSE i \in Place :
    At(i).id = id /\ \A j \in Place : At(j).id = id => j <= i

Ended(i, status, category) ==
  [place |-> i, status |-> status, category |-> category, performed |-> TRUE]

NotPerformed(i, status, category) ==
  [place |-> i, status |-> status, category |-> category,
   performed |-> FALSE]

\* What _execute_remote_plan may report of a call of the worker at i:
\* _execute_http_request, _execute_ssh_command, or the last branch.
Outcomes(i) ==
  CASE At(i).transport = "http" /\ At(i).addressed ->
         {Ended(i, "succeeded", "none"), Ended(i, "failed", "timeout"),
          Ended(i, "failed", "http_error"),
          Ended(i, "failed", "connection_error")}
    [] At(i).transport = "http" /\ ~ At(i).addressed ->
         {NotPerformed(i, "failed", "missing_endpoint_url")}
    [] At(i).transport = "ssh" /\ At(i).addressed ->
         {Ended(i, "succeeded", "none"), Ended(i, "failed", "timeout"),
          Ended(i, "failed", "remote_command_failed")}
    [] At(i).transport = "ssh" /\ ~ At(i).addressed ->
         {NotPerformed(i, "failed", "missing_ssh_contract")}
    [] At(i).transport = "file_contract" ->
         {NotPerformed(i, "skipped", "unsupported_starter_transport")}

\* Whether the worker has carried the task out, by what is reported of the
\* call: a call that timed out or was answered with an error may have been.
CarriedOut(o) ==
  CASE o.status = "succeeded" -> {1}
    [] o.category \in {"timeout", "http_error", "connection_error",
                       "remote_command_failed"} -> {0, 1}
    [] OTHER -> {0}

-----------------------------------------------------------------------------
Summary ==
  [dispatchStatus : {"accepted", "rejected"}, finalStatus : Statuses,
   performed : BOOLEAN, fallbackPerformed : BOOLEAN, recovered : BOOLEAN,
   completedEvents : Nat, failedEvents : Nat]

TypeOK ==
  /\ dispatch \in Dispatches
  /\ pc \in {"select", "primary", "fallback", "record", "written", "raised"}
  /\ selected \in SUBSET Place
  /\ toTry \in SUBSET Place
  /\ primary \in SUBSET Outcome
  /\ attempts \in Seq(Outcome)
  /\ result \in SUBSET Summary
  /\ carriedOut \in Nat

Init ==
  /\ dispatch \in Dispatches
  /\ pc = "select"
  /\ selected = {} /\ toTry = {} /\ primary = {} /\ attempts = <<>>
  /\ result = {} /\ carriedOut = 0

\* _select_worker, and the fallback_worker_ids of _build_worker_selection:
\* a candidate with the id of the selected worker is not among them.
SelectWorker ==
  /\ pc = "select"
  /\ LET candidates == {i \in Place : Eligible(At(i))}
     IN  /\ selected' = FirstOf(candidates)
         /\ toTry' = {i \in candidates :
                        \A s \in selected' : At(i).id # At(s).id}
  /\ pc' = "primary"
  /\ UNCHANGED <<dispatch, primary, attempts, result, carriedOut>>

\* _should_try_fallback.  Mutated form: every failure asks for a fallback.
FallbackOnAnyFailure(o) ==
  /\ dispatch.execute
  /\ o.status # "succeeded"
  /\ toTry # {}
  /\ dispatch.maxAttempts > 1

ShouldTryFallback(o) ==
  /\ dispatch.execute
  /\ o.status # "succeeded"
  /\ toTry # {}
  /\ dispatch.maxAttempts > 1
  /\ o.category \in dispatch.fallbackOn

PrimaryOutcomes ==
  IF selected = {}
    THEN {NotPerformed(0, "skipped", "no_worker_selected")}
    ELSE UNION {IF dispatch.execute THEN Outcomes(i)
                ELSE {NotPerformed(i, "skipped", "execution_not_requested")}
                  : i \in selected}

\* _execute_remote_plan for the selected worker.
ExecutePrimary(o, n) ==
  /\ pc = "primary"
  /\ o \in PrimaryOutcomes /\ n \in CarriedOut(o)
  /\ primary' = {o}
  /\ carriedOut' = carriedOut + n
  /\ pc' = IF ShouldTryFallback(o) THEN "fallback" ELSE "record"
  /\ UNCHANGED <<dispatch, selected, toTry, attempts, result>>

FallbackLimit == dispatch.maxAttempts - 1

\* Mutated form: goes on to the next worker after a success.
TryNextAnyway(i, o, n) ==
  /\ pc = "fallback" /\ Len(attempts) < FallbackLimit
  /\ i \in FirstOf(toTry)
  /\ o \in Outcomes(ById(At(i).id)) /\ n \in CarriedOut(o)
  /\ attempts' = Append(attempts, o)
  /\ carriedOut' = carriedOut + n
  /\ toTry' = toTry \ {i}
  /\ UNCHANGED <<dispatch, pc, selected, primary, result>>

\* One turn of the loop of _execute_fallback_plan.  The worker that is
\* called is looked up by the id of the candidate.
TryFallback(i, o, n) ==
  /\ pc = "fallback" /\ Len(attempts) < FallbackLimit
  /\ i \in FirstOf(toTry)
  /\ o \in Outcomes(ById(At(i).id)) /\ n \in CarriedOut(o)
  /\ attempts' = Append(attempts, o)
  /\ carriedOut' = carriedOut + n
  /\ toTry' = toTry \ {i}
  /\ pc' = IF o.status = "succeeded" THEN "record" ELSE "fallback"
  /\ UNCHANGED <<dispatch, selected, primary, result>>

\* Mutated form: waits for the last candidate, whatever the limit.
EndFallbackWhenNoneLeft ==
  /\ pc = "fallback" /\ toTry = {}
  /\ pc' = "record"
  /\ UNCHANGED <<dispatch, selected, toTry, primary, attempts, result,
                 carriedOut>>

\* The loop has no candidate left or has made its attempts.
EndFallback ==
  /\ pc = "fallback"
  /\ toTry = {} \/ Len(attempts) >= FallbackLimit
  /\ pc' = "record"
  /\ UNCHANGED <<dispatch, selected, toTry, primary, attempts, result,
                 carriedOut>>

\* The worker a step of either kind is about to call.
Called ==
  CASE pc = "primary" /\ dispatch.execute -> selected
    [] pc = "fallback" /\ Len(attempts) < FallbackLimit ->
         {ById(At(i).id) : i \in FirstOf(toTry)}
    [] OTHER -> {}

\* An exception that _execute_http_request and _execute_ssh_command do not
\* catch leaves dispatch_remote_task, with no result written: the server
\* closes the connection without an answer (http.client.RemoteDisconnected),
\* the answer is no UTF-8, or the host has no ssh program.  The worker may
\* have carried the task out.
CallRaises(n) ==
  /\ \E i \in Called : At(i).addressed /\ At(i).transport # "file_contract"
  /\ n \in {0, 1}
  /\ carriedOut' = carriedOut + n
  /\ pc' = "raised"
  /\ UNCHANGED <<dispatch, selected, toTry, primary, attempts, result>>

\* final_status of the summary.  Mutated form: that of the primary call.
FinalStatusOfPrimary == (CHOOSE o \in primary : TRUE).status

\* Mutated form: fallback_final_status, whether or not there was a fallback.
FinalStatusOfFallback ==
  IF attempts # <<>> THEN attempts[Len(attempts)].status
                     ELSE "not_attempted"

FinalStatus ==
  IF attempts # <<>> THEN attempts[Len(attempts)].status
                     ELSE (CHOOSE o \in primary : TRUE).status

\* The outcomes that get an event of their own, besides the selection and
\* the summary; the primary call has none unless execution is requested.
Reported ==
  [i \in 0 .. Len(attempts) |->
     IF i = 0 THEN CHOOSE o \in primary : TRUE ELSE attempts[i]]

Events(statuses) ==
  Cardinality({i \in DOMAIN Reported :
                 /\ i > 0 \/ dispatch.execute
                 /\ Reported[i].status \in statuses})

\* The rest of _build_result, and the write of the output file.
WriteResult ==
  /\ pc = "record"
  /\ result' =
       {[dispatchStatus |-> IF selected # {} THEN "accepted" ELSE "rejected",
         finalStatus |-> FinalStatus,
         performed |-> \E o \in primary : o.performed,
         fallbackPerformed |-> \E i \in DOMAIN attempts :
                                 attempts[i].performed,
         recovered |-> /\ attempts # <<>>
                       /\ attempts[Len(attempts)].status = "succeeded",
         completedEvents |-> Events({"succeeded"}),
         failedEvents |-> Events({"failed", "skipped"})]}
  /\ pc' = "written"
  /\ UNCHANGED <<dispatch, selected, toTry, primary, attempts, carriedOut>>

Next ==
  \/ SelectWorker
  \/ \E o \in PrimaryOutcomes, n \in {0, 1} : ExecutePrimary(o, n)
  \/ \E i \in toTry : \E o \in Outcomes(ById(At(i).id)), n \in {0, 1} :
       TryFallback(i, o, n)
  \/ EndFallback
  \/ \E n \in {0, 1} : CallRaises(n)
  \/ WriteResult

Spec == Init /\ [][Next]_vars

\* The interpreter goes on, and every call of a worker ends: urlopen and
\* subprocess.run are given timeout_sec.
FairSpec == Spec /\ WF_vars(Next)

-----------------------------------------------------------------------------
\* The workers called, in the order of the calls; plan-only names no call.
Calls ==
  (IF dispatch.execute /\ primary # {} /\ selected # {}
     THEN <<(CHOOSE o \in primary : TRUE)>> ELSE <<>>) \o attempts

UniqueIds ==
  \A i, j \in Place : i # j => At(i).id # At(j).id

(* Over a whole dispatch no worker is called that is not eligible, none is *)
(* called twice, the request's max_attempts bounds the calls, and a worker *)
(* is passed over for another only if it is less healthy or has no larger  *)
(* capacity.                                                               *)
CallsByPreference ==
  UniqueIds =>
    /\ Len(Calls) <= dispatch.maxAttempts
    /\ \A k \in DOMAIN Calls :
         LET w == At(Calls[k].place)
         IN  /\ w.online /\ w.matches /\ w.health # "unhealthy"
             /\ \A m \in DOMAIN Calls : m # k => Calls[m].place # Calls[k].place
             /\ \A i \in Place :
                  (/\ At(i).online /\ At(i).matches
                   /\ At(i).health # "unhealthy"
                   /\ \A m \in DOMAIN Calls : Calls[m].place # i) =>
                    \/ At(i).health = "constrained" /\ w.health = "healthy"
                    \/ /\ At(i).health = w.health
                       /\ At(i).capacity <= w.capacity

(* Nothing is called after a success, and the result says "succeeded" if   *)
(* and only if a call succeeded, so that a recovery by a fallback is not   *)
(* lost behind the failure of the primary call, nor the other way round.   *)
SuccessEndsDispatch ==
  LET successes == {k \in DOMAIN Calls : Calls[k].status = "succeeded"}
  IN  /\ successes \subseteq {Len(Calls)}
      /\ successes # {} => pc \in {"record", "written"}
      /\ \A r \in result : r.finalStatus = "succeeded" <=> successes # {}

(* What the result tells of the calls is true of the workers: a success    *)
(* means that one has carried the task out, no call performed that none    *)
(* has, and each call has its event.                                       *)
ResultIsTruthful ==
  \A r \in result :
    /\ r.finalStatus = "succeeded" => carriedOut > 0
    /\ ~ r.performed /\ ~ r.fallbackPerformed => carriedOut = 0
    /\ dispatch.execute /\ selected # {} =>
         r.completedEvents + r.failedEvents = Len(Calls)
    /\ r.recovered <=> /\ r.finalStatus = "succeeded"
                       /\ \A o \in primary : o.status # "succeeded"

\* The errors after which the worker may have carried the task out.
Ambiguous == {"timeout", "http_error", "connection_error",
              "remote_command_failed"}

(* A request that lists none of the ambiguous errors in fallback_on and    *)
(* allows one fallback has its task carried out once at most.  (With two   *)
(* or more fallbacks it may be done again after an ambiguous failure of    *)
(* the first: fallback_on is compared with the primary error only.)        *)
NotCarriedOutTwice ==
  (/\ UniqueIds
   /\ dispatch.fallbackOn \cap Ambiguous = {}
   /\ dispatch.maxAttempts <= 2) => carriedOut <= 1

(* A dispatch ends, with a result or an exception: the fallback loop makes *)
(* no call twice and gives up.                                             *)
DispatchEnds == <>(pc \in {"written", "raised"})

(* "It can make one bounded starter attempt against an eligible fallback   *)
(* worker" (docs/remote_dispatch_starter.md): a worker that a fallback     *)
(* calls was evaluated as eligible.                                        *)
FallbackEligible ==
  \A k \in DOMAIN attempts : Eligible(At(attempts[k].place))

(* "Timeout, connection failure, HTTP error, and command failure are       *)
(* recorded in remote_execution_result instead of raising an unstructured  *)
(* crash" (docs/remote_dispatch_starter.md).                               *)
FailuresRecorded == pc # "raised"

=============================================================================
