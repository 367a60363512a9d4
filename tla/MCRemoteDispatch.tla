--------------------------- MODULE MCRemoteDispatch ---------------------------
(***************************************************************************)
(* Instances of RemoteDispatch for TLC.                                    *)
(***************************************************************************)
EXTENDS RemoteDispatch

\* Every way to be eligible, and each single reason not to be.
Conditions ==
  {[online |-> TRUE, health |-> "healthy", matches |-> TRUE],
   [online |-> TRUE, health |-> "constrained", matches |-> TRUE],
   [online |-> FALSE, health |-> "healthy", matches |-> TRUE],
   [online |-> TRUE, health |-> "unhealthy", matches |-> TRUE],
   [online |-> TRUE, health |-> "healthy", matches |-> FALSE]}

WorkerWith(id, c, capacity, transport, addressed) ==
  [id |-> id, online |-> c.online, health |-> c.health,
   matches |-> c.matches, capacity |-> capacity, transport |-> transport,
   addressed |-> addressed]

Workers(id, conditions, capacities, transports, addressings) ==
  {WorkerWith(id, c, n, t, a) :
     c \in conditions, n \in capacities, t \in transports, a \in addressings}

Requests(registries, executes, maxima, fallbacks) ==
  [registry : registries, execute : executes, maxAttempts : maxima,
   fallbackOn : fallbacks]

\* Any two workers; the one listed first has the larger id.
Pairs ==
  {<<v, w>> :
     v \in Workers(2, Conditions, {0, 1}, Transports, BOOLEAN),
     w \in Workers(1, Conditions, {0, 1}, {"http"}, {TRUE})}

\* Three workers that can be called, but for one that is offline.
Callable == {c \in Conditions : c.matches /\ c.health # "unhealthy"}

Triples ==
  {<<u, v, w>> :
     u \in Workers(3, Callable, {0, 1}, {"http"}, {TRUE}),
     v \in Workers(1, Callable, {0, 1}, {"ssh"}, BOOLEAN),
     w \in Workers(2, Callable, {1}, {"http", "file_contract"}, {TRUE})}

ManyDispatches ==
  Requests(Pairs, BOOLEAN, {1, 2}, {{}, Categories})
    \cup Requests(Triples, {TRUE}, {2, 3},
                  {{"missing_ssh_contract", "unsupported_starter_transport"},
                   {"timeout", "http_error"}})

\* The id of a candidate is given to a second worker, further down.
DoubledIds ==
  Requests({<<u, v, w>> :
              u \in Workers(1, Callable, {1}, {"http"}, {TRUE}),
              v \in Workers(2, Callable, {0}, {"http"}, {TRUE}),
              w \in Workers(2, Callable, {0}, {"ssh"}, {TRUE})},
           {TRUE}, {2, 3}, {Categories})
=============================================================================
