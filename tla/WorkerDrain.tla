---------------------------- MODULE WorkerDrain ----------------------------
(* Worker withdrawal in the router: the registry, the drain fence, and the *)
(* requests routed through it                                              *)
(* (images/sglang-router/patches/worker-withdrawal.patch).                 *)
(*                                                                         *)
(* A worker is a heap object: two registrations of one URL are different   *)
(* workers (Arc::ptr_eq) that may share a WorkerId.  `register`,           *)
(* `begin_drain`, `finish_drain` and `admit_http_request` hold the         *)
(* maintenance lock; selection reads the indexes without it.  `register`   *)
(* takes two steps under the lock, so that a selection can fall between    *)
(* the removal of the old worker and the insertion of the new one.  Only   *)
(* regular HTTP workers are modelled: no other worker can be drained.      *)
EXTENDS Naturals, FiniteSets

CONSTANTS
  Request,                          \* requests that can be in flight
  Url,                              \* worker URLs
  Model,                            \* backend models
  Alias,                            \* public names of CI_ROUTER_MODEL_ROUTES
  Routes,                           \* the models behind each of them
  MaxWorkers,                       \* bound: workers ever registered
  MaxAttempts,                      \* attempts of the retry executor
  None

WorkerRec == [inst : Nat, id : Nat, url : Url, model : Model]

ASSUME DrainAssumption ==
  /\ IsFiniteSet(Request)
  /\ Alias \cap Model = {} /\ Routes \in [Alias -> SUBSET Model]
  /\ MaxWorkers \in Nat /\ MaxAttempts \in Nat
  /\ None \notin WorkerRec /\ None \notin Alias \cup Model

VARIABLES
  registry,                         \* url_to_id and workers: Url -> worker
  index,                            \* model_index: the selectable workers
  maintenance,                      \* the fence: Url -> the withdrawn worker
  request_counts,                   \* Url -> responses still open
  registering,                      \* the worker a register call is storing
  jobs,                             \* URLs with a queued registration
  tracked,                          \* Pods the discovery has seen
  created,                          \* workers created so far
  pc,                               \* where each request is
  name,                             \* the model it asked for
  selected_backend,                 \* the backend model it is pinned to
  worker,                           \* the worker it selected
  attempt,                          \* attempts it has used
  sent,                             \* history: models it was sent to
  empty                             \* history: drains reported as empty

registryVars == <<registry, index, registering, jobs, tracked, created>>
requestVars  == <<pc, name, selected_backend, worker, attempt, sent>>
vars == <<registryVars, requestVars, maintenance, request_counts, empty>>

(* "selecting" at the head of the loop; "selected" has a worker that is    *)
(* not admitted; "admitted" is sent and holds the guard; "answered" holds  *)
(* it in the response body.                                                *)
Phase == {"idle", "selecting", "selected", "admitted", "answered"}
Open(u) == {r \in Request : /\ pc[r] \in {"admitted", "answered"}
                            /\ worker[r].url = u}

TypeOK ==
  /\ registry \in [Url -> WorkerRec \cup {None}]
  /\ index \subseteq WorkerRec
  /\ maintenance \in [Url -> WorkerRec \cup {None}]
  /\ request_counts \in [Url -> Nat]
  /\ registering \in WorkerRec \cup {None}
  /\ jobs \subseteq Url /\ tracked \subseteq Url
  /\ created \in Nat
  /\ pc \in [Request -> Phase]
  /\ name \in [Request -> Alias \cup Model \cup {None}]
  /\ selected_backend \in [Request -> Model \cup {None}]
  /\ worker \in [Request -> WorkerRec \cup {None}]
  /\ attempt \in [Request -> Nat]
  /\ sent \in [Request -> SUBSET Model]
  /\ empty \subseteq Url

Init ==
  /\ registry = [u \in Url |-> None] /\ index = {}
  /\ maintenance = [u \in Url |-> None]
  /\ request_counts = [u \in Url |-> 0]
  /\ registering = None /\ jobs = {} /\ tracked = {} /\ created = 0
  /\ pc = [r \in Request |-> "idle"]
  /\ name = [r \in Request |-> None]
  /\ selected_backend = [r \in Request |-> None]
  /\ worker = [r \in Request |-> None]
  /\ attempt = [r \in Request |-> 0]
  /\ sent = [r \in Request |-> {}]
  /\ empty = {}

Unlocked == registering = None

-----------------------------------------------------------------------------
(* Service discovery and registration.                                     *)

should_reconcile_worker(u) ==
  maintenance[u] = None /\ (u \notin tracked \/ registry[u] = None)

(* A Pod event queues a registration; the job runs later.                  *)
PodEvent(u) ==
  /\ Unlocked
  /\ tracked' = tracked \cup {u}
  /\ jobs' = IF should_reconcile_worker(u) THEN jobs \cup {u} ELSE jobs
  /\ UNCHANGED <<registry, index, registering, created, requestVars,
                 maintenance, request_counts, empty>>

(* Mutant: the old worker stays selectable.                                *)
RegisterKeepsIndex(u, m) ==
  /\ Unlocked /\ u \in jobs /\ created < MaxWorkers
  /\ jobs' = jobs \ {u}
  /\ maintenance[u] = None
  /\ registering' = [inst |-> created,
                     id |-> IF registry[u] = None THEN created
                            ELSE registry[u].id,
                     url |-> u, model |-> m]
  /\ created' = created + 1
  /\ registry' = [registry EXCEPT ![u] = None]
  /\ UNCHANGED <<index, tracked, requestVars, maintenance, request_counts,
                 empty>>

(* register, up to the removal of a worker with the same URL.  A fenced    *)
(* URL keeps its withdrawn worker and the job is done.                     *)
Register(u, m) ==
  /\ Unlocked /\ u \in jobs /\ created < MaxWorkers
  /\ jobs' = jobs \ {u}
  /\ \/ /\ maintenance[u] # None
        /\ UNCHANGED <<registering, created, index, registry>>
     \/ /\ maintenance[u] = None
        /\ registering' = [inst |-> created,
                           id |-> IF registry[u] = None THEN created
                                  ELSE registry[u].id,
                           url |-> u, model |-> m]
        /\ created' = created + 1
        /\ index' = index \ {registry[u]}
        /\ registry' = [registry EXCEPT ![u] = None]
  /\ UNCHANGED <<tracked, requestVars, maintenance, request_counts, empty>>

(* The rest of register, still under the lock.                             *)
Registered ==
  /\ ~ Unlocked
  /\ registry' = [registry EXCEPT ![registering.url] = registering]
  /\ index' = index \cup {registering}
  /\ registering' = None
  /\ UNCHANGED <<jobs, tracked, created, requestVars, maintenance,
                 request_counts, empty>>

(* POST /workers, for a new worker or for one whose metadata changed.      *)
CreateWorker(u) ==
  /\ u \notin jobs
  /\ jobs' = jobs \cup {u}
  /\ UNCHANGED <<registry, index, registering, tracked, created, requestVars,
                 maintenance, request_counts, empty>>

(* DELETE /workers/{id}, or the Pod is gone: remove, without the lock.     *)
Remove(u) ==
  /\ registry[u] # None
  /\ registry' = [registry EXCEPT ![u] = None]
  /\ index' = index \ {registry[u]}
  /\ tracked' \in {tracked, tracked \ {u}}
  /\ UNCHANGED <<registering, jobs, created, requestVars, maintenance,
                 request_counts, empty>>

-----------------------------------------------------------------------------
(* POST, GET and DELETE /workers/{id}/drain.                               *)

(* The fenced URLs whose withdrawn worker has this id.                     *)
Fenced(id) == {u \in Url : maintenance[u] # None /\ maintenance[u].id = id}

BeginDrain(u) ==
  /\ Unlocked /\ registry[u] # None /\ Fenced(registry[u].id) = {}
  /\ maintenance' = [maintenance EXCEPT ![u] = registry[u]]
  /\ registry' = [registry EXCEPT ![u] = None]
  /\ index' = index \ {registry[u]}
  /\ empty' = IF request_counts[u] = 0 THEN empty \cup {u} ELSE empty
  /\ UNCHANGED <<registering, jobs, tracked, created, requestVars,
                 request_counts>>

(* drain_status, and begin_drain of a worker that is already draining.     *)
DrainStatus(u) ==
  /\ Unlocked /\ maintenance[u] # None
  /\ empty' = IF request_counts[u] = 0 THEN empty \cup {u} ELSE empty
  /\ UNCHANGED <<registryVars, requestVars, maintenance, request_counts>>

(* finish_drain; it answers 409 and changes nothing while a response is    *)
(* open.                                                                   *)
FinishDrain(u) ==
  /\ Unlocked /\ maintenance[u] # None /\ request_counts[u] = 0
  /\ maintenance' = [maintenance EXCEPT ![u] = None]
  /\ empty' = empty \ {u}
  /\ UNCHANGED <<registryVars, requestVars, request_counts>>

-----------------------------------------------------------------------------
(* Requests: route_typed_request and its attempts.                         *)

Routed(r) == name[r] \in Alias

(* resolve_model_route, once per request.                                  *)
Arrive(r, n) ==
  /\ pc[r] = "idle"
  /\ pc' = [pc EXCEPT ![r] = "selecting"]
  /\ name' = [name EXCEPT ![r] = n]
  /\ attempt' = [attempt EXCEPT ![r] = 1]
  /\ UNCHANGED <<selected_backend, sent, worker, registryVars, maintenance,
                 request_counts, empty>>

(* The request is over; its slot is free for another one.                  *)
End(r) ==
  /\ pc' = [pc EXCEPT ![r] = "idle"]
  /\ name' = [name EXCEPT ![r] = None]
  /\ selected_backend' = [selected_backend EXCEPT ![r] = None]
  /\ worker' = [worker EXCEPT ![r] = None]
  /\ attempt' = [attempt EXCEPT ![r] = 0]
  /\ sent' = [sent EXCEPT ![r] = {}]

Candidates(r) ==
  IF selected_backend[r] # None THEN {selected_backend[r]}
  ELSE IF Routed(r) THEN Routes[name[r]] ELSE {name[r]}

(* select_worker_for_model: any available worker of a candidate model.     *)
Select(r) ==
  /\ pc[r] = "selecting"
  /\ \E w \in index :
       /\ w.model \in Candidates(r)
       /\ worker' = [worker EXCEPT ![r] = w]
  /\ pc' = [pc EXCEPT ![r] = "selected"]
  /\ UNCHANGED <<name, selected_backend, attempt, sent, registryVars,
                 maintenance, request_counts, empty>>

(* No worker, or none available: 503, which the executor retries.          *)
Unavailable(r) ==
  /\ pc[r] = "selecting"
  /\ \/ /\ attempt[r] < MaxAttempts
        /\ attempt' = [attempt EXCEPT ![r] = @ + 1]
        /\ UNCHANGED <<pc, name, selected_backend, worker, sent>>
     \/ attempt[r] >= MaxAttempts /\ End(r)
  /\ UNCHANGED <<registryVars, maintenance, request_counts, empty>>

Admissible(w) == maintenance[w.url] = None /\ registry[w.url] = w

(* Mutant: an old selection is admitted.                                   *)
AdmitStale(r) ==
  /\ pc[r] = "selected" /\ Unlocked
  /\ pc' = [pc EXCEPT ![r] = "admitted"]
  /\ request_counts' = [request_counts EXCEPT ![worker[r].url] = @ + 1]
  /\ sent' = [sent EXCEPT ![r] = @ \cup {worker[r].model}]
  /\ selected_backend' = [selected_backend EXCEPT ![r] =
       IF Routed(r) /\ @ = None THEN worker[r].model ELSE @]
  /\ UNCHANGED <<name, worker, attempt, registryVars, maintenance, empty>>

(* admit_http_request under the lock, then the pin and the send.           *)
Admit(r) ==
  /\ pc[r] = "selected" /\ Unlocked
  /\ Admissible(worker[r])
  /\ pc' = [pc EXCEPT ![r] = "admitted"]
  /\ request_counts' = [request_counts EXCEPT ![worker[r].url] = @ + 1]
  /\ sent' = [sent EXCEPT ![r] = @ \cup {worker[r].model}]
  /\ selected_backend' = [selected_backend EXCEPT ![r] =
       IF Routed(r) /\ @ = None THEN worker[r].model ELSE @]
  /\ UNCHANGED <<name, worker, attempt, registryVars, maintenance, empty>>

(* The selection was made before the fence or a replacement: select again. *)
Refuse(r) ==
  /\ pc[r] = "selected" /\ Unlocked
  /\ ~ Admissible(worker[r])
  /\ pc' = [pc EXCEPT ![r] = "selecting"]
  /\ worker' = [worker EXCEPT ![r] = None]
  /\ UNCHANGED <<name, selected_backend, attempt, sent, registryVars,
                 maintenance, request_counts, empty>>

(* The worker answered; the guard moves into the response body.            *)
Answer(r) ==
  /\ pc[r] = "admitted"
  /\ pc' = [pc EXCEPT ![r] = "answered"]
  /\ UNCHANGED <<name, selected_backend, worker, attempt, sent, registryVars,
                 maintenance, request_counts, empty>>

DropGuard(r) ==
  request_counts' = [request_counts EXCEPT ![worker[r].url] = @ - 1]

(* A retryable answer, or no answer: the response and its guard are        *)
(* dropped and the executor tries again.                                   *)
Retry(r) ==
  /\ pc[r] = "admitted" /\ attempt[r] < MaxAttempts
  /\ attempt' = [attempt EXCEPT ![r] = @ + 1]
  /\ pc' = [pc EXCEPT ![r] = "selecting"]
  /\ DropGuard(r)
  /\ worker' = [worker EXCEPT ![r] = None]
  /\ UNCHANGED <<name, selected_backend, sent, registryVars, maintenance,
                 empty>>

(* Mutant: the guard is not dropped with the body.                         *)
ReleaseUncounted(r) ==
  /\ pc[r] \in {"admitted", "answered"}
  /\ End(r)
  /\ UNCHANGED <<registryVars, maintenance, request_counts, empty>>

(* The body is released: read to its end, or the client is gone.           *)
Release(r) ==
  /\ pc[r] \in {"admitted", "answered"}
  /\ DropGuard(r)
  /\ End(r)
  /\ UNCHANGED <<registryVars, maintenance, empty>>

(* The client is gone before a worker admitted the request.                *)
Abandon(r) ==
  /\ pc[r] \in {"selecting", "selected"}
  /\ End(r)
  /\ UNCHANGED <<registryVars, maintenance, request_counts, empty>>

(* One round of the selection loop.                                        *)
Round(r) == Select(r) \/ Unavailable(r) \/ Admit(r) \/ Refuse(r)

RegistryStep ==
  \/ Registered
  \/ \E u \in Url :
       \/ PodEvent(u) \/ CreateWorker(u) \/ Remove(u)
       \/ BeginDrain(u) \/ DrainStatus(u) \/ FinishDrain(u)
       \/ \E m \in Model : Register(u, m)

RequestStep(r) ==
  \/ \E n \in Alias \cup Model : Arrive(r, n)
  \/ Round(r) \/ Answer(r) \/ Retry(r) \/ Release(r) \/ Abandon(r)

Next == RegistryStep \/ \E r \in Request : RequestStep(r)

Spec == Init /\ [][Next]_vars

(* The router runs its tasks: the selection loop and a registration that   *)
(* has begun go on.  Clients, operators and workers are not fair.          *)
Fairness ==
  /\ WF_vars(Registered)
  /\ \A r \in Request : WF_vars(Round(r))
FairSpec == Spec /\ Fairness

-----------------------------------------------------------------------------
(* The drain count of a URL is the number of its responses still open,     *)
(* whichever registration of the URL admitted them and however they ended: *)
(* the guard of with_request_counter is dropped exactly once.              *)
OpenCounted == \A u \in Url : request_counts[u] = Cardinality(Open(u))

(* What an operator acts on: once drain_status has answered zero, nothing  *)
(* is open on the URL and nothing opens until the drain is finished.       *)
EmptyStays == \A u \in empty : maintenance[u] # None /\ Open(u) = {}

(* The fence is total: a draining URL is in no index, although             *)
(* registrations for it were queued before the drain or arrive during it.  *)
FenceHolds ==
  \A u \in Url : maintenance[u] # None =>
    registry[u] = None /\ \A w \in index : w.url # u

(* A selectable worker is the registered one of its URL, so a selection is *)
(* refused only when the registry changed after it: the comment in         *)
(* register fears a worker that stays selectable and fails admission       *)
(* forever.                                                                *)
SelectableCurrent == \A w \in index : registry[w.url] = w

(* A registered worker can be drained: its id names no withdrawn worker,   *)
(* else begin_drain would answer with the other worker's status.           *)
IdsDistinct ==
  \A u \in Url : registry[u] # None => Fenced(registry[u].id) = {}

(* All attempts of a request for a public model name go to one backend     *)
(* model: a retry never retargets an accepted request.                     *)
OneBackend ==
  \A r \in Request : Routed(r) => Cardinality(sent[r]) <= 1

(* While a URL drains its open responses only become fewer, and the fence  *)
(* is lifted only when none is left.                                       *)
DrainOnlyShrinks ==
  [][\A u \in Url : maintenance[u] # None =>
       IF maintenance'[u] = None THEN Open(u) = {}
       ELSE Open(u)' \subseteq Open(u)]_vars

(* The selection loop ends: a request is admitted or answered with 503,    *)
(* although a fence or a replacement may refuse its selections.            *)
SelectionEnds ==
  \A r \in Request : pc[r] = "selecting" ~> pc[r] \in {"idle", "admitted"}
=============================================================================
