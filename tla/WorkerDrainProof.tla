-------------------------- MODULE WorkerDrainProof --------------------------
(* The withdrawal properties of WorkerDrain for any number of requests,    *)
(* URLs, models and registrations.                                         *)
EXTENDS WorkerDrain, FiniteSetTheorems, TLAPS

(* Who is where: a URL has one worker, in the registry, being registered   *)
(* or withdrawn, and selections come from the registry.                    *)
Located ==
  /\ \A u \in Url : registry[u] # None => registry[u].url = u
  /\ \A u \in Url : maintenance[u] # None => registry[u] = None
  /\ registering # None => registry[registering.url] = None
  /\ registering # None => maintenance[registering.url] = None
  /\ SelectableCurrent

(* No two workers of different URLs share an id; ids are never reused.     *)
IdsUnique ==
  /\ \A u \in Url : registry[u] # None => registry[u].id < created
  /\ \A u \in Url : maintenance[u] # None => maintenance[u].id < created
  /\ registering # None => registering.id < created
  /\ \A u, v \in Url : registry[u] # None /\ registry[v] # None /\ u # v
       => registry[u].id # registry[v].id
  /\ \A u, v \in Url : registry[u] # None /\ maintenance[v] # None
       => registry[u].id # maintenance[v].id
  /\ \A u \in Url : registering # None /\ registry[u] # None
       => registry[u].id # registering.id
  /\ \A u \in Url : registering # None /\ maintenance[u] # None
       => maintenance[u].id # registering.id

Holding == {"selected", "admitted", "answered"}

Guarded ==
  /\ \A r \in Request : pc[r] \in Holding => worker[r] # None
  /\ OpenCounted

Pinned ==
  \A r \in Request :
    /\ pc[r] = "idle" => selected_backend[r] = None /\ sent[r] = {}
    /\ Routed(r) =>
         /\ selected_backend[r] = None => sent[r] = {}
         /\ selected_backend[r] # None => sent[r] \subseteq {selected_backend[r]}
         /\ pc[r] = "selected" /\ selected_backend[r] # None
              => worker[r].model = selected_backend[r]

Quiet == \A u \in empty : maintenance[u] # None /\ request_counts[u] = 0

IInv == TypeOK /\ Located /\ IdsUnique /\ Guarded /\ Pinned /\ Quiet

-----------------------------------------------------------------------------
LEMMA OpenFinite ==
  ASSUME NEW u \in Url
  PROVE  IsFiniteSet(Open(u)) /\ Cardinality(Open(u)) \in Nat
<1>1. Open(u) \subseteq Request
  BY DEF Open
<1>2. IsFiniteSet(Open(u))
  BY <1>1, DrainAssumption, FS_Subset
<1> QED
  BY <1>2, FS_CardinalityType

(* A request that holds a guard is counted by the URL of its worker.       *)
LEMMA GuardCounted ==
  ASSUME IInv, NEW r \in Request, pc[r] \in {"admitted", "answered"}
  PROVE  /\ worker[r] \in WorkerRec
         /\ r \in Open(worker[r].url)
         /\ request_counts[worker[r].url] >= 1
<1>1. worker[r] \in WorkerRec
  BY DEF IInv, TypeOK, Guarded, Holding
<1>2. worker[r].url \in Url /\ r \in Open(worker[r].url)
  BY <1>1 DEF WorkerRec, Open
<1>3. Cardinality(Open(worker[r].url)) # 0
  BY <1>2, OpenFinite, FS_EmptySet
<1> QED
  BY <1>1, <1>2, <1>3, OpenFinite DEF IInv, Guarded, OpenCounted

LEMMA InitIInv == Init => IInv
<1> SUFFICES ASSUME Init PROVE IInv
  OBVIOUS
<1>1. TypeOK
  BY DrainAssumption DEF Init, TypeOK, Phase
<1>2. Located /\ IdsUnique /\ Pinned /\ Quiet
  BY DEF Init, Located, SelectableCurrent, IdsUnique, Pinned, Quiet
<1>3. \A u \in Url : Open(u) = {}
  BY DEF Init, Open
<1>4. Guarded
  BY Zenon, <1>3, FS_EmptySet DEF Init, Guarded, OpenCounted, Holding
<1> QED
  BY <1>1, <1>2, <1>4 DEF IInv

-----------------------------------------------------------------------------
(* Registry steps leave the requests and their counts alone.               *)
LEMMA RequestsAlone ==
  ASSUME IInv, UNCHANGED <<requestVars, request_counts>>
  PROVE  Guarded' /\ Pinned' /\ \A u \in Url : Open(u)' = Open(u)
<1>1. \A u \in Url : Open(u)' = Open(u)
  BY DEF requestVars, Open
<1> QED
  BY <1>1 DEF IInv, requestVars, Guarded, OpenCounted, Pinned, Routed

LEMMA PodEventIInv ==
  ASSUME IInv, NEW u \in Url, PodEvent(u) PROVE IInv'
<1> USE DEF PodEvent, requestVars
<1>1. TypeOK'
  BY DEF IInv, TypeOK
<1>2. Located' /\ IdsUnique' /\ Quiet'
  BY DEF IInv, Located, SelectableCurrent, IdsUnique, Quiet
<1> QED
  BY <1>1, <1>2, RequestsAlone DEF IInv

LEMMA CreateWorkerIInv ==
  ASSUME IInv, NEW u \in Url, CreateWorker(u) PROVE IInv'
<1> USE DEF CreateWorker, requestVars
<1>1. TypeOK'
  BY DEF IInv, TypeOK
<1>2. Located' /\ IdsUnique' /\ Quiet'
  BY DEF IInv, Located, SelectableCurrent, IdsUnique, Quiet
<1> QED
  BY <1>1, <1>2, RequestsAlone DEF IInv

LEMMA RemoveIInv ==
  ASSUME IInv, NEW u \in Url, Remove(u) PROVE IInv'
<1> USE DEF Remove, requestVars
<1>1. TypeOK'
  BY DEF IInv, TypeOK
<1>2. Located'
  BY DEF IInv, TypeOK, Located, SelectableCurrent, WorkerRec
<1>3. IdsUnique' /\ Quiet'
  BY DEF IInv, TypeOK, IdsUnique, Quiet
<1> QED
  BY <1>1, <1>2, <1>3, RequestsAlone DEF IInv

LEMMA RegisterIInv ==
  ASSUME IInv, NEW u \in Url, NEW m \in Model, Register(u, m) PROVE IInv'
<1> USE DEF requestVars
<1>0. UNCHANGED <<requestVars, maintenance, request_counts, tracked, empty>>
  BY DEF Register
<1>1. CASE maintenance[u] # None
  <2>1. UNCHANGED <<registering, created, index, registry>> /\ jobs' = jobs \ {u}
    BY <1>1 DEF Register
  <2>2. TypeOK'
    BY <1>0, <2>1 DEF IInv, TypeOK
  <2>3. Located' /\ IdsUnique' /\ Quiet'
    BY <1>0, <2>1 DEF IInv, Located, SelectableCurrent, IdsUnique, Quiet
  <2> QED
    BY <1>0, <2>2, <2>3, RequestsAlone DEF IInv
<1>2. CASE maintenance[u] = None
  <2> DEFINE i == IF registry[u] = None THEN created ELSE registry[u].id
  <2>1. /\ registering = None
        /\ registering' = [inst |-> created, id |-> i, url |-> u, model |-> m]
        /\ created' = created + 1
        /\ index' = index \ {registry[u]}
        /\ registry' = [registry EXCEPT ![u] = None]
        /\ jobs' = jobs \ {u}
    BY <1>2 DEF Register, Unlocked
  <2>2. created \in Nat /\ i \in Nat /\ i < created + 1
    BY DEF IInv, TypeOK, IdsUnique, WorkerRec
  <2>3. registering' \in WorkerRec /\ registering' # None
    BY <2>1, <2>2, DrainAssumption DEF WorkerRec
  <2>4. TypeOK'
    BY <1>0, <2>1, <2>2, <2>3 DEF IInv, TypeOK
  <2>5. registering'.url = u /\ registering'.id = i
    BY <2>1
  <2>6. Located'
    BY <1>0, <1>2, <2>1, <2>3, <2>5 DEF IInv, TypeOK, Located,
       SelectableCurrent, WorkerRec
  <2>7. \A v \in Url : registry'[v] # None =>
          v # u /\ registry'[v] = registry[v] /\ registry[v].id # i
    BY <2>1, <2>2 DEF IInv, TypeOK, IdsUnique, WorkerRec
  <2>8. \A v \in Url : maintenance[v] # None => maintenance[v].id # i
    BY <2>2 DEF IInv, TypeOK, IdsUnique, WorkerRec
  <2>9. \A v \in Url : (registry[v] # None => registry[v].id \in Nat)
                    /\ (maintenance[v] # None => maintenance[v].id \in Nat)
    BY DEF IInv, TypeOK, WorkerRec
  <2>10. IdsUnique'
    BY <1>0, <2>1, <2>2, <2>3, <2>5, <2>7, <2>8, <2>9 DEF IInv, IdsUnique
  <2>11. Quiet'
    BY <1>0 DEF IInv, Quiet
  <2> QED
    BY <1>0, <2>4, <2>6, <2>10, <2>11, RequestsAlone DEF IInv
<1> QED
  BY <1>1, <1>2

LEMMA RegisteredIInv ==
  ASSUME IInv, Registered PROVE IInv'
<1> USE DEF Registered, requestVars
<1>1. registering \in WorkerRec /\ registering # None /\ registering.url \in Url
  BY DEF IInv, TypeOK, Unlocked, WorkerRec
<1>2. TypeOK'
  BY <1>1 DEF IInv, TypeOK
<1>4. \A v \in Url : registry'[v] =
        IF v = registering.url THEN registering ELSE registry[v]
  BY <1>1 DEF IInv, TypeOK
<1>7. \A w \in index : w.url \in Url /\ w # None /\ registry[w.url] = w
  BY DrainAssumption DEF IInv, TypeOK, Located, SelectableCurrent, WorkerRec
<1>8. SelectableCurrent'
  BY Zenon, <1>1, <1>4, <1>7 DEF IInv, Located, SelectableCurrent
<1>3. Located'
  BY <1>1, <1>4, <1>8 DEF IInv, Located
<1>5. IdsUnique'
  BY <1>1, <1>4 DEF IInv, IdsUnique
<1>6. Quiet'
  BY DEF IInv, Quiet
<1> QED
  BY <1>2, <1>3, <1>5, <1>6, RequestsAlone DEF IInv

LEMMA BeginDrainIInv ==
  ASSUME IInv, NEW u \in Url, BeginDrain(u) PROVE IInv'
<1> USE DEF BeginDrain, requestVars
<1>1. registry[u] \in WorkerRec /\ registry[u] # None /\ registering = None
  BY DEF IInv, TypeOK, Unlocked
<1>2. TypeOK'
  BY <1>1 DEF IInv, TypeOK
<1>3. Located'
  BY <1>1 DEF IInv, TypeOK, Located, SelectableCurrent, WorkerRec
<1>4. \A v \in Url : /\ registry'[v] = IF v = u THEN None ELSE registry[v]
                     /\ maintenance'[v] = IF v = u THEN registry[u]
                                          ELSE maintenance[v]
  BY DEF IInv, TypeOK
<1>5. IdsUnique'
  BY <1>1, <1>4 DEF IInv, IdsUnique
<1>6. Quiet'
  BY <1>1, <1>4 DEF IInv, TypeOK, Quiet
<1> QED
  BY <1>2, <1>3, <1>5, <1>6, RequestsAlone DEF IInv

LEMMA DrainStatusIInv ==
  ASSUME IInv, NEW u \in Url, DrainStatus(u) PROVE IInv'
<1> USE DEF DrainStatus, registryVars, requestVars
<1>1. TypeOK'
  BY DEF IInv, TypeOK
<1>2. Located' /\ IdsUnique'
  BY Zenon DEF IInv, Located, SelectableCurrent, IdsUnique
<1>3. Quiet'
  BY DEF IInv, Quiet
<1> QED
  BY Zenon, <1>1, <1>2, <1>3, RequestsAlone DEF IInv

LEMMA FinishDrainIInv ==
  ASSUME IInv, NEW u \in Url, FinishDrain(u) PROVE IInv'
<1> USE DEF FinishDrain, registryVars, requestVars
<1>1. TypeOK'
  BY DEF IInv, TypeOK
<1>2. \A v \in Url : maintenance'[v] = IF v = u THEN None ELSE maintenance[v]
  BY DEF IInv, TypeOK
<1>3. registering # None => registering.url \in Url
  BY DEF IInv, TypeOK, WorkerRec
<1>4. Located' /\ IdsUnique'
  BY <1>2, <1>3 DEF IInv, Located, SelectableCurrent, IdsUnique
<1>5. Quiet'
  BY <1>2 DEF IInv, TypeOK, Quiet
<1> QED
  BY Zenon, <1>1, <1>4, <1>5, RequestsAlone DEF IInv

-----------------------------------------------------------------------------
(* Request steps leave the registry and the fence alone.                   *)
LEMMA RegistryAlone ==
  ASSUME IInv, UNCHANGED <<registryVars, maintenance>>
  PROVE  Located' /\ IdsUnique'
BY Zenon DEF IInv, registryVars, Located, SelectableCurrent, IdsUnique

(* Steps that neither take nor drop a guard.                               *)
LEMMA SameOpen ==
  ASSUME IInv, NEW r \in Request, UNCHANGED request_counts,
         pc[r] \notin {"admitted", "answered"},
         pc'[r] \notin {"admitted", "answered"},
         \A q \in Request \ {r} : pc'[q] = pc[q] /\ worker'[q] = worker[q]
  PROVE  OpenCounted' /\ \A u \in Url : Open(u)' = Open(u)
<1>1. \A u \in Url : Open(u)' = Open(u)
  BY DEF Open
<1> QED
  BY <1>1 DEF IInv, Guarded, OpenCounted

LEMMA EndFacts ==
  ASSUME IInv, NEW r \in Request, End(r)
  PROVE  /\ pc' \in [Request -> Phase] /\ pc'[r] = "idle"
         /\ name' \in [Request -> Alias \cup Model \cup {None}]
         /\ selected_backend' \in [Request -> Model \cup {None}]
         /\ worker' \in [Request -> WorkerRec \cup {None}]
         /\ attempt' \in [Request -> Nat]
         /\ sent' \in [Request -> SUBSET Model]
         /\ \A q \in Request \ {r} : pc'[q] = pc[q] /\ worker'[q] = worker[q]
         /\ \A q \in Request : pc'[q] \in Holding => worker'[q] # None
         /\ Pinned'
<1> USE DEF End
<1>1. /\ pc' \in [Request -> Phase] /\ pc'[r] = "idle"
      /\ \A q \in Request \ {r} : pc'[q] = pc[q]
  BY DEF IInv, TypeOK, Phase
<1>2. /\ name' \in [Request -> Alias \cup Model \cup {None}] /\ name'[r] = None
      /\ \A q \in Request \ {r} : name'[q] = name[q]
  BY DEF IInv, TypeOK
<1>3. /\ selected_backend' \in [Request -> Model \cup {None}]
      /\ selected_backend'[r] = None
      /\ \A q \in Request \ {r} : selected_backend'[q] = selected_backend[q]
  BY DEF IInv, TypeOK
<1>4. /\ worker' \in [Request -> WorkerRec \cup {None}]
      /\ \A q \in Request \ {r} : worker'[q] = worker[q]
  BY DEF IInv, TypeOK
<1>5. /\ attempt' \in [Request -> Nat]
      /\ sent' \in [Request -> SUBSET Model] /\ sent'[r] = {}
      /\ \A q \in Request \ {r} : sent'[q] = sent[q]
  BY DEF IInv, TypeOK
<1>6. \A q \in Request : pc'[q] \in Holding => worker'[q] # None
  BY <1>1, <1>4 DEF IInv, Guarded, Holding
<1>7. ~ Routed(r)'
  BY <1>2, DrainAssumption DEF Routed
<1>8. Pinned'
  BY ZenonT(30), <1>1, <1>2, <1>3, <1>4, <1>5, <1>7 DEF IInv, Pinned, Routed
<1> HIDE DEF End
<1> QED
  BY Zenon, <1>1, <1>2, <1>3, <1>4, <1>5, <1>6, <1>8

(* The steps that change no count: what is open stays as it is.            *)
LEMMA ArriveIInv ==
  ASSUME IInv, NEW r \in Request, NEW n \in Alias \cup Model, Arrive(r, n)
  PROVE  IInv' /\ \A u \in Url : Open(u)' = Open(u)
<1> USE DEF Arrive, registryVars
<1>1. TypeOK'
  BY DEF IInv, TypeOK, Phase
<1>2. OpenCounted' /\ \A u \in Url : Open(u)' = Open(u)
  BY Zenon, SameOpen DEF IInv, TypeOK
<1>3. Guarded'
  BY <1>2 DEF IInv, TypeOK, Guarded, Holding
<1>4. Pinned'
  BY DEF IInv, TypeOK, Pinned, Routed
<1>5. Quiet'
  BY DEF IInv, Quiet
<1> QED
  BY <1>1, <1>2, <1>3, <1>4, <1>5, RegistryAlone DEF IInv

LEMMA SelectIInv ==
  ASSUME IInv, NEW r \in Request, Select(r)
  PROVE  IInv' /\ \A u \in Url : Open(u)' = Open(u)
<1> USE DEF registryVars
<1>0. PICK w \in index : /\ w.model \in Candidates(r)
                         /\ worker' = [worker EXCEPT ![r] = w]
  BY Zenon DEF Select
<1>1. /\ pc[r] = "selecting" /\ pc' = [pc EXCEPT ![r] = "selected"]
      /\ UNCHANGED <<name, selected_backend, attempt, sent, registryVars,
                     maintenance, request_counts, empty>>
  BY DEF Select
<1>2. w \in WorkerRec /\ w # None
  BY DrainAssumption DEF IInv, TypeOK
<1>3. TypeOK'
  BY <1>0, <1>1, <1>2 DEF IInv, TypeOK, Phase
<1>4. OpenCounted' /\ \A u \in Url : Open(u)' = Open(u)
  BY Zenon, <1>0, <1>1, SameOpen DEF IInv, TypeOK
<1>5. Guarded'
  BY <1>0, <1>1, <1>2, <1>4 DEF IInv, TypeOK, Guarded, Holding
<1>6. Pinned'
  BY Zenon, <1>0, <1>1 DEF IInv, TypeOK, Pinned, Routed, Candidates
<1>7. Quiet'
  BY <1>1 DEF IInv, Quiet
<1> QED
  BY <1>1, <1>3, <1>4, <1>5, <1>6, <1>7, RegistryAlone DEF IInv

LEMMA RefuseIInv ==
  ASSUME IInv, NEW r \in Request, Refuse(r)
  PROVE  IInv' /\ \A u \in Url : Open(u)' = Open(u)
<1> USE DEF Refuse, registryVars
<1>1. TypeOK'
  BY Zenon DEF IInv, TypeOK, Phase
<1>2. OpenCounted' /\ \A u \in Url : Open(u)' = Open(u)
  BY Zenon, SameOpen DEF IInv, TypeOK
<1>3. Guarded'
  BY <1>2 DEF IInv, TypeOK, Guarded, Holding
<1>4. Pinned'
  BY Zenon DEF IInv, TypeOK, Pinned, Routed
<1>5. Quiet'
  BY DEF IInv, Quiet
<1> QED
  BY <1>1, <1>2, <1>3, <1>4, <1>5, RegistryAlone DEF IInv

LEMMA UnavailableIInv ==
  ASSUME IInv, NEW r \in Request, Unavailable(r)
  PROVE  IInv' /\ \A u \in Url : Open(u)' = Open(u)
<1>0. /\ pc[r] = "selecting"
      /\ UNCHANGED <<registryVars, maintenance, request_counts, empty>>
  BY DEF Unavailable
<1>1. CASE attempt[r] < MaxAttempts
  <2>1. /\ attempt' = [attempt EXCEPT ![r] = @ + 1]
        /\ UNCHANGED <<pc, name, selected_backend, worker, sent>>
    BY <1>1, DrainAssumption DEF Unavailable, IInv, TypeOK
  <2>2. TypeOK'
    BY SMTT(30), <1>0, <2>1 DEF IInv, TypeOK, registryVars
  <2>3. OpenCounted' /\ \A u \in Url : Open(u)' = Open(u)
    BY Zenon, <1>0, <2>1, SameOpen
  <2>4. Guarded' /\ Pinned' /\ Quiet'
    BY Zenon, <1>0, <2>1, <2>3 DEF IInv, Guarded, Pinned, Routed, Quiet
  <2> QED
    BY <1>0, <2>2, <2>3, <2>4, RegistryAlone DEF IInv
<1>2. CASE ~ (attempt[r] < MaxAttempts)
  <2>1. End(r)
    BY <1>2 DEF Unavailable
  <2>2. OpenCounted' /\ \A u \in Url : Open(u)' = Open(u)
    BY <1>0, <2>1, EndFacts, SameOpen
  <2>3. TypeOK'
    BY Zenon, <1>0, <2>1, EndFacts DEF IInv, TypeOK, registryVars
  <2>4. Guarded' /\ Pinned' /\ Quiet'
    BY Zenon, <1>0, <2>1, <2>2, EndFacts DEF IInv, Guarded, Quiet
  <2> QED
    BY <1>0, <2>2, <2>3, <2>4, RegistryAlone DEF IInv
<1> QED
  BY <1>1, <1>2

LEMMA AbandonIInv ==
  ASSUME IInv, NEW r \in Request, Abandon(r)
  PROVE  IInv' /\ \A u \in Url : Open(u)' = Open(u)
<1>0. /\ pc[r] \in {"selecting", "selected"} /\ End(r)
      /\ UNCHANGED <<registryVars, maintenance, request_counts, empty>>
  BY DEF Abandon
<1>1. OpenCounted' /\ \A u \in Url : Open(u)' = Open(u)
  BY Zenon, <1>0, EndFacts, SameOpen
<1>2. TypeOK'
  BY Zenon, <1>0, EndFacts DEF IInv, TypeOK, registryVars
<1>3. Guarded' /\ Pinned' /\ Quiet'
  BY Zenon, <1>0, <1>1, EndFacts DEF IInv, Guarded, Quiet
<1> QED
  BY <1>0, <1>1, <1>2, <1>3, RegistryAlone DEF IInv

LEMMA AnswerIInv ==
  ASSUME IInv, NEW r \in Request, Answer(r)
  PROVE  IInv' /\ \A u \in Url : Open(u)' = Open(u)
<1> USE DEF Answer, registryVars
<1>1. TypeOK'
  BY Zenon DEF IInv, TypeOK, Phase
<1>2. \A u \in Url : Open(u)' = Open(u)
  BY Zenon DEF IInv, TypeOK, Open
<1>3. Guarded'
  BY Zenon, <1>2 DEF IInv, TypeOK, Guarded, OpenCounted, Holding
<1>4. Pinned'
  BY Zenon DEF IInv, TypeOK, Pinned, Routed
<1>5. Quiet'
  BY Zenon DEF IInv, Quiet
<1> QED
  BY <1>1, <1>2, <1>3, <1>4, <1>5, RegistryAlone DEF IInv

-----------------------------------------------------------------------------
(* Taking a guard: only on a URL that is not fenced.                       *)
LEMMA AdmitIInv ==
  ASSUME IInv, NEW r \in Request, Admit(r)
  PROVE  /\ IInv'
         /\ \A u \in Url : maintenance[u] # None => Open(u)' = Open(u)
<1> USE DEF registryVars
<1>1. /\ pc[r] = "selected" /\ Admissible(worker[r])
      /\ pc' = [pc EXCEPT ![r] = "admitted"]
      /\ request_counts' = [request_counts EXCEPT ![worker[r].url] = @ + 1]
      /\ sent' = [sent EXCEPT ![r] = @ \cup {worker[r].model}]
      /\ selected_backend' = [selected_backend EXCEPT ![r] =
           IF Routed(r) /\ @ = None THEN worker[r].model ELSE @]
      /\ UNCHANGED <<name, worker, attempt, registryVars, maintenance, empty>>
  BY Zenon DEF Admit
<1>2. PICK w, v : w = worker[r] /\ v = worker[r].url
  BY Zenon
<1>3. w \in WorkerRec /\ w.model \in Model /\ v \in Url
  BY Zenon, <1>1, <1>2 DEF IInv, TypeOK, Guarded, Holding, WorkerRec
<1>4. maintenance[v] = None
  BY Zenon, <1>1, <1>2 DEF Admissible
<1>5. TypeOK'
  <2>1. pc' \in [Request -> Phase]
    BY Zenon, <1>1 DEF IInv, TypeOK, Phase
  <2>2. request_counts' \in [Url -> Nat]
    BY <1>1, <1>2, <1>3 DEF IInv, TypeOK
  <2>3. sent' \in [Request -> SUBSET Model]
    BY <1>1, <1>2, <1>3 DEF IInv, TypeOK
  <2>4. selected_backend' \in [Request -> Model \cup {None}]
    BY Zenon, <1>1, <1>2, <1>3 DEF IInv, TypeOK
  <2> QED
    BY Zenon, <1>1, <2>1, <2>2, <2>3, <2>4 DEF IInv, TypeOK
<1>6. \A u \in Url : Open(u)' = IF u = v THEN Open(u) \cup {r} ELSE Open(u)
  BY Zenon, <1>1, <1>2 DEF IInv, TypeOK, Open
<1>7. r \notin Open(v)
  BY Zenon, <1>1 DEF Open
<1>8. Cardinality(Open(v) \cup {r}) = Cardinality(Open(v)) + 1
  BY ZenonT(30), <1>3, <1>7, OpenFinite, FS_AddElement
<1>9. \A u \in Url : request_counts'[u] =
         IF u = v THEN request_counts[u] + 1 ELSE request_counts[u]
  BY Zenon, <1>1, <1>2 DEF IInv, TypeOK
<1>10. OpenCounted'
  BY Zenon, <1>3, <1>6, <1>8, <1>9 DEF IInv, Guarded, OpenCounted
<1>11. Guarded'
  BY Zenon, <1>1, <1>10 DEF IInv, TypeOK, Guarded, Holding
<1>12. Pinned'
  <2>1. \A q \in Request \ {r} : /\ pc'[q] = pc[q] /\ sent'[q] = sent[q]
                                 /\ selected_backend'[q] = selected_backend[q]
    BY Zenon, <1>1 DEF IInv, TypeOK
  <2>2. pc'[r] = "admitted" /\ sent'[r] = sent[r] \cup {w.model}
    BY Zenon, <1>1, <1>2 DEF IInv, TypeOK
  <2>3. selected_backend'[r] = IF Routed(r) /\ selected_backend[r] = None
                               THEN w.model ELSE selected_backend[r]
    BY Zenon, <1>1, <1>2 DEF IInv, TypeOK
  <2>4. w.model # None
    BY SMTT(30), <1>3, DrainAssumption
  <2>5. ASSUME Routed(r)
        PROVE  /\ selected_backend'[r] # None
               /\ sent'[r] \subseteq {selected_backend'[r]}
    BY Zenon, <1>1, <1>2, <2>2, <2>3, <2>4, <2>5 DEF IInv, Pinned
  <2>6. \A q \in Request : Routed(q)' <=> Routed(q)
    BY Zenon, <1>1 DEF Routed
  <2> QED
    BY SMTT(30), <1>1, <2>1, <2>2, <2>5, <2>6 DEF IInv, Pinned
<1>13. Quiet'
  BY Zenon, <1>1, <1>4, <1>9 DEF IInv, TypeOK, Quiet
<1>14. \A u \in Url : maintenance[u] # None => Open(u)' = Open(u)
  BY SMTT(30), <1>4, <1>6
<1> QED
  BY Zenon, <1>1, <1>5, <1>11, <1>12, <1>13, <1>14, RegistryAlone DEF IInv

(* Dropping a guard.                                                       *)
LEMMA GuardDropped ==
  ASSUME IInv, NEW r \in Request, pc[r] \in {"admitted", "answered"},
         DropGuard(r), UNCHANGED <<maintenance, empty>>,
         pc'[r] \notin {"admitted", "answered"},
         \A q \in Request \ {r} : pc'[q] = pc[q] /\ worker'[q] = worker[q]
  PROVE  /\ request_counts' \in [Url -> Nat]
         /\ OpenCounted' /\ Quiet'
         /\ \A u \in Url : Open(u)' \subseteq Open(u)
<1>1. PICK v : v = worker[r].url
  BY Zenon
<1>2. v \in Url /\ r \in Open(v) /\ request_counts[v] >= 1
  BY Zenon, <1>1, GuardCounted DEF WorkerRec
<1>3. \A u \in Url : Open(u)' = IF u = v THEN Open(u) \ {r} ELSE Open(u)
  BY Zenon, <1>1 DEF Open
<1>4. \A u \in Url : request_counts'[u] =
         IF u = v THEN request_counts[u] - 1 ELSE request_counts[u]
  BY Zenon, <1>1 DEF IInv, TypeOK, DropGuard
<1>5. request_counts' \in [Url -> Nat]
  BY SMTT(30), <1>1, <1>2 DEF IInv, TypeOK, DropGuard
<1>6. Cardinality(Open(v) \ {r}) = Cardinality(Open(v)) - 1
  BY Zenon, <1>2, OpenFinite, FS_RemoveElement
<1>7. OpenCounted'
  BY Zenon, <1>2, <1>3, <1>4, <1>6 DEF IInv, Guarded, OpenCounted
<1>8. Quiet'
  BY <1>2, <1>4 DEF IInv, TypeOK, Quiet
<1> QED
  BY Zenon, <1>3, <1>5, <1>7, <1>8

LEMMA RetryIInv ==
  ASSUME IInv, NEW r \in Request, Retry(r)
  PROVE  IInv' /\ \A u \in Url : Open(u)' \subseteq Open(u)
<1> USE DEF Retry, registryVars
<1>1. /\ request_counts' \in [Url -> Nat] /\ OpenCounted' /\ Quiet'
      /\ \A u \in Url : Open(u)' \subseteq Open(u)
  BY Zenon, GuardDropped DEF IInv, TypeOK
<1>2. TypeOK'
  BY <1>1 DEF IInv, TypeOK, Phase
<1>3. Guarded'
  BY Zenon, <1>1 DEF IInv, TypeOK, Guarded, Holding
<1>4. Pinned'
  BY Zenon DEF IInv, TypeOK, Pinned, Routed
<1> QED
  BY Zenon, <1>1, <1>2, <1>3, <1>4, RegistryAlone DEF IInv

LEMMA ReleaseIInv ==
  ASSUME IInv, NEW r \in Request, Release(r)
  PROVE  IInv' /\ \A u \in Url : Open(u)' \subseteq Open(u)
<1>0. /\ pc[r] \in {"admitted", "answered"} /\ DropGuard(r) /\ End(r)
      /\ UNCHANGED <<registryVars, maintenance, empty>>
  BY DEF Release
<1>1. /\ request_counts' \in [Url -> Nat] /\ OpenCounted' /\ Quiet'
      /\ \A u \in Url : Open(u)' \subseteq Open(u)
  BY Zenon, <1>0, EndFacts, GuardDropped
<1>2. TypeOK'
  BY Zenon, <1>0, <1>1, EndFacts DEF IInv, TypeOK, registryVars
<1>3. Guarded' /\ Pinned'
  BY Zenon, <1>0, <1>1, EndFacts DEF Guarded
<1> QED
  BY Zenon, <1>0, <1>1, <1>2, <1>3, RegistryAlone DEF IInv

-----------------------------------------------------------------------------
(* What a step may do to a draining URL.                                   *)
Shrinks ==
  \A u \in Url : maintenance[u] # None =>
    IF maintenance'[u] = None THEN Open(u) = {} ELSE Open(u)' \subseteq Open(u)

LEMMA RegistryStepFacts == IInv /\ RegistryStep => IInv' /\ Shrinks
<1> SUFFICES ASSUME IInv, RegistryStep PROVE IInv' /\ Shrinks
  OBVIOUS
<1>1. IInv'
  BY SMTT(30), PodEventIInv, CreateWorkerIInv, RemoveIInv, RegisterIInv, RegisteredIInv,
     BeginDrainIInv, DrainStatusIInv, FinishDrainIInv DEF RegistryStep
<1>2. UNCHANGED <<requestVars, request_counts>>
  BY Zenon DEF RegistryStep, PodEvent, CreateWorker, Remove, Register, Registered,
     BeginDrain, DrainStatus, FinishDrain
<1>3. \A u \in Url : Open(u)' = Open(u)
  BY SMTT(30), <1>2, RequestsAlone
<1>4. \A u \in Url : maintenance[u] # None /\ maintenance'[u] = None
         => request_counts[u] = 0
  BY ZenonT(30) DEF RegistryStep, PodEvent, CreateWorker, Remove, Register, Registered,
     BeginDrain, DrainStatus, FinishDrain, IInv, TypeOK
<1>5. \A u \in Url : request_counts[u] = 0 => Open(u) = {}
  BY Zenon, OpenFinite, FS_EmptySet DEF IInv, Guarded, OpenCounted
<1> QED
  BY <1>1, <1>3, <1>4, <1>5 DEF Shrinks

LEMMA RequestStepFacts ==
  ASSUME IInv, NEW r \in Request, RequestStep(r) PROVE IInv' /\ Shrinks
<1>1. maintenance' = maintenance
  BY Zenon DEF RequestStep, Round, Arrive, Select, Unavailable, Admit, Refuse, Answer,
     Retry, Release, Abandon
<1>2. /\ IInv'
      /\ \A u \in Url : maintenance[u] # None => Open(u)' \subseteq Open(u)
  BY Zenon, ArriveIInv, SelectIInv, UnavailableIInv, AdmitIInv, RefuseIInv, AnswerIInv,
     RetryIInv, ReleaseIInv, AbandonIInv DEF RequestStep, Round
<1> QED
  BY Zenon, <1>1, <1>2 DEF Shrinks

LEMMA NextFacts == IInv /\ [Next]_vars => IInv' /\ (Shrinks \/ UNCHANGED vars)
<1> SUFFICES ASSUME IInv, [Next]_vars PROVE IInv' /\ (Shrinks \/ UNCHANGED vars)
  BY SMTT(30)
<1>1. CASE UNCHANGED vars
  BY Zenon, <1>1, RequestsAlone, RegistryAlone
     DEF vars, registryVars, requestVars, IInv, TypeOK, Quiet
<1>2. CASE Next
  BY <1>2, RegistryStepFacts, RequestStepFacts DEF Next
<1> QED
  BY <1>1, <1>2

LEMMA Consequences ==
  IInv => EmptyStays /\ FenceHolds /\ SelectableCurrent /\ IdsDistinct /\ OneBackend
<1> SUFFICES ASSUME IInv
             PROVE  EmptyStays /\ FenceHolds /\ SelectableCurrent /\ IdsDistinct
                    /\ OneBackend
  OBVIOUS
<1>1. EmptyStays
  BY Zenon, OpenFinite, FS_EmptySet
     DEF IInv, TypeOK, Guarded, OpenCounted, Quiet, EmptyStays
<1>2. FenceHolds
  BY DrainAssumption DEF IInv, TypeOK, Located, SelectableCurrent, FenceHolds
<1>3. SelectableCurrent /\ IdsDistinct
  BY Zenon DEF IInv, Located, IdsUnique, IdsDistinct, Fenced
<1>4. OneBackend
  <2> SUFFICES ASSUME NEW r \in Request, Routed(r)
               PROVE  Cardinality(sent[r]) <= 1
    BY DEF OneBackend
  <2>1. sent[r] = {} \/ sent[r] = {selected_backend[r]}
    BY Zenon DEF IInv, Pinned
  <2>2. Cardinality({}) = 0 /\ Cardinality({selected_backend[r]}) = 1
    BY Zenon, FS_EmptySet, FS_Singleton
  <2>3. Cardinality(sent[r]) = 0 \/ Cardinality(sent[r]) = 1
    BY <2>1, <2>2
  <2> QED
    BY <2>3
<1> QED
  BY <1>1, <1>2, <1>3, <1>4

(* The variables of the registry and the requests keep their types; the    *)
(* count of a URL never goes below zero.                                   *)
THEOREM DrainTyped == Spec => []TypeOK
<1>1. IInv => TypeOK
  BY DEF IInv
<1> QED
  BY <1>1, InitIInv, NextFacts, PTL DEF Spec

(* The active_requests of the drain endpoints is the number of responses   *)
(* still open on the URL.                                                  *)
THEOREM DrainCounts == Spec => []OpenCounted
<1>1. IInv => OpenCounted
  BY DEF IInv, Guarded
<1> QED
  BY <1>1, InitIInv, NextFacts, PTL DEF Spec

(* A drain reported as empty stays empty until it is finished.             *)
THEOREM DrainStaysEmpty == Spec => []EmptyStays
<1> QED
  BY Consequences, InitIInv, NextFacts, PTL DEF Spec

(* No registration puts a fenced URL back into an index.                   *)
THEOREM DrainFence == Spec => []FenceHolds
<1> QED
  BY Consequences, InitIInv, NextFacts, PTL DEF Spec

(* What can be selected can be admitted, and what is registered drained.   *)
THEOREM SelectionSound == Spec => [](SelectableCurrent /\ IdsDistinct)
<1> QED
  BY Consequences, InitIInv, NextFacts, PTL DEF Spec

(* The attempts of one request go to one backend model.                    *)
THEOREM AttemptsPinned == Spec => []OneBackend
<1> QED
  BY Consequences, InitIInv, NextFacts, PTL DEF Spec

(* While a URL drains, its open responses only become fewer, and the fence *)
(* is lifted when none is left.                                            *)
THEOREM DrainMonotone == Spec => DrainOnlyShrinks
<1>1. IInv /\ [Next]_vars => [Shrinks]_vars
  BY NextFacts
<1> QED
  BY <1>1, InitIInv, NextFacts, PTL DEF Spec, DrainOnlyShrinks, Shrinks
=============================================================================
