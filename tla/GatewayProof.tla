---------------------------- MODULE GatewayProof ----------------------------
(* Proofs about parts of the gateway. The copy of the key registry is      *)
(* safe for any number of keys, revisions, pushes, requests and restarts.  *)
(* The permits of the public middleware are conserved, and evicting idle   *)
(* semaphores neither lets an address exceed its concurrency nor turns     *)
(* anybody away, for any number of requests, addresses and limits.  The    *)
(* address windows bound every second, not only their own.                 *)
EXTENDS KeyRegistry, PublicLimits, RateWindow, FiniteSetTheorems, TLAPS

-----------------------------------------------------------------------------
(* The key registry copy.                                                  *)

(* The admin never takes a revocation back, from revision to revision.     *)
RevocationKept ==
  \A n, m \in Revision, k \in Key :
    n <= m /\ m <= published /\ history[n].rows[k] = "revoked"
      => history[m].rows[k] = "revoked"

(* An apply call carries a published revision; once it has been decided,   *)
(* the cache is at least there.                                            *)
Carrying ==
  \A c \in Caller :
    /\ call[c] # "idle" => revision[c] \in Revision /\ revision[c] <= published
    /\ call[c] = "decided" => revision[c] <= held

(* The cache only moves forward under a request that authenticates.        *)
Floors ==
  \A r \in AuthRequest : auth[r] # "idle" =>
    /\ bearer[r] \in Key
    /\ floor[r] \in Revision /\ floor[r] <= held

RegistryInv == /\ RegistryTypes /\ RevocationKept /\ Carrying /\ Floors
        /\ CacheWhole /\ AckedHeld /\ RevocationHolds

LEMMA RegistryInitInv == RegistryInit => RegistryInv
<1> SUFFICES ASSUME RegistryInit PROVE RegistryInv
  OBVIOUS
<1>1. RegistryTypes
  <2>1. history \in [Revision -> SnapType]
    BY DEF RegistryInit, SnapType, Rows, Row, NoRows
  <2>2. keys \in Rows
    BY DEF RegistryInit, Rows, Row, NoRows
  <2> QED
    BY <2>1, <2>2, RegistryAssumption DEF RegistryInit, RegistryTypes, ApplyPhase, AuthPhase
<1>2. RevocationKept /\ Carrying /\ Floors
  BY DEF RegistryInit, RevocationKept, Revision, Carrying, Floors
<1>3. CacheWhole /\ AckedHeld /\ RevocationHolds
  BY DEF RegistryInit, CacheWhole, AckedHeld, RevocationHolds
<1> QED
  BY <1>1, <1>2, <1>3 DEF RegistryInv

-----------------------------------------------------------------------------
LEMMA PublishIInv ==
  ASSUME RegistryInv, NEW s \in Publishable, Publish(s) PROVE RegistryInv'
<1> USE DEF Publish, storeVars, applyVars, authVars
<1>1. s \in SnapType /\ published + 1 \in Revision
  BY RegistryAssumption DEF RegistryInv, RegistryTypes, Revision
<1>2. RegistryTypes'
  BY <1>1, RegistryAssumption DEF RegistryInv, RegistryTypes, Revision
<1>3. \A n \in Revision : history'[n] = IF n = published + 1 THEN s ELSE history[n]
  BY DEF RegistryInv, RegistryTypes
<1>4. RevocationKept'
  BY <1>1, <1>3, RegistryAssumption
     DEF RegistryInv, RegistryTypes, RevocationKept, RevokedStays, Revision
<1>5. Carrying' /\ Floors' /\ AckedHeld'
  BY RegistryAssumption
     DEF RegistryInv, RegistryTypes, Carrying, Floors, AckedHeld, Revision
<1>6. held # 0 => held \in Revision /\ held <= published
  BY RegistryAssumption DEF RegistryInv, RegistryTypes, CacheWhole, Revision
<1>7. CacheWhole'
  <2>1. held # 0 => history'[held] = history[held] /\ held <= published'
    BY <1>3, <1>6, RegistryAssumption DEF RegistryInv, RegistryTypes, Revision
  <2> QED
    BY <2>1 DEF RegistryInv, CacheWhole
<1>8. RevocationHolds'
  <2>1. \A r \in AuthRequest : auth[r] = "Active" =>
          floor[r] \in Revision /\ floor[r] # published + 1
    BY <1>6, RegistryAssumption DEF RegistryInv, RegistryTypes, Floors, Revision
  <2> QED
    BY <1>3, <2>1 DEF RegistryInv, RevocationHolds
<1> QED
  BY <1>2, <1>4, <1>5, <1>7, <1>8 DEF RegistryInv

LEMMA ReceivePushIInv ==
  ASSUME RegistryInv, NEW c \in Push, NEW n \in Revision, ReceivePush(c, n) PROVE RegistryInv'
<1> USE DEF ReceivePush, adminVars, storeVars, authVars
<1>1. RegistryTypes'
  BY RegistryAssumption DEF RegistryInv, RegistryTypes, Caller, ApplyPhase, Revision
<1>2. Carrying'
  BY DEF RegistryInv, RegistryTypes, Carrying, Caller
<1>3. RevocationKept' /\ Floors' /\ CacheWhole' /\ AckedHeld' /\ RevocationHolds'
  BY DEF RegistryInv, RevocationKept, Floors, CacheWhole, AckedHeld, RevocationHolds
<1> QED
  BY <1>1, <1>2, <1>3 DEF RegistryInv

LEMMA FetchIInv ==
  ASSUME RegistryInv, FetchSnapshot PROVE RegistryInv'
<1> USE DEF FetchSnapshot, adminVars, storeVars, authVars
<1>1. published \in Revision
  BY RegistryAssumption DEF RegistryInv, RegistryTypes, Revision
<1>2. RegistryTypes'
  BY <1>1, RegistryAssumption DEF RegistryInv, RegistryTypes, Caller, ApplyPhase, Revision
<1>3. Carrying'
  BY <1>1, RegistryAssumption DEF RegistryInv, RegistryTypes, Carrying, Caller, Revision
<1>4. RevocationKept' /\ Floors' /\ CacheWhole' /\ AckedHeld' /\ RevocationHolds'
  BY DEF RegistryInv, RevocationKept, Floors, CacheWhole, AckedHeld, RevocationHolds
<1> QED
  BY <1>2, <1>3, <1>4 DEF RegistryInv

LEMMA CheckIInv ==
  ASSUME RegistryInv, NEW c \in Caller, Check(c) PROVE RegistryInv'
<1> USE DEF Check, adminVars, storeVars, authVars
<1>1. RegistryTypes'
  BY DEF RegistryInv, RegistryTypes, ApplyPhase
<1>2. Carrying'
  BY DEF RegistryInv, RegistryTypes, Carrying
<1>3. RevocationKept' /\ Floors' /\ CacheWhole' /\ AckedHeld' /\ RevocationHolds'
  BY DEF RegistryInv, RevocationKept, Floors, CacheWhole, AckedHeld, RevocationHolds
<1> QED
  BY <1>1, <1>2, <1>3 DEF RegistryInv

(* A decision keeps the cache or moves it to a higher published revision.  *)
LEMMA DecideIInv ==
  ASSUME RegistryInv, NEW c \in Caller, Decide(c) PROVE RegistryInv'
<1> USE DEF adminVars, storeVars, authVars
<1>0. /\ call[c] = "checked" /\ revision[c] \in Revision /\ revision[c] <= published
      /\ UNCHANGED <<revision, revision_gauge, mismatch_gauge, acked, history,
                     published, auth, bearer, floor, restarts>>
  BY DEF Decide, RegistryInv, Carrying
<1>1. CASE /\ revision[c] > held /\ held' = revision[c]
           /\ keys' = parse(Carried(c)) /\ call' = [call EXCEPT ![c] = "decided"]
  <2>1. history[revision[c]].rows \in Rows
    BY <1>0 DEF RegistryInv, RegistryTypes, SnapType
  <2>2. parse(history[revision[c]]) \in Rows
    BY <2>1 DEF parse, Rows, Row
  <2>3. RegistryTypes'
    BY <1>0, <1>1, <2>2, RegistryAssumption
       DEF RegistryInv, RegistryTypes, ApplyPhase, Revision, Carried
  <2>4. held' >= held /\ held' # 0
    BY <1>0, <1>1, RegistryAssumption DEF RegistryInv, RegistryTypes, Revision
  <2>5. Carrying'
    BY <1>0, <1>1, <2>4, RegistryAssumption
       DEF RegistryInv, RegistryTypes, Carrying, Revision
  <2>6. Floors' /\ AckedHeld'
    BY <1>0, <2>4, <2>3, RegistryAssumption
       DEF RegistryInv, RegistryTypes, Floors, AckedHeld, Revision
  <2>7. CacheWhole'
    BY <1>0, <1>1, <2>4 DEF CacheWhole, Carried, parse
  <2>8. RevocationKept' /\ RevocationHolds'
    BY <1>0 DEF RegistryInv, RevocationKept, RevocationHolds
  <2> QED
    BY <2>3, <2>5, <2>6, <2>7, <2>8 DEF RegistryInv
<1>2. CASE /\ UNCHANGED <<held, keys>>
           /\ \/ revision[c] = held /\ call' = [call EXCEPT ![c] = "decided"]
              \/ call' = [call EXCEPT ![c] = "idle"]
  <2>1. RegistryTypes'
    BY <1>0, <1>2 DEF RegistryInv, RegistryTypes, ApplyPhase
  <2>2. Carrying'
    BY <1>0, <1>2, RegistryAssumption DEF RegistryInv, RegistryTypes, Carrying, Revision
  <2>3. RevocationKept' /\ Floors' /\ CacheWhole' /\ AckedHeld' /\ RevocationHolds'
    BY <1>0, <1>2
       DEF RegistryInv, RevocationKept, Floors, CacheWhole, AckedHeld, RevocationHolds
  <2> QED
    BY <2>1, <2>2, <2>3 DEF RegistryInv
<1> QED
  BY <1>1, <1>2 DEF Decide

LEMMA SetGaugesIInv ==
  ASSUME RegistryInv, NEW c \in Caller, SetGauges(c) PROVE RegistryInv'
<1> USE DEF SetGauges, adminVars, storeVars, authVars
<1>1. revision[c] \in Revision /\ revision[c] <= held
  BY Zenon DEF RegistryInv, Carrying
<1>2. RegistryTypes'
  BY Zenon, <1>1, RegistryAssumption DEF RegistryInv, RegistryTypes, ApplyPhase, Revision
<1>3. Carrying'
  BY DEF RegistryInv, RegistryTypes, Carrying
<1>4. AckedHeld'
  BY <1>1 DEF RegistryInv, AckedHeld
<1>5. RevocationKept' /\ Floors' /\ CacheWhole' /\ RevocationHolds'
  BY DEF RegistryInv, RevocationKept, Floors, CacheWhole, RevocationHolds
<1> QED
  BY <1>2, <1>3, <1>4, <1>5 DEF RegistryInv

-----------------------------------------------------------------------------
LEMMA BeginRequestIInv ==
  ASSUME RegistryInv, NEW r \in AuthRequest, NEW k \in Key, BeginRequest(r, k) PROVE RegistryInv'
<1> USE DEF BeginRequest, adminVars, storeVars, applyVars
<1>1. held \in Revision
  BY RegistryAssumption DEF RegistryInv, RegistryTypes, Revision
<1>2. RegistryTypes'
  BY <1>1, RegistryAssumption DEF RegistryInv, RegistryTypes, AuthPhase
<1>3. Floors'
  BY <1>1, RegistryAssumption DEF RegistryInv, RegistryTypes, Floors, Revision
<1>4. RevocationHolds'
  BY DEF RegistryInv, RegistryTypes, RevocationHolds
<1>5. RevocationKept' /\ Carrying' /\ CacheWhole' /\ AckedHeld'
  BY DEF RegistryInv, RevocationKept, Carrying, CacheWhole, AckedHeld
<1> QED
  BY <1>2, <1>3, <1>4, <1>5 DEF RegistryInv

(* A row that is active in the cache was not revoked at the floor.         *)
LEMMA VerifyIInv ==
  ASSUME RegistryInv, NEW r \in AuthRequest, Verify(r) PROVE RegistryInv'
<1> USE DEF Verify, adminVars, storeVars, applyVars
<1>1. RegistryTypes'
  BY DEF RegistryInv, RegistryTypes, AuthPhase
<1>2. /\ bearer[r] \in Key /\ floor[r] \in Revision /\ floor[r] <= held
      /\ held \in Revision /\ held <= published /\ keys = parse(history[held])
  BY RegistryAssumption DEF RegistryInv, RegistryTypes, Floors, CacheWhole, Revision
<1>3. keys[bearer[r]] = "active" => history[held].rows[bearer[r]] = "active"
  BY <1>2 DEF parse
<1>4. keys[bearer[r]] = "active" => history[floor[r]].rows[bearer[r]] # "revoked"
  BY <1>2, <1>3 DEF RegistryInv, RevocationKept
<1>5. RevocationHolds'
  BY <1>4 DEF RegistryInv, RegistryTypes, RevocationHolds
<1>6. Floors'
  BY DEF RegistryInv, RegistryTypes, Floors
<1>7. RevocationKept' /\ Carrying' /\ CacheWhole' /\ AckedHeld'
  BY DEF RegistryInv, RevocationKept, Carrying, CacheWhole, AckedHeld
<1> QED
  BY Zenon, <1>1, <1>5, <1>6, <1>7 DEF RegistryInv

LEMMA VerifyRevokedIInv ==
  ASSUME RegistryInv, NEW r \in AuthRequest, VerifyRevoked(r) PROVE RegistryInv'
<1> USE DEF VerifyRevoked, adminVars, storeVars, applyVars
<1>1. RegistryTypes'
  BY DEF RegistryInv, RegistryTypes, AuthPhase
<1>2. Floors' /\ RevocationHolds'
  BY DEF RegistryInv, RegistryTypes, Floors, RevocationHolds
<1>3. RevocationKept' /\ Carrying' /\ CacheWhole' /\ AckedHeld'
  BY DEF RegistryInv, RevocationKept, Carrying, CacheWhole, AckedHeld
<1> QED
  BY Zenon, <1>1, <1>2, <1>3 DEF RegistryInv

LEMMA EndRequestIInv ==
  ASSUME RegistryInv, NEW r \in AuthRequest, EndRequest(r) PROVE RegistryInv'
<1> USE DEF EndRequest, adminVars, storeVars, applyVars
<1>1. RegistryTypes'
  BY RegistryAssumption DEF RegistryInv, RegistryTypes, AuthPhase
<1>2. Floors' /\ RevocationHolds'
  BY DEF RegistryInv, RegistryTypes, Floors, RevocationHolds
<1>3. RevocationKept' /\ Carrying' /\ CacheWhole' /\ AckedHeld'
  BY DEF RegistryInv, RevocationKept, Carrying, CacheWhole, AckedHeld
<1> QED
  BY <1>1, <1>2, <1>3 DEF RegistryInv

LEMMA RestartIInv ==
  ASSUME RegistryInv, Restart PROVE RegistryInv'
<1> USE DEF Restart, adminVars
<1>1. RegistryTypes'
  BY RegistryAssumption DEF RegistryInv, RegistryTypes, ApplyPhase, AuthPhase, Rows, Row, NoRows
<1>2. RevocationKept' /\ Carrying' /\ Floors'
  BY DEF RegistryInv, RevocationKept, Carrying, Floors
<1>3. CacheWhole' /\ AckedHeld' /\ RevocationHolds'
  BY DEF CacheWhole, AckedHeld, RevocationHolds
<1> QED
  BY <1>1, <1>2, <1>3 DEF RegistryInv

LEMMA RegistryNextInv == RegistryInv /\ [RegistryNext]_registryVars => RegistryInv'
<1> SUFFICES ASSUME RegistryInv, [RegistryNext]_registryVars PROVE RegistryInv'
  OBVIOUS
<1>1. CASE UNCHANGED registryVars
  BY Zenon, <1>1 DEF registryVars, adminVars, storeVars, applyVars, authVars, RegistryInv, RegistryTypes,
     RevocationKept, Carrying, Floors, CacheWhole, AckedHeld, RevocationHolds
<1>2. CASE RegistryNext
  BY <1>2, PublishIInv, ReceivePushIInv, FetchIInv, CheckIInv, DecideIInv,
     SetGaugesIInv, BeginRequestIInv, VerifyIInv, VerifyRevokedIInv,
     EndRequestIInv, RestartIInv DEF RegistryNext, Apply, Authenticate
<1> QED
  BY <1>1, <1>2

-----------------------------------------------------------------------------
(* The variables of the key store keep their types.                        *)
THEOREM RegistryTyped == RegistrySpec => []RegistryTypes
<1>1. RegistryInv => RegistryTypes
  BY DEF RegistryInv
<1> QED
  BY <1>1, RegistryInitInv, RegistryNextInv, PTL DEF RegistrySpec

(* The gateway serves from exactly one published snapshot.                 *)
THEOREM RegistryWhole == RegistrySpec => []CacheWhole
<1>1. RegistryInv => CacheWhole
  BY DEF RegistryInv
<1> QED
  BY <1>1, RegistryInitInv, RegistryNextInv, PTL DEF RegistrySpec

(* An acknowledged revision is never rolled back by a running gateway.     *)
THEOREM RegistryAcked == RegistrySpec => []AckedHeld
<1>1. RegistryInv => AckedHeld
  BY DEF RegistryInv
<1> QED
  BY <1>1, RegistryInitInv, RegistryNextInv, PTL DEF RegistrySpec

(* A key revoked in the snapshot held when a request began is not accepted *)
(* for that request.                                                       *)
THEOREM RegistryRevokes == RegistrySpec => []RevocationHolds
<1>1. RegistryInv => RevocationHolds
  BY DEF RegistryInv
<1> QED
  BY <1>1, RegistryInitInv, RegistryNextInv, PTL DEF RegistrySpec

-----------------------------------------------------------------------------
(* The public limits.                                                      *)

(* Phases in which a request holds a reference to a semaphore.             *)
RefPhase == {"slot", "released"} \cup PermitPhase

(* The facts about references the permit counts rest on: who has one, that *)
(* the map agrees with it, and that no two addresses share a semaphore.    *)
References ==
  /\ \A r \in Request : ref[r] # None <=> pc[r] \in RefPhase
  /\ \A r \in Request :
       pc[r] \notin {"idle", "request_capacity"} => client[r] \in Address
  /\ SharedSemaphore
  /\ \A a, b \in Address :
       address_slots[a] # None /\ address_slots[a] = address_slots[b] => a = b

IInv == TypeOK /\ References /\ PermitsConserved

LEMMA PlusZero ==
  ASSUME NEW n \in Nat \ {0}
  PROVE  n + 0 = n
OBVIOUS

LEMMA AtLeast ==
  ASSUME NEW m \in Nat, NEW n \in Nat, m <= n, NEW k \in Nat \ {0}, m >= k
  PROVE  n >= k
OBVIOUS

-----------------------------------------------------------------------------
(* Adding and removing one element of a finite set, as the counts use it.  *)
LEMMA CountUp ==
  ASSUME NEW S, NEW x, IsFiniteSet(S), x \notin S
  PROVE  Cardinality(S) \in Nat /\ Cardinality(S \cup {x}) = Cardinality(S) + 1
BY FS_AddElement, FS_CardinalityType

LEMMA CountDown ==
  ASSUME NEW S, NEW x, IsFiniteSet(S), x \in S
  PROVE  /\ Cardinality(S) \in Nat /\ Cardinality(S) >= 1
         /\ Cardinality(S \ {x}) = Cardinality(S) - 1
<1>1. Cardinality(S) \in Nat /\ Cardinality(S \ {x}) \in Nat
  BY FS_RemoveElement, FS_CardinalityType
<1>2. Cardinality(S \ {x}) = Cardinality(S) - 1
  BY FS_RemoveElement
<1> QED BY <1>1, <1>2

(* Sets of requests are finite.                                            *)
LEMMA RequestSets ==
  ASSUME NEW S \in SUBSET Request
  PROVE  IsFiniteSet(S) /\ Cardinality(S) \in Nat
BY LimitsAssumption, FS_Subset, FS_CardinalityType

(* accept_address keeps the windows well formed: a count never passes the  *)
(* configured rate.                                                        *)
LEMMA WindowsTyped ==
  ASSUME NEW w, NEW a \in Address, NEW t \in Nat, IsWindowMap(w)
  PROVE  IsWindowMap(WindowsAfter(w, a, t))
<1> DEFINE kept == Retained(w, t)
           old  == WindowOf(kept, a, t)
           R    == RequestsPerAddressPerSecond
<1>1. IsWindowMap(kept)
  BY DEF IsWindowMap, Retained
<1>2. old \in AddrWindow
  BY <1>1, WindowAssumption DEF IsWindowMap, WindowOf, AddrWindow
<1>3. [old EXCEPT !.requests = @ + 1] \in AddrWindow
      \/ ~ AcceptsAddress(w, a, t)
  BY <1>2, WindowAssumption DEF AcceptsAddress, AddrWindow
<1> QED
  BY <1>1, <1>2, <1>3 DEF IsWindowMap, WindowsAfter

-----------------------------------------------------------------------------
LEMMA InitIInv == Init => IInv
<1> SUFFICES ASSUME Init PROVE IInv
  OBVIOUS
<1>1. HoldsGlobal = {} /\ Cardinality(HoldsGlobal) = 0
  BY Zenon, FS_EmptySet DEF Init, HoldsGlobal
<1>2. TypeOK
  BY LimitsAssumption DEF Init, TypeOK, Phase, IsWindowMap
<1>3. References
  BY DEF Init, References, RefPhase, PermitPhase, SharedSemaphore
<1>4. PermitsConserved
  BY <1>1, LimitsAssumption DEF Init, PermitsConserved
<1> QED BY <1>2, <1>3, <1>4 DEF IInv

(* What the invariant says of one request and of one semaphore.            *)
LEMMA Counts ==
  ASSUME TypeOK
  PROVE  /\ HoldsGlobal \in SUBSET Request
         /\ \A s : Holders(s) \in SUBSET Request
         /\ IsFiniteSet(HoldsGlobal) /\ Cardinality(HoldsGlobal) \in Nat
         /\ \A s : IsFiniteSet(Holders(s)) /\ Cardinality(Holders(s)) \in Nat
<1>1. /\ HoldsGlobal \in SUBSET Request
      /\ \A s : Holders(s) \in SUBSET Request
  BY DEF HoldsGlobal, Holders
<1> QED BY <1>1, RequestSets

LEMMA ArriveIInv ==
  ASSUME IInv, NEW r \in Request, NEW a \in Address, Arrive(r, a)
  PROVE  IInv'
<1> USE DEF IInv
<1>1. TypeOK'
  BY LimitsAssumption DEF Arrive, TypeOK, Phase, Refusal
<1>2. References'
  BY DEF Arrive, TypeOK, References, RefPhase, PermitPhase, SharedSemaphore
<1>3. \A s : Holders(s)' = Holders(s)
  BY DEF Arrive, TypeOK, Holders, PermitPhase
<1>4. PermitsConserved'
  <2>1. CASE public_requests > 0
    <3>1. HoldsGlobal' = HoldsGlobal \cup {r} /\ r \notin HoldsGlobal
      BY <2>1 DEF Arrive, TypeOK, HoldsGlobal
    <3>2. Cardinality(HoldsGlobal') = Cardinality(HoldsGlobal) + 1
      BY <3>1, Counts, CountUp
    <3> QED
      BY <1>3, <2>1, <3>2, Counts, LimitsAssumption
      DEF Arrive, TypeOK, PermitsConserved
  <2>2. CASE ~ (public_requests > 0)
    <3>1. HoldsGlobal' = HoldsGlobal
      BY <2>2 DEF Arrive, TypeOK, HoldsGlobal
    <3> QED
      BY <1>3, <2>2, <3>1 DEF Arrive, PermitsConserved
  <2> QED BY <2>1, <2>2
<1> QED BY <1>1, <1>2, <1>4

LEMMA FindSlotIInv ==
  ASSUME IInv, NEW r \in Request, FindSlot(r)
  PROVE  IInv'
<1> DEFINE a    == client[r]
           kept == Evicted(address_slots, a)
<1> USE DEF IInv
<1>1. a \in Address /\ ref[r] = None
  BY Zenon DEF FindSlot, References, RefPhase, PermitPhase
<1>2. /\ kept \in [Address -> Sem \cup {None}]
      /\ \A b \in Address : kept[b] \in {address_slots[b], None}
  BY DEF Evicted, TypeOK
(* The eviction keeps what any request refers to.                          *)
<1>3. \A q \in Request : ref[q] # None => kept[client[q]] = ref[q]
  BY DEF Evicted, Referenced, TypeOK, References, SharedSemaphore, RefPhase, PermitPhase
<1>4. HoldsGlobal' = HoldsGlobal
  BY Zenon DEF FindSlot, TypeOK, HoldsGlobal
<1>5. \A s : s # None => Holders(s)' = Holders(s)
  BY Zenon, <1>1 DEF FindSlot, TypeOK, Holders, PermitPhase
<1>6. CASE TableFull(kept, a) /\ pc' = [pc EXCEPT ![r] = "address_capacity"]
           /\ address_slots' = kept /\ UNCHANGED <<ref, permits>>
  <2>1. TypeOK'
    BY Zenon, <1>2, <1>6 DEF FindSlot, TypeOK, Phase, Refusal
  <2>2. References'
    BY <1>1, <1>2, <1>3, <1>6
    DEF FindSlot, TypeOK, References, RefPhase, PermitPhase, SharedSemaphore
  <2>3. PermitsConserved'
    BY Zenon, <1>2, <1>4, <1>5, <1>6 DEF FindSlot, TypeOK, PermitsConserved
  <2> QED BY <2>1, <2>2, <2>3
<1>7. CASE kept[a] # None /\ pc' = [pc EXCEPT ![r] = "slot"]
           /\ ref' = [ref EXCEPT ![r] = kept[a]]
           /\ address_slots' = kept /\ UNCHANGED permits
  <2>1. TypeOK'
    BY Zenon, <1>1, <1>2, <1>7 DEF FindSlot, TypeOK, Phase
  <2>2. References'
    BY <1>1, <1>2, <1>3, <1>7
    DEF FindSlot, TypeOK, References, RefPhase, PermitPhase, SharedSemaphore
  <2>3. PermitsConserved'
    BY <1>2, <1>4, <1>5, <1>7 DEF FindSlot, TypeOK, PermitsConserved
  <2> QED BY <2>1, <2>2, <2>3
<1>8. CASE kept[a] = None /\ Unused(kept) # {}
           /\ pc' = [pc EXCEPT ![r] = "slot"]
           /\ ref' = [ref EXCEPT ![r] = NewSem(kept)]
           /\ address_slots' = [kept EXCEPT ![a] = NewSem(kept)]
           /\ permits' = [permits EXCEPT ![NewSem(kept)] = PerAddressConcurrency]
  <2>1. PICK n \in Sem : /\ n = NewSem(kept) /\ n # None
                         /\ \A q \in Request : ref[q] # n
                         /\ \A b \in Address : kept[b] # n
    BY <1>8, LimitsAssumption DEF NewSem, Unused, Referenced
  <2>2. TypeOK'
    BY SMTT(30), <1>1, <1>2, <1>8, <2>1, LimitsAssumption DEF FindSlot, TypeOK, Phase
  <2>3. References'
    BY SMTT(30), <1>1, <1>2, <1>3, <1>8, <2>1
    DEF FindSlot, TypeOK, References, RefPhase, PermitPhase, SharedSemaphore
  <2>4. Holders(n)' = {} /\ Cardinality(Holders(n)') = 0
    <3>1. Holders(n)' = {} BY Zenon, <1>5, <2>1 DEF Holders
    <3> QED BY <3>1, FS_EmptySet, ZenonT(30)
  <2>5. \A b \in Address : address_slots'[b] # None =>
          permits'[address_slots'[b]] + Cardinality(Holders(address_slots[b])')
            = PerAddressConcurrency
    <3> SUFFICES ASSUME NEW b \in Address, address_slots'[b] # None
                 PROVE  permits'[address_slots'[b]]
                          + Cardinality(Holders(address_slots[b])')
                          = PerAddressConcurrency
      BY ZenonT(30)
    <3>1. CASE b = a
      <4>1. address_slots'[b] = n /\ permits'[n] = PerAddressConcurrency
        BY <1>1, <1>2, <1>8, <2>1, <3>1 DEF TypeOK
      <4>2. Holders(address_slots[b])' = Holders(n)'
        BY Zenon, <4>1 DEF Holders
      <4> QED BY Zenon, <2>4, <4>1, <4>2, PlusZero, LimitsAssumption
    <3>2. CASE b # a
      <4>1. PICK k \in Sem : /\ k = address_slots[b] /\ address_slots'[b] = k
                             /\ k # n /\ k # None
        BY Zenon, <1>1, <1>2, <1>8, <2>1, <3>2, LimitsAssumption DEF TypeOK
      <4>2. permits'[k] = permits[k] /\ Holders(k)' = Holders(k)
        BY SMTT(30), <1>5, <1>8, <2>1, <4>1 DEF TypeOK
      <4> QED BY Zenon, <4>1, <4>2 DEF PermitsConserved
    <3> QED BY Zenon, <3>1, <3>2
  <2>6. PermitsConserved'
    BY Zenon, <1>4, <2>5 DEF FindSlot, PermitsConserved
  <2> QED BY <2>2, <2>3, <2>6
<1> QED BY Zenon, <1>6, <1>7, <1>8 DEF FindSlot

LEMMA AcquireSlotIInv ==
  ASSUME IInv, NEW r \in Request, AcquireSlot(r)
  PROVE  IInv'
<1> USE DEF IInv
<1>1. PICK s \in Sem : /\ s = ref[r] /\ address_slots[client[r]] = s
                       /\ client[r] \in Address
  BY DEF AcquireSlot, TypeOK, References, RefPhase, SharedSemaphore
<1>2. HoldsGlobal' = HoldsGlobal
  BY DEF AcquireSlot, TypeOK, HoldsGlobal
<1>3. TypeOK'
  BY <1>1, LimitsAssumption DEF AcquireSlot, TypeOK, Phase, Refusal
<1>4. References'
  BY ZenonT(30), <1>1 DEF AcquireSlot, TypeOK, References, RefPhase, PermitPhase, SharedSemaphore
<1>5. CASE permits[ref[r]] > 0
  <2>1. /\ Holders(s)' = Holders(s) \cup {r} /\ r \notin Holders(s)
        /\ \A t : t # s => Holders(t)' = Holders(t)
    BY <1>1, <1>5 DEF AcquireSlot, TypeOK, Holders, PermitPhase
  <2>2. Cardinality(Holders(s)') = Cardinality(Holders(s)) + 1
    BY <2>1, Counts, CountUp
  <2>3. PermitsConserved'
    BY <1>1, <1>2, <1>5, <2>1, <2>2, Counts, LimitsAssumption
    DEF AcquireSlot, TypeOK, PermitsConserved
  <2> QED BY <1>3, <1>4, <2>3
<1>6. CASE ~ (permits[ref[r]] > 0)
  <2>1. \A t : t # None => Holders(t)' = Holders(t)
    BY <1>6 DEF AcquireSlot, TypeOK, Holders, PermitPhase
  <2>2. PermitsConserved'
    BY SMTT(30), <1>2, <1>6, <2>1 DEF AcquireSlot, TypeOK, PermitsConserved
  <2> QED BY <1>3, <1>4, <2>2
<1> QED BY <1>5, <1>6

LEMMA AcceptAddressIInv ==
  ASSUME IInv, NEW r \in Request, AcceptAddress(r)
  PROVE  IInv'
<1> USE DEF IInv
<1>1. client[r] \in Address
  BY Zenon DEF AcceptAddress, References
<1>2. IsWindowMap(addresses')
  BY <1>1, WindowsTyped DEF AcceptAddress, TypeOK
<1>3. TypeOK'
  BY <1>2 DEF AcceptAddress, TypeOK, Phase, Refusal
<1>4. References'
  BY Zenon DEF AcceptAddress, TypeOK, References, RefPhase, PermitPhase, SharedSemaphore
<1>5. HoldsGlobal' = HoldsGlobal /\ \A s : Holders(s)' = Holders(s)
  BY DEF AcceptAddress, TypeOK, HoldsGlobal, Holders, PermitPhase
<1>6. PermitsConserved'
  BY Zenon, <1>5 DEF AcceptAddress, PermitsConserved
<1> QED BY <1>3, <1>4, <1>6

LEMMA ReturnIInv ==
  ASSUME IInv, NEW r \in Request, Return(r)
  PROVE  IInv'
<1> USE DEF IInv
<1>1. TypeOK'
  BY DEF Return, TypeOK, Phase
<1>2. References'
  BY Zenon DEF Return, TypeOK, References, RefPhase, PermitPhase, SharedSemaphore
<1>3. HoldsGlobal' = HoldsGlobal /\ \A s : Holders(s)' = Holders(s)
  BY DEF Return, TypeOK, HoldsGlobal, Holders, PermitPhase
<1>4. PermitsConserved'
  BY Zenon, <1>3 DEF Return, PermitsConserved
<1> QED BY <1>1, <1>2, <1>4

LEMMA DropPermitIInv ==
  ASSUME IInv, NEW r \in Request, DropPermit(r)
  PROVE  IInv'
<1> USE DEF IInv
<1>1. PICK s \in Sem : /\ s = ref[r] /\ address_slots[client[r]] = s /\ s # None
                       /\ client[r] \in Address
  BY DEF DropPermit, TypeOK, References, RefPhase, PermitPhase, SharedSemaphore
<1>2. /\ Holders(s)' = Holders(s) \ {r} /\ r \in Holders(s)
      /\ \A t : t # s => Holders(t)' = Holders(t)
  BY <1>1 DEF DropPermit, TypeOK, Holders, PermitPhase
<1>3. /\ Cardinality(Holders(s)') = Cardinality(Holders(s)) - 1
      /\ Cardinality(Holders(s)) >= 1
  BY <1>2, Counts, CountDown
<1>4. permits[s] + Cardinality(Holders(s)) = PerAddressConcurrency
  BY Zenon, <1>1 DEF PermitsConserved
<1>5. TypeOK'
  BY <1>1, <1>3, <1>4, Counts, LimitsAssumption DEF DropPermit, TypeOK, Phase
<1>6. References'
  BY Zenon DEF DropPermit, TypeOK, References, RefPhase, PermitPhase, SharedSemaphore
<1>7. HoldsGlobal' = HoldsGlobal
  BY DEF DropPermit, TypeOK, HoldsGlobal
<1>8. permits'[s] + Cardinality(Holders(s)') = PerAddressConcurrency
  BY <1>1, <1>3, <1>4, Counts, LimitsAssumption DEF DropPermit, TypeOK
<1>9. \A t \in Sem : t # s => permits'[t] = permits[t] /\ Holders(t)' = Holders(t)
  BY <1>1, <1>2 DEF DropPermit, TypeOK
<1>10. PermitsConserved'
  BY <1>7, <1>8, <1>9 DEF DropPermit, TypeOK, PermitsConserved
<1> QED BY <1>5, <1>6, <1>10

LEMMA DropReferenceIInv ==
  ASSUME IInv, NEW r \in Request, DropReference(r)
  PROVE  IInv'
<1> USE DEF IInv
<1>1. TypeOK'
  BY DEF DropReference, TypeOK, Phase
<1>2. References'
  BY DEF DropReference, TypeOK, References, RefPhase, PermitPhase, SharedSemaphore
<1>3. HoldsGlobal' = HoldsGlobal /\ \A s : s # None => Holders(s)' = Holders(s)
  BY DEF DropReference, TypeOK, HoldsGlobal, Holders, PermitPhase
<1>4. PermitsConserved'
  BY Zenon, <1>3 DEF DropReference, TypeOK, PermitsConserved
<1> QED BY <1>1, <1>2, <1>4

LEMMA DropGlobalIInv ==
  ASSUME IInv, NEW r \in Request, DropGlobal(r)
  PROVE  IInv'
<1> USE DEF IInv
<1>1. \A s : Holders(s)' = Holders(s)
  BY DEF DropGlobal, TypeOK, Holders, PermitPhase
<1>2. References'
  BY Zenon DEF DropGlobal, TypeOK, References, RefPhase, PermitPhase, SharedSemaphore
<1>3. HoldsGlobal' = HoldsGlobal \ {r}
  BY DEF DropGlobal, TypeOK, HoldsGlobal
<1>4. CASE r \in HoldsGlobal
  <2>1. /\ Cardinality(HoldsGlobal') = Cardinality(HoldsGlobal) - 1
        /\ Cardinality(HoldsGlobal) >= 1
    BY <1>3, <1>4, Counts, CountDown
  <2>2. TypeOK'
    BY <1>4, <2>1, Counts, LimitsAssumption
    DEF DropGlobal, TypeOK, Phase, PermitsConserved
  <2>3. PermitsConserved'
    BY <1>1, <1>4, <2>1, Counts, LimitsAssumption
    DEF DropGlobal, TypeOK, PermitsConserved
  <2> QED BY <1>2, <2>2, <2>3
<1>5. CASE r \notin HoldsGlobal
  <2>1. HoldsGlobal' = HoldsGlobal
    BY <1>3, <1>5
  <2>2. TypeOK'
    BY SMTT(30), <1>5 DEF DropGlobal, TypeOK, Phase
  <2>3. PermitsConserved'
    BY Zenon, <1>1, <1>5, <2>1 DEF DropGlobal, PermitsConserved
  <2> QED BY <1>2, <2>2, <2>3
<1> QED BY <1>4, <1>5

(* The invariant is inductive: one case per step of the middleware.        *)
LEMMA NextIInv == IInv /\ [Next]_vars => IInv'
<1> SUFFICES ASSUME IInv, [Next]_vars PROVE IInv'
  OBVIOUS
<1>1. CASE Tick
  <2>1. TypeOK'
    BY <1>1 DEF IInv, Tick, TypeOK
  <2>2. References' /\ PermitsConserved'
    BY Zenon, <1>1 DEF IInv, Tick, References, SharedSemaphore, PermitsConserved,
      HoldsGlobal, Holders
  <2> QED BY <2>1, <2>2 DEF IInv
<1>2. ASSUME NEW r \in Request, Handle(r) PROVE IInv'
  BY <1>2, ArriveIInv, FindSlotIInv, AcquireSlotIInv, AcceptAddressIInv,
    ReturnIInv, DropPermitIInv, DropReferenceIInv, DropGlobalIInv DEF Handle
<1>3. CASE UNCHANGED vars
  BY <1>3 DEF vars, IInv, TypeOK, References, SharedSemaphore, PermitsConserved,
    HoldsGlobal, Holders
<1> QED BY <1>1, <1>2, <1>3 DEF Next

-----------------------------------------------------------------------------
(* The types of PublicLimits hold: no semaphore of enforce_public_limits   *)
(* ever has more permits than it was created with.                         *)
THEOREM PublicLimitsTyped == Spec => []TypeOK
BY InitIInv, NextIInv, PTL DEF Spec, IInv

(* Every permit that enforce_public_limits takes is held or comes back.    *)
THEOREM PublicPermitsConserved == Spec => []PermitsConserved
BY InitIInv, NextIInv, PTL DEF Spec, IInv

(* The retain of a full address table never separates a request from its   *)
(* address's semaphore.                                                    *)
THEOREM EvictionKeepsSharing == Spec => []SharedSemaphore
<1>1. IInv => SharedSemaphore
  BY DEF IInv, References
<1> QED BY InitIInv, NextIInv, <1>1, PTL DEF Spec

(* At most PerAddressConcurrency requests of an address are served at once *)
(* by enforce_public_limits, for every number of requests and addresses.   *)
THEOREM AddressLimitHolds == Spec => []AddressConcurrencyBound
<1>1. IInv => AddressConcurrencyBound
  <2> SUFFICES ASSUME IInv, NEW a \in Address
               PROVE  Cardinality({r \in Request : client[r] = a /\ pc[r] \in PermitPhase})
                        <= PerAddressConcurrency
    BY Zenon DEF AddressConcurrencyBound
  <2> DEFINE served == {r \in Request : client[r] = a /\ pc[r] \in PermitPhase}
  <2> USE DEF IInv
  <2>1. CASE served = {}
    BY <2>1, FS_EmptySet, LimitsAssumption
  <2>2. CASE served # {}
    <3>1. PICK s \in Sem : s = address_slots[a] /\ s # None
      BY <2>2 DEF TypeOK, References, RefPhase, SharedSemaphore
    <3>2. served \in SUBSET Holders(s)
      BY Zenon, <3>1 DEF References, RefPhase, SharedSemaphore, Holders
    <3>3. Cardinality(served) <= Cardinality(Holders(s)) /\ Cardinality(served) \in Nat
      BY Zenon, <3>2, Counts, FS_Subset, FS_CardinalityType
    <3>4. permits[s] + Cardinality(Holders(s)) = PerAddressConcurrency
      BY Zenon, <3>1 DEF PermitsConserved
    <3> QED BY <3>3, <3>4, Counts, LimitsAssumption DEF TypeOK
  <2> QED BY Zenon, <2>1, <2>2
<1> QED BY InitIInv, NextIInv, <1>1, PTL DEF Spec

-----------------------------------------------------------------------------
(* The clients of some requests are finitely many.                         *)
LEMMA ClientsFinite ==
  ASSUME TypeOK, NEW S \in SUBSET Request
  PROVE  IsFiniteSet({client[q] : q \in S})
<1> DEFINE T == {client[q] : q \in S}  f == [q \in S |-> client[q]]
<1>1. f \in Surjection(S, T)
  BY DEF Surjection
<1> HIDE DEF f, T
<1>2. IsFiniteSet(T)
  BY <1>1, RequestSets, FS_Surjection
<1> QED BY Zenon, <1>2 DEF T

(* A table that is full after the retain: each entry is of another address *)
(* with a request that refers to it.                                       *)
LEMMA TableTurnsAway ==
  ASSUME IInv, NEW r \in Request, pc[r] = "global",
         TableFull(Evicted(address_slots, client[r]), client[r])
  PROVE  Cardinality({client[q] : q \in {p \in Request \ {r} : ref[p] # None}} \ {client[r]})
           >= ADDRESS_CAPACITY
<1> DEFINE a      == client[r]
           kept   == Evicted(address_slots, a)
           others == {p \in Request \ {r} : ref[p] # None}
           busy   == {client[q] : q \in others} \ {a}
<1> USE DEF IInv
<1>1. /\ a \in Address /\ ref[r] = None /\ kept[a] = None
      /\ Cardinality(Known(kept)) >= ADDRESS_CAPACITY
  BY Zenon DEF References, RefPhase, PermitPhase, TableFull
<1>2. TableFull(address_slots, a)
  BY DEF Evicted
<1>3. kept = [b \in Address |-> IF Referenced(address_slots[b]) THEN address_slots[b] ELSE None]
  BY <1>2 DEF Evicted
<1>4. ASSUME NEW b \in Known(kept) PROVE b \in busy
  <2>1. b \in Address /\ b # a /\ address_slots[b] # None /\ Referenced(address_slots[b])
    BY <1>1, <1>3, <1>4 DEF Known
  <2>2. PICK q \in Request : ref[q] = address_slots[b]
    BY Zenon, <2>1 DEF Referenced
  <2>3. pc[q] \in RefPhase /\ client[q] \in Address /\ address_slots[client[q]] = address_slots[b]
    BY Zenon, <2>1, <2>2 DEF References, RefPhase, PermitPhase, SharedSemaphore
  <2>4. client[q] = b /\ q # r
    BY Zenon, <1>1, <2>1, <2>2, <2>3 DEF References
  <2> QED BY Zenon, <2>1, <2>2, <2>4
<1>5. IsFiniteSet(busy)
  <2>1. others \in SUBSET Request
    OBVIOUS
  <2>2. IsFiniteSet({client[q] : q \in others})
    BY Zenon, <2>1, ClientsFinite
  <2> QED BY Zenon, <2>2, FS_Subset
<1>6. /\ Cardinality(Known(kept)) <= Cardinality(busy)
      /\ Cardinality(Known(kept)) \in Nat /\ Cardinality(busy) \in Nat
  <2> HIDE DEF busy, kept
  <2>1. Known(kept) \in SUBSET busy
    BY Zenon, <1>4
  <2> QED BY Zenon, <1>5, <2>1, FS_Subset, FS_CardinalityType
<1> HIDE DEF busy, kept
<1>7. Cardinality(busy) >= ADDRESS_CAPACITY
  BY Zenon, <1>1, <1>6, AtLeast, WindowAssumption
<1> QED BY Zenon, <1>7 DEF busy

(* A semaphore without permits: requests of the same address hold them.    *)
LEMMA PermitsTaken ==
  ASSUME IInv, NEW r \in Request, pc[r] = "slot", ~ (permits[ref[r]] > 0)
  PROVE  Cardinality({q \in {p \in Request \ {r} : ref[p] # None} :
                        client[q] = client[r] /\ pc[q] \in PermitPhase})
           >= PerAddressConcurrency
<1> DEFINE same == {q \in {p \in Request \ {r} : ref[p] # None} :
                      client[q] = client[r] /\ pc[q] \in PermitPhase}
<1> USE DEF IInv
<1>1. PICK s \in Sem : /\ s = ref[r] /\ s # None
                       /\ address_slots[client[r]] = s /\ client[r] \in Address
  BY Zenon, LimitsAssumption DEF TypeOK, References, RefPhase, SharedSemaphore
<1>2. permits[s] = 0
  BY <1>1, LimitsAssumption DEF TypeOK
<1>3. Cardinality(Holders(s)) = PerAddressConcurrency
  <2>1. permits[s] + Cardinality(Holders(s)) = PerAddressConcurrency
    BY Zenon, <1>1 DEF PermitsConserved
  <2> QED BY <1>2, <2>1, Counts
<1>4. ASSUME NEW q \in Holders(s) PROVE q \in same
  <2>1. q \in Request /\ ref[q] = s /\ pc[q] \in PermitPhase /\ q # r
    BY Zenon, <1>4 DEF Holders, PermitPhase
  <2>2. client[q] \in Address /\ address_slots[client[q]] = s
    BY Zenon, <1>1, <2>1 DEF References, PermitPhase, SharedSemaphore
  <2>3. client[q] = client[r]
    BY Zenon, <1>1, <2>2 DEF References
  <2> QED BY Zenon, <1>1, <2>1, <2>3
<1>5. IsFiniteSet(same) /\ Cardinality(same) \in Nat
  <2>1. same \in SUBSET Request
    BY ZenonT(30)
  <2> QED BY Zenon, <2>1, RequestSets
<1> HIDE DEF same
<1>6. Cardinality(Holders(s)) <= Cardinality(same)
  BY Zenon, <1>4, <1>5, FS_Subset
<1>7. Cardinality(same) >= PerAddressConcurrency
  BY Zenon, <1>3, <1>5, <1>6, LimitsAssumption
<1> QED BY Zenon, <1>7 DEF same

(* enforce_public_limits answers address_capacity only while that many     *)
(* other addresses, or that many requests of the same one, are in flight:  *)
(* semaphores of idle addresses turn nobody away, whatever was evicted.    *)
THEOREM IdleLocksNobodyOut == Spec => NoLockout
<1>1. ASSUME IInv, [Next]_vars, NEW r \in Request, pc'[r] = "address_capacity",
             pc[r] # "address_capacity"
      PROVE  LET others == {q \in Request \ {r} : ref[q] # None} IN
               \/ Cardinality({client[q] : q \in others} \ {client[r]})
                    >= ADDRESS_CAPACITY
               \/ Cardinality({q \in others : /\ client[q] = client[r]
                                              /\ pc[q] \in PermitPhase})
                    >= PerAddressConcurrency
  <2>1. FindSlot(r) \/ AcquireSlot(r)
    <3>1. PICK q \in Request : Handle(q)
      BY SMTT(30), <1>1 DEF Next, Tick, vars
    <3>2. CASE q # r
      BY ZenonT(30), <1>1, <3>1, <3>2 DEF IInv, TypeOK, Handle, Arrive, FindSlot, AcquireSlot,
                                          AcceptAddress,
                              Return, DropPermit, DropReference, DropGlobal
    <3>3. CASE q = r
      BY Zenon, <1>1, <3>1, <3>3 DEF IInv, TypeOK, Handle, Arrive, AcceptAddress, Return,
                                        DropPermit,
                              DropReference, DropGlobal
    <3> QED BY <3>2, <3>3
  <2>2. CASE FindSlot(r)
    <3>1. pc[r] = "global" /\ TableFull(Evicted(address_slots, client[r]), client[r])
      BY Zenon, <1>1, <2>2 DEF FindSlot, IInv, TypeOK
    <3> QED BY ZenonT(30), <1>1, <3>1, TableTurnsAway
  <2>3. CASE AcquireSlot(r)
    <3>1. pc[r] = "slot" /\ ~ (permits[ref[r]] > 0)
      BY Zenon, <1>1, <2>3 DEF AcquireSlot, IInv, TypeOK
    <3> QED BY Zenon, <1>1, <3>1, PermitsTaken
  <2> QED BY Zenon, <2>1, <2>2, <2>3
<1>2. IInv /\ [Next]_vars =>
      [\A r \in Request :
         pc'[r] = "address_capacity" /\ pc[r] # "address_capacity" =>
           LET others == {q \in Request \ {r} : ref[q] # None} IN
             \/ Cardinality({client[q] : q \in others} \ {client[r]})
                  >= ADDRESS_CAPACITY
             \/ Cardinality({q \in others : /\ client[q] = client[r]
                                            /\ pc[q] \in PermitPhase})
                  >= PerAddressConcurrency]_vars
  BY Zenon, <1>1
<1> QED BY InitIInv, NextIInv, <1>2, PTL DEF Spec, NoLockout

-----------------------------------------------------------------------------
(* The address windows.                                                    *)

(* In a log of what was let through, a request comes a second after those  *)
(* that are two rates before it.                                           *)
LogOk(log, t) ==
  /\ log \in Seq(Nat)
  /\ \A j \in 1 .. Len(log) : log[j] <= t
  /\ \A i, j \in 1 .. Len(log) :
       i + 2 * RequestsPerAddressPerSecond <= j => log[i] + Second <= log[j]

(* A window from s on with c requests: those are the last of the log.  The *)
(* others are not younger than the window, and those a rate before it are  *)
(* older than it by a second.                                              *)
WindowOk(log, s, c, t) ==
  /\ s \in Nat /\ s <= t /\ c \in 0 .. RequestsPerAddressPerSecond /\ c <= Len(log)
  /\ \A j \in 1 .. Len(log) :
       /\ log[j] < s + Second
       /\ j + c <= Len(log) => log[j] <= s
       /\ j + c + RequestsPerAddressPerSecond <= Len(log) => log[j] + Second <= s

(* The log of an address without a window is a second old.                 *)
Aged(log, t) == \A j \in 1 .. Len(log) : log[j] + Second <= t

AddressOk(log, has, w, t) ==
  /\ LogOk(log, t)
  /\ has => WindowOk(log, w.started, w.requests, t)
  /\ ~has => Aged(log, t)

RateInv ==
  /\ clock \in Nat /\ passed \in [Address -> Seq(Nat)] /\ IsWindowMap(windows)
  /\ \A a \in Address : AddressOk(passed[a], a \in DOMAIN windows, windows[a], clock)

(* A window that is too old, or forgotten, makes room for an empty one.    *)
LEMMA FreshWindow ==
  ASSUME NEW log, NEW t \in Nat, LogOk(log, t),
         \/ Aged(log, t)
         \/ \E s, c : WindowOk(log, s, c, t) /\ t >= s + Second
  PROVE  WindowOk(log, t, 0, t)
<1> USE WindowAssumption
<1>1. Len(log) \in Nat /\ \A j \in 1 .. Len(log) : log[j] \in Nat /\ log[j] <= t
  BY DEF LogOk
<1>2. CASE Aged(log, t)
  BY <1>1, <1>2 DEF WindowOk, Aged
<1>3. ASSUME NEW s, NEW c, WindowOk(log, s, c, t), t >= s + Second
      PROVE  WindowOk(log, t, 0, t)
  <2>1. ASSUME NEW j \in 1 .. Len(log), j + RequestsPerAddressPerSecond <= Len(log)
        PROVE  log[j] + Second <= t
    <3>1. j + c <= Len(log) /\ s \in Nat
      BY <1>1, <1>3, <2>1 DEF WindowOk
    <3>2. log[j] <= s
      BY Zenon, <1>3, <3>1 DEF WindowOk
    <3> QED BY <1>1, <1>3, <3>1, <3>2
  <2> QED BY <1>1, <2>1 DEF WindowOk
<1> QED BY Zenon, <1>2, <1>3

LEMMA ForgottenWindow ==
  ASSUME NEW log, NEW t \in Nat, LogOk(log, t), NEW s, NEW c, WindowOk(log, s, c, t),
         ~ (t - s < 2 * Second)
  PROVE  Aged(log, t)
<1>1. Len(log) \in Nat /\ \A j \in 1 .. Len(log) : log[j] \in Nat
  BY DEF LogOk
<1>2. s \in Nat /\ \A j \in 1 .. Len(log) : log[j] < s + Second
  BY Zenon DEF WindowOk
<1> QED BY <1>1, <1>2, WindowAssumption DEF Aged

(* One more request in a window that is not full.                          *)
LEMMA OneMore ==
  ASSUME NEW log, NEW t \in Nat, LogOk(log, t), NEW s, NEW c, WindowOk(log, s, c, t),
         t < s + Second, c < RequestsPerAddressPerSecond, NEW new, new = Append(log, t)
  PROVE  LogOk(new, t) /\ WindowOk(new, s, c + 1, t)
<1>1. /\ log \in Seq(Nat) /\ Len(log) \in Nat /\ s \in Nat /\ s <= t /\ c \in Nat /\ c <= Len(log)
      /\ RequestsPerAddressPerSecond \in Nat \ {0} /\ Second \in Nat \ {0}
  BY WindowAssumption DEF LogOk, WindowOk
<1>2. /\ new \in Seq(Nat) /\ Len(new) = Len(log) + 1 /\ new[Len(log) + 1] = t
      /\ \A j \in 1 .. Len(log) : new[j] = log[j]
  BY <1>1
<1>3. \A j \in 1 .. Len(new) : j = Len(log) + 1 \/ j \in 1 .. Len(log)
  BY <1>1, <1>2
<1>4. \A j \in 1 .. Len(log) : log[j] \in Nat /\ log[j] <= t /\ log[j] < s + Second
  BY <1>1 DEF LogOk, WindowOk
<1>5. \A j \in 1 .. Len(new) : new[j] \in Nat /\ new[j] <= t /\ new[j] < s + Second
  BY <1>1, <1>2, <1>3, <1>4
<1>7. ASSUME NEW i \in 1 .. Len(new), NEW j \in 1 .. Len(new),
             i + 2 * RequestsPerAddressPerSecond <= j
      PROVE  new[i] + Second <= new[j]
  <2>1. i \in 1 .. Len(log)
    BY <1>1, <1>2, <1>7
  <2>2. CASE j = Len(log) + 1
    <3>1. i + c + RequestsPerAddressPerSecond <= Len(log)
      BY <1>1, <1>7, <2>2
    <3>2. log[i] + Second <= s
      BY Zenon, <2>1, <3>1 DEF WindowOk
    <3> QED BY <1>1, <1>2, <1>4, <2>1, <2>2, <3>2
  <2>3. CASE j \in 1 .. Len(log)
    BY Zenon, <1>2, <1>7, <2>1, <2>3 DEF LogOk
  <2> QED BY Zenon, <1>3, <2>2, <2>3
<1>8. LogOk(new, t)
  BY Zenon, <1>2, <1>5, <1>7 DEF LogOk
<1>9. ASSUME NEW j \in 1 .. Len(new)
      PROVE  /\ j + (c + 1) <= Len(new) => new[j] <= s
             /\ j + (c + 1) + RequestsPerAddressPerSecond <= Len(new) => new[j] + Second <= s
  <2>1. CASE j = Len(log) + 1
    BY <1>1, <1>2, <2>1
  <2>2. CASE j \in 1 .. Len(log)
    <3>1. /\ j + (c + 1) <= Len(new) => j + c <= Len(log)
          /\ j + (c + 1) + RequestsPerAddressPerSecond <= Len(new)
               => j + c + RequestsPerAddressPerSecond <= Len(log)
      BY <1>1, <1>2, <2>2
    <3> QED BY Zenon, <1>2, <2>2, <3>1 DEF WindowOk
  <2> QED BY Zenon, <1>3, <2>1, <2>2
<1>10. c + 1 \in 0 .. RequestsPerAddressPerSecond /\ c + 1 <= Len(new)
  BY <1>1, <1>2
<1> QED BY Zenon, <1>1, <1>5, <1>8, <1>9, <1>10 DEF WindowOk

LEMMA Later ==
  ASSUME NEW log, NEW has, NEW w, NEW t \in Nat, AddressOk(log, has, w, t)
  PROVE  AddressOk(log, has, w, t + 1)
<1>1. Len(log) \in Nat /\ \A j \in 1 .. Len(log) : log[j] \in Nat
  BY DEF AddressOk, LogOk
<1>2. LogOk(log, t + 1)
  BY <1>1 DEF AddressOk, LogOk
<1>3. has => WindowOk(log, w.started, w.requests, t + 1)
  <2>1. ASSUME has PROVE w.started <= t + 1
    <3>1. w.started \in Nat /\ w.started <= t
      BY Zenon, <2>1 DEF AddressOk, WindowOk
    <3> QED BY <3>1
  <2> QED BY Zenon, <2>1 DEF AddressOk, WindowOk
<1>4. ~has => Aged(log, t + 1)
  BY <1>1, WindowAssumption DEF AddressOk, Aged
<1> QED BY Zenon, <1>2, <1>3, <1>4 DEF AddressOk

LEMMA StillOk ==
  ASSUME RateInv, NEW kept, kept = Retained(windows, clock)
  PROVE  IsWindowMap(kept) /\ \A a \in Address : AddressOk(passed[a], a \in DOMAIN kept, kept[a], clock)
<1>1. /\ clock \in Nat /\ DOMAIN windows \subseteq Address
      /\ windows \in [DOMAIN windows -> AddrWindow]
  BY Zenon DEF RateInv, IsWindowMap
<1>2. /\ DOMAIN kept = {b \in DOMAIN windows : clock - windows[b].started < 2 * Second}
      /\ \A b \in DOMAIN kept : kept[b] = windows[b]
      /\ kept = [b \in DOMAIN kept |-> kept[b]]
  BY Zenon DEF Retained
<1>3. IsWindowMap(kept)
  BY Zenon, <1>1, <1>2 DEF IsWindowMap
<1>4. ASSUME NEW a \in Address
      PROVE  AddressOk(passed[a], a \in DOMAIN kept, kept[a], clock)
  <2>1. AddressOk(passed[a], a \in DOMAIN windows, windows[a], clock)
    BY Zenon DEF RateInv
  <2>2. CASE a \in DOMAIN kept
    BY Zenon, <1>2, <2>1, <2>2 DEF AddressOk
  <2>3. CASE a \notin DOMAIN windows
    BY Zenon, <1>2, <2>1, <2>3 DEF AddressOk
  <2>4. CASE a \in DOMAIN windows /\ a \notin DOMAIN kept
    <3>1. ~ (clock - windows[a].started < 2 * Second)
      BY Zenon, <1>2, <2>4
    <3>2. LogOk(passed[a], clock) /\ WindowOk(passed[a], windows[a].started, windows[a].requests, clock)
      BY Zenon, <2>1, <2>4 DEF AddressOk
    <3>3. Aged(passed[a], clock)
      BY Zenon, <1>1, <3>1, <3>2, ForgottenWindow
    <3> QED BY Zenon, <2>4, <3>2, <3>3 DEF AddressOk
  <2> QED BY Zenon, <2>2, <2>3, <2>4
<1> QED BY Zenon, <1>3, <1>4

LEMMA WindowToUse ==
  ASSUME NEW kept, IsWindowMap(kept), NEW a \in Address, NEW t \in Nat, NEW log,
         AddressOk(log, a \in DOMAIN kept, kept[a], t), NEW old, old = WindowOf(kept, a, t)
  PROVE  old \in AddrWindow /\ WindowOk(log, old.started, old.requests, t) /\ t < old.started + Second
<1>1. CASE a \in DOMAIN kept /\ t - kept[a].started < Second
  <2>1. old = kept[a] /\ old \in AddrWindow
    BY Zenon, <1>1 DEF WindowOf, IsWindowMap
  <2>2. old.started \in Nat
    BY <2>1 DEF AddrWindow
  <2> QED BY <1>1, <2>1, <2>2, WindowAssumption DEF AddressOk
<1>2. CASE ~ (a \in DOMAIN kept /\ t - kept[a].started < Second)
  <2>1. old = [started |-> t, requests |-> 0]
    BY Zenon, <1>2 DEF WindowOf
  <2>2. old \in AddrWindow /\ old.started = t /\ old.requests = 0 /\ t < old.started + Second
    BY <2>1, WindowAssumption DEF AddrWindow
  <2>3. CASE a \in DOMAIN kept
    <3>1. LogOk(log, t) /\ WindowOk(log, kept[a].started, kept[a].requests, t)
      BY Zenon, <2>3 DEF AddressOk
    <3>2. kept[a].started \in Nat
      BY Zenon, <3>1 DEF WindowOk
    <3>3. t >= kept[a].started + Second
      BY <1>2, <2>3, <3>2, WindowAssumption
    <3> QED BY Zenon, <2>2, <3>1, <3>3, FreshWindow
  <2>4. CASE a \notin DOMAIN kept
    BY Zenon, <2>2, <2>4, FreshWindow DEF AddressOk
  <2> QED BY Zenon, <2>3, <2>4
<1> QED BY Zenon, <1>1, <1>2

LEMMA AcceptStep ==
  ASSUME RateInv, NEW a \in Address, accept_address(a)
  PROVE  RateInv'
<1>1. PICK kept : kept = Retained(windows, clock)
  BY Zenon
<1>2. /\ clock \in Nat /\ clock' = clock /\ passed \in [Address -> Seq(Nat)] /\ IsWindowMap(kept)
      /\ \A b \in Address : AddressOk(passed[b], b \in DOMAIN kept, kept[b], clock)
  BY Zenon, <1>1, StillOk DEF RateInv, accept_address
<1>3. CASE NoWindowFor(kept, a)
  <2>1. windows' = kept /\ passed' = passed
    BY Zenon, <1>1, <1>3 DEF accept_address, WindowsAfter, AcceptsAddress
  <2> QED BY Zenon, <1>2, <2>1 DEF RateInv
<1>4. CASE ~NoWindowFor(kept, a)
  <2>1. PICK old : old = WindowOf(kept, a, clock)
    BY Zenon
  <2>2. /\ old \in AddrWindow /\ WindowOk(passed[a], old.started, old.requests, clock)
        /\ clock < old.started + Second /\ LogOk(passed[a], clock)
    BY Zenon, <1>2, <2>1, WindowToUse DEF AddressOk
  <2>3. PICK new : new = IF AcceptsAddress(windows, a, clock)
                         THEN [old EXCEPT !.requests = @ + 1] ELSE old
    BY Zenon
  <2>4. windows' = [b \in DOMAIN kept \cup {a} |-> IF b = a THEN new ELSE kept[b]]
    BY Zenon, <1>1, <1>4, <2>1, <2>3 DEF accept_address, WindowsAfter
  <2>5. /\ new \in AddrWindow /\ passed' \in [Address -> Seq(Nat)]
        /\ \A b \in Address : b # a => passed'[b] = passed[b]
        /\ LogOk(passed'[a], clock) /\ WindowOk(passed'[a], new.started, new.requests, clock)
    <3>1. CASE AcceptsAddress(windows, a, clock)
      <4>1. old.requests < RequestsPerAddressPerSecond
        BY Zenon, <1>1, <2>1, <3>1 DEF AcceptsAddress
      <4>2. new \in AddrWindow /\ new.started = old.started /\ new.requests = old.requests + 1
        BY <2>2, <2>3, <3>1, <4>1, WindowAssumption DEF AddrWindow
      <4>3. passed' = [passed EXCEPT ![a] = Append(passed[a], clock)]
        BY Zenon, <3>1 DEF accept_address
      <4>4. Append(passed[a], clock) \in Seq(Nat)
        BY <1>2
      <4>5. passed'[a] = Append(passed[a], clock)
        BY Zenon, <1>2, <4>3
      <4>6. LogOk(passed'[a], clock) /\ WindowOk(passed'[a], old.started, old.requests + 1, clock)
        BY Zenon, <1>2, <2>2, <4>1, <4>5, OneMore
      <4> QED BY Zenon, <1>2, <4>2, <4>3, <4>4, <4>6
    <3>2. CASE ~AcceptsAddress(windows, a, clock)
      <4>1. passed' = passed /\ new = old
        BY Zenon, <2>3, <3>2 DEF accept_address
      <4> QED BY Zenon, <1>2, <2>2, <4>1
    <3> QED BY Zenon, <3>1, <3>2
  <2>6. /\ DOMAIN windows' = DOMAIN kept \cup {a} /\ windows'[a] = new
        /\ \A b \in DOMAIN kept : b # a => windows'[b] = kept[b]
    BY Zenon, <2>4
  <2>7. IsWindowMap(windows)'
    <3>1. DOMAIN windows' \subseteq Address
      BY Zenon, <1>2, <2>6 DEF IsWindowMap
    <3>2. \A b \in DOMAIN windows' : windows'[b] \in AddrWindow
      BY Zenon, <1>2, <2>5, <2>6 DEF IsWindowMap
    <3>3. windows' = [b \in DOMAIN windows' |-> windows'[b]]
      BY Zenon, <2>4
    <3> QED BY Zenon, <3>1, <3>2, <3>3 DEF IsWindowMap
  <2>8. ASSUME NEW b \in Address
        PROVE  AddressOk(passed'[b], b \in DOMAIN windows', windows'[b], clock')
    <3>1. CASE b = a
      BY Zenon, <1>2, <2>5, <2>6, <3>1 DEF AddressOk
    <3>2. CASE b # a
      <4>1. AddressOk(passed'[b], b \in DOMAIN kept, kept[b], clock')
        BY Zenon, <1>2, <2>5, <3>2
      <4>2. (b \in DOMAIN windows') <=> (b \in DOMAIN kept)
        BY Zenon, <2>6, <3>2
      <4> QED BY Zenon, <2>6, <3>2, <4>1, <4>2 DEF AddressOk
    <3> QED BY Zenon, <3>1, <3>2
  <2> QED BY Zenon, <1>2, <2>5, <2>7, <2>8 DEF RateInv
<1> QED BY Zenon, <1>3, <1>4

(* The entries of a log in one second are at most two rates.               *)
LEMMA LogBound ==
  ASSUME NEW log, NEW t, LogOk(log, t), NEW i \in 1 .. Len(log)
  PROVE  Cardinality(InSecondOf(log, i)) <= 2 * RequestsPerAddressPerSecond
<1>1. PICK T : T = InSecondOf(log, i)
  BY Zenon
<1>2. /\ Len(log) \in Nat /\ i \in Nat /\ \A j \in 1 .. Len(log) : log[j] \in Nat
      /\ RequestsPerAddressPerSecond \in Nat \ {0} /\ Second \in Nat \ {0}
  BY WindowAssumption DEF LogOk
<1>3. PICK top \in Nat : top = i + 2 * RequestsPerAddressPerSecond - 1
  BY <1>2
<1>4. ASSUME NEW j \in T PROVE j \in i .. top
  <2>1. j \in i .. Len(log) /\ log[j] < log[i] + Second
    BY Zenon, <1>1 DEF InSecondOf
  <2>2. j \in 1 .. Len(log)
    BY <1>2, <2>1
  <2>3. CASE i + 2 * RequestsPerAddressPerSecond <= j
    <3>1. log[i] + Second <= log[j]
      BY Zenon, <2>2, <2>3 DEF LogOk
    <3> QED BY <1>2, <2>1, <2>2, <3>1
  <2>4. CASE ~ (i + 2 * RequestsPerAddressPerSecond <= j)
    BY <1>2, <1>3, <2>1, <2>4
  <2> QED BY Zenon, <2>3, <2>4
<1>5. /\ i \in Int /\ top \in Int /\ ~ (i > top)
      /\ top - i + 1 = 2 * RequestsPerAddressPerSecond
  BY <1>2, <1>3
<1>6. IsFiniteSet(i .. top) /\ Cardinality(i .. top) = 2 * RequestsPerAddressPerSecond
  BY Zenon, <1>5, FS_Interval
<1>7. Cardinality(T) <= Cardinality(i .. top)
  BY Zenon, <1>4, <1>6, FS_Subset
<1> QED BY Zenon, <1>1, <1>6, <1>7

(* accept_address keeps a window per address, forgets the old ones and     *)
(* starts new ones when a request comes.  For every rate, table size, set  *)
(* of addresses, length of the second and run of the clock, it lets at     *)
(* most twice the rate of an address through in any second.                *)
THEOREM RateAlwaysBounded == RateSpec => []SlidingSecondBound
<1>1. RateInit => RateInv
  <2> SUFFICES ASSUME RateInit PROVE RateInv
    OBVIOUS
  <2>1. /\ clock = 0 /\ DOMAIN windows = {} /\ windows \in [{} -> AddrWindow]
        /\ passed \in [Address -> Seq(Nat)] /\ \A a \in Address : passed[a] = <<>>
    BY DEF RateInit
  <2>2. LogOk(<<>>, 0) /\ Aged(<<>>, 0)
    BY DEF LogOk, Aged
  <2>3. IsWindowMap(windows)
    BY Zenon, <2>1 DEF IsWindowMap
  <2>4. 0 \in Nat
    OBVIOUS
  <2> QED BY Zenon, <2>1, <2>2, <2>3, <2>4 DEF RateInv, AddressOk
<1>2. RateInv /\ [RateNext]_rateVars => RateInv'
  <2> SUFFICES ASSUME RateInv, [RateNext]_rateVars PROVE RateInv'
    OBVIOUS
  <2>1. CASE UNCHANGED rateVars
    BY Zenon, <2>1 DEF RateInv, rateVars
  <2>2. CASE ClockTick
    <3>1. clock \in Nat /\ clock' = clock + 1 /\ windows' = windows /\ passed' = passed
      BY Zenon, <2>2 DEF ClockTick, RateInv
    <3>2. clock' \in Nat
      BY <3>1
    <3>3. ASSUME NEW a \in Address
          PROVE  AddressOk(passed[a], a \in DOMAIN windows, windows[a], clock + 1)
      BY Zenon, <3>1, Later DEF RateInv
    <3> QED BY Zenon, <3>1, <3>2, <3>3 DEF RateInv
  <2> QED BY Zenon, <2>1, <2>2, AcceptStep DEF RateNext
<1>3. RateInv => SlidingSecondBound
  <2> SUFFICES ASSUME RateInv, NEW a \in Address, NEW i \in DOMAIN passed[a]
               PROVE  Cardinality(InSecondOf(passed[a], i)) <= 2 * RequestsPerAddressPerSecond
    BY Zenon DEF SlidingSecondBound
  <2>1. LogOk(passed[a], clock) /\ passed[a] \in Seq(Nat)
    BY Zenon DEF RateInv, AddressOk, LogOk
  <2>2. i \in 1 .. Len(passed[a])
    BY <2>1
  <2> QED BY Zenon, <2>1, <2>2, LogBound
<1> QED BY <1>1, <1>2, <1>3, PTL DEF RateSpec
=============================================================================
