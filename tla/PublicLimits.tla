---------------------------- MODULE PublicLimits ----------------------------
(* The gateway's public request middleware, `enforce_public_limits`        *)
(* (services/gateway/src/protection.rs), run by concurrent requests.       *)
(*                                                                         *)
(* A slot of `Request` is one request in flight; when it is answered the   *)
(* slot is free for the next one.  The semaphore of an address is a heap   *)
(* object: `address_slots` maps the address to it and a request keeps a    *)
(* reference (a cloned Arc, then the permit) from the locked section until *)
(* it ends, so the object outlives its eviction from the map.  Each step   *)
(* is one atomic section of the handler; requests interleave between them. *)
EXTENDS AddressWindow

CONSTANTS
  Request,                          \* requests that can be in flight
  Sem,                              \* heap objects for address semaphores
  GlobalRequestConcurrency,         \* global_request_concurrency
  PerAddressConcurrency,            \* per_address_concurrency
  MaxTime,                          \* bound: the clock stops here
  None                              \* no address, no semaphore

ASSUME LimitsAssumption ==
  /\ IsFiniteSet(Request)
  /\ GlobalRequestConcurrency \in Nat \ {0}
  /\ PerAddressConcurrency \in Nat \ {0}
  /\ None \notin Address /\ None \notin Sem

VARIABLES
  pc,                               \* where each request is in the handler
  client,                           \* its client address
  ref,                              \* the semaphore it holds a reference to
  public_requests,                  \* permits left in the global semaphore
  address_slots,                    \* the map Address -> semaphore
  permits,                          \* permits left in each semaphore
  addresses,                        \* the windows of AddressWindow
  now                               \* Instant::now()

vars == <<pc, client, ref, public_requests, address_slots, permits,
          addresses, now>>

(* "idle" no request; "global" holds the global permit; "slot" has a clone *)
(* of the address semaphore; "permit" has its permit; "running" is inside  *)
(* next.run.  The refusals and "returned" drop what the request holds:     *)
(* the address permit ("released" after it), the reference inside the      *)
(* permit ("unreferenced" after it) and last the global permit.            *)
Refusal == {"request_capacity", "address_capacity", "address_rate_limited"}
Phase   == {"idle", "global", "slot", "permit", "running", "returned",
            "released", "unreferenced"} \cup Refusal

(* Requests that hold the global permit, an address permit, a reference.   *)
HoldsGlobal  == {r \in Request : pc[r] \notin {"idle", "request_capacity"}}
PermitPhase  == {"permit", "running", "returned", "address_rate_limited"}
Holders(s)   == {r \in Request : ref[r] = s /\ pc[r] \in PermitPhase}

(* Arc::strong_count(slot) > 1: a reference besides the map's own.         *)
Referenced(s) == \E r \in Request : ref[r] = s

TypeOK ==
  /\ pc \in [Request -> Phase]
  /\ client \in [Request -> Address \cup {None}]
  /\ ref \in [Request -> Sem \cup {None}]
  /\ public_requests \in 0 .. GlobalRequestConcurrency
  /\ address_slots \in [Address -> Sem \cup {None}]
  /\ permits \in [Sem -> 0 .. PerAddressConcurrency]
  /\ IsWindowMap(addresses)
  /\ now \in Nat

Init ==
  /\ pc = [r \in Request |-> "idle"]
  /\ client = [r \in Request |-> None]
  /\ ref = [r \in Request |-> None]
  /\ public_requests = GlobalRequestConcurrency
  /\ address_slots = [a \in Address |-> None]
  /\ permits = [s \in Sem |-> PerAddressConcurrency]
  /\ addresses = << >>
  /\ now = 0

(* Lines up to the global permit.  Requests refused for their headers, URI *)
(* or forwarding headers hold nothing and change nothing.                  *)
Arrive(r, a) ==
  /\ pc[r] = "idle"
  /\ IF public_requests > 0
     THEN /\ pc' = [pc EXCEPT ![r] = "global"]
          /\ client' = [client EXCEPT ![r] = a]
          /\ public_requests' = public_requests - 1
     ELSE /\ pc' = [pc EXCEPT ![r] = "request_capacity"]
          /\ UNCHANGED <<client, public_requests>>
  /\ UNCHANGED <<ref, address_slots, permits, addresses, now>>

Known(slots) == {a \in Address : slots[a] # None}

TableFull(slots, a) ==
  slots[a] = None /\ Cardinality(Known(slots)) >= ADDRESS_CAPACITY

(* Mutants: a full table keeps everything, or forgets the semaphores that  *)
(* have all their permits.                                                 *)
EvictedNever(slots, a) == slots
EvictedWhenAvailable(slots, a) ==
  IF TableFull(slots, a)
  THEN [b \in Address |-> IF Holders(slots[b]) # {} THEN slots[b] ELSE None]
  ELSE slots

(* A full table forgets the semaphores nobody refers to.                   *)
Evicted(slots, a) ==
  IF TableFull(slots, a)
  THEN [b \in Address |-> IF Referenced(slots[b]) THEN slots[b] ELSE None]
  ELSE slots

(* Arc::new: an object nothing refers to; which one is immaterial.         *)
Unused(slots) ==
  {s \in Sem : ~ Referenced(s) /\ \A a \in Address : slots[a] # s}
NewSem(slots) == CHOOSE s \in Unused(slots) : TRUE

(* The section under the address_slots lock.                               *)
FindSlot(r) ==
  LET a    == client[r]
      kept == Evicted(address_slots, a)
  IN
  /\ pc[r] = "global"
  /\ \/ /\ TableFull(kept, a)
        /\ pc' = [pc EXCEPT ![r] = "address_capacity"]
        /\ address_slots' = kept
        /\ UNCHANGED <<ref, permits>>
     \/ /\ kept[a] # None
        /\ pc' = [pc EXCEPT ![r] = "slot"]
        /\ ref' = [ref EXCEPT ![r] = kept[a]]
        /\ address_slots' = kept
        /\ UNCHANGED permits
     \/ /\ kept[a] = None /\ ~ TableFull(kept, a)
        /\ Unused(kept) # {}
        /\ pc' = [pc EXCEPT ![r] = "slot"]
        /\ ref' = [ref EXCEPT ![r] = NewSem(kept)]
        /\ address_slots' = [kept EXCEPT ![a] = NewSem(kept)]
        /\ permits' = [permits EXCEPT ![NewSem(kept)] = PerAddressConcurrency]
  /\ UNCHANGED <<client, public_requests, addresses, now>>

(* try_acquire_owned outside the lock; a failure drops the clone.          *)
AcquireSlot(r) ==
  /\ pc[r] = "slot"
  /\ IF permits[ref[r]] > 0
     THEN /\ pc' = [pc EXCEPT ![r] = "permit"]
          /\ permits' = [permits EXCEPT ![ref[r]] = @ - 1]
          /\ UNCHANGED ref
     ELSE /\ pc' = [pc EXCEPT ![r] = "address_capacity"]
          /\ ref' = [ref EXCEPT ![r] = None]
          /\ UNCHANGED permits
  /\ UNCHANGED <<client, public_requests, address_slots, addresses, now>>

AcceptAddress(r) ==
  /\ pc[r] = "permit"
  /\ addresses' = WindowsAfter(addresses, client[r], now)
  /\ pc' = [pc EXCEPT ![r] =
       IF AcceptsAddress(addresses, client[r], now)
       THEN "running" ELSE "address_rate_limited"]
  /\ UNCHANGED <<client, ref, public_requests, address_slots, permits, now>>

(* next.run answers, or the connection closes and the future is dropped.   *)
Return(r) ==
  /\ pc[r] = "running"
  /\ pc' = [pc EXCEPT ![r] = "returned"]
  /\ UNCHANGED <<client, ref, public_requests, address_slots, permits,
                 addresses, now>>

(* The locals are dropped in reverse order of their declaration.           *)
DropPermit(r) ==
  /\ pc[r] \in {"returned", "address_rate_limited"}
  /\ permits' = [permits EXCEPT ![ref[r]] = @ + 1]
  /\ pc' = [pc EXCEPT ![r] = "released"]
  /\ UNCHANGED <<client, ref, public_requests, address_slots, addresses, now>>

DropReference(r) ==
  /\ pc[r] = "released"
  /\ ref' = [ref EXCEPT ![r] = None]
  /\ pc' = [pc EXCEPT ![r] = "unreferenced"]
  /\ UNCHANGED <<client, public_requests, address_slots, permits, addresses,
                 now>>

DropGlobal(r) ==
  /\ pc[r] \in {"unreferenced", "address_capacity", "request_capacity"}
  /\ public_requests' =
       IF r \in HoldsGlobal THEN public_requests + 1 ELSE public_requests
  /\ pc' = [pc EXCEPT ![r] = "idle"]
  /\ client' = [client EXCEPT ![r] = None]
  /\ UNCHANGED <<ref, address_slots, permits, addresses, now>>

Tick ==
  /\ now < MaxTime
  /\ now' = now + 1
  /\ UNCHANGED <<pc, client, ref, public_requests, address_slots, permits,
                 addresses>>

Handle(r) ==
  \/ \E a \in Address : Arrive(r, a)
  \/ FindSlot(r) \/ AcquireSlot(r) \/ AcceptAddress(r) \/ Return(r)
  \/ DropPermit(r) \/ DropReference(r) \/ DropGlobal(r)

Next == Tick \/ \E r \in Request : Handle(r)

Spec == Init /\ [][Next]_vars

-----------------------------------------------------------------------------
(* At most PerAddressConcurrency requests of one address are past the      *)
(* address permit, even though the semaphore that counts them is created,  *)
(* evicted and created again under a full table: the comment at            *)
(* protection.rs:209 is what makes the eviction safe.                      *)
AddressConcurrencyBound ==
  \A a \in Address :
    Cardinality({r \in Request : client[r] = a /\ pc[r] \in PermitPhase})
      <= PerAddressConcurrency

(* All requests in flight of one address share the semaphore the map has   *)
(* for that address: the retain in the locked section never drops a        *)
(* semaphore that is still in use.                                         *)
SharedSemaphore ==
  \A r \in Request : ref[r] # None => address_slots[client[r]] = ref[r]

(* Every permit taken comes back: what the global semaphore and the        *)
(* semaphores in the map lack is held by requests that are still there,    *)
(* on every refusal and drop path of the handler.                          *)
PermitsConserved ==
  /\ public_requests + Cardinality(HoldsGlobal) = GlobalRequestConcurrency
  /\ \A a \in Address : address_slots[a] # None =>
       permits[address_slots[a]] + Cardinality(Holders(address_slots[a]))
         = PerAddressConcurrency

(* Idle addresses do not lock out a new one: the table turns an address    *)
(* away only while ADDRESS_CAPACITY other addresses have a request in      *)
(* flight, and a known address only while all its permits are taken.       *)
NoLockout ==
  [][\A r \in Request :
       pc'[r] = "address_capacity" /\ pc[r] # "address_capacity" =>
         LET others == {q \in Request \ {r} : ref[q] # None} IN
           \/ Cardinality({client[q] : q \in others} \ {client[r]})
                >= ADDRESS_CAPACITY
           \/ Cardinality({q \in others : /\ client[q] = client[r]
                                          /\ pc[q] \in PermitPhase})
                >= PerAddressConcurrency]_vars
=============================================================================
