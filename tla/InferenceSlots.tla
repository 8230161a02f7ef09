--------------------------- MODULE InferenceSlots ---------------------------
(* `ProtectionState::inference_permits` and the `InferencePermits` it      *)
(* returns (services/gateway/src/protection.rs): one key permit, one       *)
(* admission permit (running or queued) and one execution permit, for      *)
(* which a request waits in FIFO order until queue_timeout.                *)
(*                                                                         *)
(* A slot of `Request` is one call; it is used again after it ended.  The  *)
(* future of a request can be dropped at its await, when the client goes   *)
(* away: what it holds is then released in the order Rust drops it.        *)
EXTENDS Integers, Sequences, FiniteSets, Functions

CONSTANTS
  Request, Key, NoKey,
  InferenceConcurrency,             \* inference_concurrency
  InferenceQueue,                   \* inference_queue
  PerKeyConcurrency                 \* per_key_concurrency

ASSUME SlotsAssumption ==
  /\ IsFiniteSet(Request)
  /\ NoKey \notin Key
  /\ InferenceConcurrency \in Nat \ {0}
  /\ InferenceQueue \in Nat
  /\ PerKeyConcurrency \in Nat \ {0}

VARIABLES
  stage,                            \* where each call is
  key,                              \* the key it authenticated with
  drops,                            \* the permits it has yet to drop, in order
  key_slots,                        \* permits left per key
  inference_admission,              \* permits left to run or queue
  inference_slots,                  \* permits left to run
  waiters                           \* FIFO of the execution semaphore

slotVars == <<stage, key, drops, key_slots, inference_admission,
              inference_slots, waiters>>

(* "assigned": the semaphore gave the permit to the waiter, whose task has *)
(* not run since.  "refused" and "dropping" release what is left in drops; *)
(* the first answers CapacityError.                                        *)
Stage  == {"out", "key", "admitted", "waiting", "assigned", "executing",
           "refused", "dropping"}
Permit == {"key", "admission", "execution"}

Holds(r, p) ==
  \/ p \in Range(drops[r])
  \/ stage[r] \in CASE p = "key"       -> {"key", "admitted", "waiting", "assigned", "executing"}
                    [] p = "admission" -> {"admitted", "waiting", "assigned", "executing"}
                    [] p = "execution" -> {"assigned", "executing"}

Holders(p) == {r \in Request : Holds(r, p)}

(* ProtectionState::new                                                    *)
SlotsInit ==
  /\ stage = [r \in Request |-> "out"]
  /\ key = [r \in Request |-> NoKey]
  /\ drops = [r \in Request |-> << >>]
  /\ key_slots = [k \in Key |-> PerKeyConcurrency]
  /\ inference_admission = InferenceConcurrency + InferenceQueue
  /\ inference_slots = InferenceConcurrency
  /\ waiters = << >>

-----------------------------------------------------------------------------
(* inference_permits, up to its only await                                 *)

(* The key's semaphore is created on first use and never removed.          *)
AcquireKey(r, k) ==
  /\ stage[r] = "out"
  /\ key' = [key EXCEPT ![r] = k]
  /\ IF key_slots[k] > 0
     THEN /\ stage' = [stage EXCEPT ![r] = "key"]
          /\ key_slots' = [key_slots EXCEPT ![k] = @ - 1]
     ELSE /\ stage' = [stage EXCEPT ![r] = "refused"]
          /\ UNCHANGED key_slots
  /\ UNCHANGED <<drops, inference_admission, inference_slots, waiters>>

AcquireAdmission(r) ==
  /\ stage[r] = "key"
  /\ IF inference_admission > 0
     THEN /\ stage' = [stage EXCEPT ![r] = "admitted"]
          /\ inference_admission' = inference_admission - 1
          /\ UNCHANGED drops
     ELSE /\ stage' = [stage EXCEPT ![r] = "refused"]
          /\ drops' = [drops EXCEPT ![r] = <<"key">>]
          /\ UNCHANGED inference_admission
  /\ UNCHANGED <<key, key_slots, inference_slots, waiters>>

(* The first poll of acquire_owned takes a free permit or queues.          *)
AcquireExecution(r) ==
  /\ stage[r] = "admitted"
  /\ IF inference_slots > 0
     THEN /\ stage' = [stage EXCEPT ![r] = "executing"]
          /\ inference_slots' = inference_slots - 1
          /\ UNCHANGED waiters
     ELSE /\ stage' = [stage EXCEPT ![r] = "waiting"]
          /\ waiters' = Append(waiters, r)
          /\ UNCHANGED inference_slots
  /\ UNCHANGED <<key, drops, key_slots, inference_admission>>

(* The assigned waiter is polled: the await ends with the permit.          *)
Wake(r) ==
  /\ stage[r] = "assigned"
  /\ stage' = [stage EXCEPT ![r] = "executing"]
  /\ UNCHANGED <<key, drops, key_slots, inference_admission, inference_slots,
                 waiters>>

(* The FIFO without a call that gives up: it is there until the semaphore  *)
(* assigned it a permit.                                                   *)
Unqueued(r) ==
  LET at == CHOOSE i \in DOMAIN waiters : waiters[i] = r
  IN  IF stage[r] = "waiting"
      THEN SubSeq(waiters, 1, at - 1) \o SubSeq(waiters, at + 1, Len(waiters))
      ELSE waiters

(* queue_timeout passes.  The timeout polls the acquisition first, so an   *)
(* assigned waiter is served.                                              *)
QueueTimeout(r) ==
  /\ stage[r] = "waiting"
  /\ stage' = [stage EXCEPT ![r] = "refused"]
  /\ waiters' = Unqueued(r)
  /\ drops' = [drops EXCEPT ![r] = <<"admission", "key">>]
  /\ UNCHANGED <<key, key_slots, inference_admission, inference_slots>>

(* Mutant: the permit assigned to a cancelled waiter is forgotten.         *)
CancelWaitingLosesPermit(r) ==
  /\ stage[r] \in {"waiting", "assigned"}
  /\ stage' = [stage EXCEPT ![r] = "dropping"]
  /\ waiters' = Unqueued(r)
  /\ drops' = [drops EXCEPT ![r] = <<"admission", "key">>]
  /\ UNCHANGED <<key, key_slots, inference_admission, inference_slots>>

(* The client goes away while its request waits: the acquisition is        *)
(* dropped first, with the permit it may have been assigned, then the      *)
(* locals in reverse order of declaration.                                 *)
CancelWaiting(r) ==
  /\ stage[r] \in {"waiting", "assigned"}
  /\ stage' = [stage EXCEPT ![r] = "dropping"]
  /\ waiters' = Unqueued(r)
  /\ drops' = [drops EXCEPT ![r] =
       IF stage[r] = "assigned" THEN <<"execution", "admission", "key">>
                                ELSE <<"admission", "key">>]
  /\ UNCHANGED <<key, key_slots, inference_admission, inference_slots>>

(* The request ends, served or dropped: the fields of InferencePermits are *)
(* dropped in order of declaration.                                        *)
EndExecution(r) ==
  /\ stage[r] = "executing"
  /\ stage' = [stage EXCEPT ![r] = "dropping"]
  /\ drops' = [drops EXCEPT ![r] = <<"key", "admission", "execution">>]
  /\ UNCHANGED <<key, key_slots, inference_admission, inference_slots, waiters>>

(* Mutant: a released permit goes to the pool past the waiters.            *)
ReleaseToPool ==
  /\ inference_slots' = inference_slots + 1
  /\ UNCHANGED <<stage, waiters>>

(* The execution semaphore hands a released permit to its first waiter.    *)
ReleaseExecution ==
  IF waiters = << >>
  THEN /\ inference_slots' = inference_slots + 1
       /\ UNCHANGED <<stage, waiters>>
  ELSE /\ stage' = [stage EXCEPT ![Head(waiters)] = "assigned"]
       /\ waiters' = Tail(waiters)
       /\ UNCHANGED inference_slots

(* One permit goes back to its semaphore.                                  *)
DropNext(r) ==
  /\ stage[r] \in {"refused", "dropping"} /\ drops[r] # << >>
  /\ drops' = [drops EXCEPT ![r] = Tail(@)]
  /\ \/ /\ Head(drops[r]) = "key"
        /\ key_slots' = [key_slots EXCEPT ![key[r]] = @ + 1]
        /\ UNCHANGED <<stage, inference_admission, inference_slots, waiters>>
     \/ /\ Head(drops[r]) = "admission"
        /\ inference_admission' = inference_admission + 1
        /\ UNCHANGED <<stage, key_slots, inference_slots, waiters>>
     \/ /\ Head(drops[r]) = "execution"
        /\ ReleaseExecution
        /\ UNCHANGED <<key_slots, inference_admission>>
  /\ UNCHANGED key

Ended(r) ==
  /\ stage[r] \in {"refused", "dropping"} /\ drops[r] = << >>
  /\ stage' = [stage EXCEPT ![r] = "out"]
  /\ key' = [key EXCEPT ![r] = NoKey]
  /\ UNCHANGED <<drops, key_slots, inference_admission, inference_slots,
                 waiters>>

-----------------------------------------------------------------------------
(* At most InferenceConcurrency requests run and at most PerKeyConcurrency *)
(* of one key do, and every permit of inference_permits is held by a call  *)
(* that is still there: no refusal, timeout or cancellation loses one.     *)
SlotsConserved ==
  /\ inference_slots + Cardinality(Holders("execution")) = InferenceConcurrency
  /\ inference_admission + Cardinality(Holders("admission"))
       = InferenceConcurrency + InferenceQueue
  /\ \A k \in Key :
       key_slots[k] + Cardinality({r \in Holders("key") : key[r] = k})
         = PerKeyConcurrency

(* No request waits while an execution slot is free, even when a waiter    *)
(* that was just assigned the slot is cancelled: acquire_owned gives the   *)
(* permit on.                                                              *)
NoIdleSlotWhileWaiting == waiters # << >> => inference_slots = 0

=============================================================================
