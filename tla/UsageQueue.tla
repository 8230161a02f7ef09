----------------------------- MODULE UsageQueue -----------------------------
(* Usage events of the gateway: the bounded in-memory queue and its two    *)
(* senders, the delivery loop and the flush at shutdown                    *)
(* (services/gateway/src/usage.rs, admin_client.rs, main.rs).              *)
(*                                                                         *)
(* An event is its sequence number.  Events are pushed at the back with    *)
(* consecutive numbers and leave at the front, so the queue is the         *)
(* interval first .. next_sequence - 1.  The delivery loop is not stopped  *)
(* when the flush begins.                                                  *)
EXTENDS Integers

CONSTANTS
  Capacity,                         \* MAX_PENDING_EVENTS
  MaxBatch,                         \* MAX_BATCH_EVENTS
  Refused,                          \* events the admin answers 400, 413, 422
  MaxEvents                         \* bound: events ever recorded

ASSUME UsageAssumption ==
  /\ Capacity \in Nat \ {0} /\ MaxBatch \in Nat \ {0}
  /\ MaxEvents \in Nat /\ Refused \subseteq Nat

Sender == {"deliver", "flush"}

VARIABLES
  first, next_sequence,             \* the queue
  pc, limit,                        \* each sender in send_pending
  from, last,                       \* the batch it has sent
  reply,                            \* the answer it has got
  phase,                            \* of the process
  stored,                           \* request ids the admin has stored
  dropped, rejected                 \* what the two loss counters counted

queueVars == <<first, next_sequence>>
sendVars  == <<pc, limit, from, last, reply>>
lossVars  == <<dropped, rejected>>
vars == <<queueVars, sendVars, phase, stored, lossVars>>

Queue   == first .. (next_sequence - 1)
Pending == next_sequence - first
Batch(s) == from[s] .. last[s]
Size(s)  == (last[s] + 1) - from[s]
Least(a, b) == IF a <= b THEN a ELSE b

(* "asleep" between rounds; "ready" at the head of the while loop;         *)
(* "sending" a batch; "answered" before the match on the answer.           *)
TypeOK ==
  /\ first \in Nat /\ next_sequence \in Nat
  /\ first <= next_sequence /\ Pending <= Capacity
  /\ pc \in [Sender -> {"asleep", "ready", "sending", "answered"}]
  /\ limit \in [Sender -> 1 .. MaxBatch]
  /\ from \in [Sender -> Nat] /\ last \in [Sender -> Nat]
  /\ reply \in [Sender -> {"none", "ok", "rejected", "retry"}]
  /\ phase \in {"serving", "flushing", "exited"}
  /\ stored \subseteq Nat /\ dropped \subseteq Nat /\ rejected \subseteq Nat

Init ==
  /\ first = 0 /\ next_sequence = 0
  /\ pc = [s \in Sender |-> "asleep"]
  /\ limit = [s \in Sender |-> MaxBatch]
  /\ from = [s \in Sender |-> 0] /\ last = [s \in Sender |-> 0]
  /\ reply = [s \in Sender |-> "none"]
  /\ phase = "serving"
  /\ stored = {} /\ dropped = {} /\ rejected = {}

-----------------------------------------------------------------------------
(* Mutant: an overflow is not counted.                                     *)
PushUncounted ==
  /\ phase = "serving" /\ next_sequence < MaxEvents
  /\ next_sequence' = next_sequence + 1
  /\ first' = IF Pending >= Capacity THEN first + 1 ELSE first
  /\ UNCHANGED <<sendVars, phase, stored, lossVars>>

(* A request ends: RequestUsage is dropped and records its event.  A full  *)
(* queue loses its oldest event.                                           *)
Push ==
  /\ phase = "serving" /\ next_sequence < MaxEvents
  /\ next_sequence' = next_sequence + 1
  /\ IF Pending >= Capacity
     THEN first' = first + 1 /\ dropped' = dropped \cup {first}
     ELSE UNCHANGED <<first, dropped>>
  /\ UNCHANGED <<sendVars, phase, stored, rejected>>

(* deliver wakes up, or flush goes round its loop: send_pending begins.    *)
Awake(s) == s = "deliver" \/ phase = "flushing"

Wake(s) ==
  /\ pc[s] = "asleep" /\ Awake(s) /\ phase # "exited"
  /\ s = "flush" => Pending > 0
  /\ pc' = [pc EXCEPT ![s] = "ready"]
  /\ limit' = [limit EXCEPT ![s] = MaxBatch]
  /\ UNCHANGED <<from, last, reply, queueVars, phase, stored, lossVars>>

(* batch(limit): the oldest events, or the end of the loop.                *)
TakeBatch(s) ==
  /\ pc[s] = "ready" /\ phase # "exited"
  /\ IF Pending = 0
     THEN /\ pc' = [pc EXCEPT ![s] = "asleep"]
          /\ phase' = IF s = "flush" THEN "exited" ELSE phase
          /\ UNCHANGED <<from, last>>
     ELSE /\ pc' = [pc EXCEPT ![s] = "sending"]
          /\ from' = [from EXCEPT ![s] = first]
          /\ last' = [last EXCEPT ![s] = first + Least(limit[s], Pending) - 1]
          /\ UNCHANGED phase
  /\ UNCHANGED <<limit, reply, queueVars, stored, lossVars>>

(* The admin answers a batch of k events; it refuses a batch with a        *)
(* refused event and stores any other.                                     *)
AdminAnswers(s, k) ==
  /\ pc[s] = "sending" /\ phase # "exited" /\ Size(s) = k
  /\ IF Batch(s) \cap Refused = {}
     THEN /\ stored' = stored \cup Batch(s)
          /\ reply' = [reply EXCEPT ![s] = "ok"]
     ELSE /\ reply' = [reply EXCEPT ![s] = "rejected"]
          /\ UNCHANGED stored
  /\ pc' = [pc EXCEPT ![s] = "answered"]
  /\ UNCHANGED <<limit, from, last, queueVars, phase, lossVars>>

(* The admin is unreachable or overloaded, or its answer is lost after it  *)
(* stored the batch.                                                       *)
SendFails(s) ==
  /\ pc[s] = "sending" /\ phase # "exited"
  /\ \/ UNCHANGED stored
     \/ /\ Batch(s) \cap Refused = {}
        /\ stored' = stored \cup Batch(s)
  /\ reply' = [reply EXCEPT ![s] = "retry"]
  /\ pc' = [pc EXCEPT ![s] = "answered"]
  /\ UNCHANGED <<limit, from, last, queueVars, phase, lossVars>>

(* Mutant: as many events are removed as were sent.                        *)
AcknowledgeCount(s) ==
  first' = Least(first + Size(s), next_sequence)

(* Every event up to the last one of the batch leaves the queue; an        *)
(* overflow may have taken some of them before.                            *)
Acknowledge(s) == first' = IF first <= last[s] THEN last[s] + 1 ELSE first

(* Mutant: a refused event is sent again.                                  *)
HandleRejectedAgain(s) ==
  /\ pc[s] = "answered" /\ phase # "exited" /\ reply[s] = "rejected"
  /\ limit' = [limit EXCEPT ![s] = IF Size(s) > 1 THEN Size(s) \div 2 ELSE 1]
  /\ pc' = [pc EXCEPT ![s] = "ready"]
  /\ UNCHANGED <<from, last, reply, queueVars, phase, stored, lossVars>>

(* Err(Rejected): split the batch, or drop and count the single event.     *)
HandleRejected(s) ==
  /\ pc[s] = "answered" /\ phase # "exited" /\ reply[s] = "rejected"
  /\ \/ /\ Size(s) > 1
        /\ limit' = [limit EXCEPT ![s] = Size(s) \div 2]
        /\ UNCHANGED <<first, rejected>>
     \/ /\ Size(s) = 1
        /\ Acknowledge(s)
        /\ rejected' = rejected \cup Batch(s)
        /\ limit' = [limit EXCEPT ![s] = MaxBatch]
  /\ pc' = [pc EXCEPT ![s] = "ready"]
  /\ UNCHANGED <<from, last, reply, next_sequence, phase, stored, dropped>>

HandleOk(s) ==
  /\ pc[s] = "answered" /\ phase # "exited" /\ reply[s] = "ok"
  /\ Acknowledge(s)
  /\ limit' = [limit EXCEPT ![s] = MaxBatch]
  /\ pc' = [pc EXCEPT ![s] = "ready"]
  /\ UNCHANGED <<from, last, reply, next_sequence, phase, stored, lossVars>>

HandleRetry(s) ==
  /\ pc[s] = "answered" /\ phase # "exited" /\ reply[s] = "retry"
  /\ pc' = [pc EXCEPT ![s] = "asleep"]
  /\ UNCHANGED <<limit, from, last, reply, queueVars, phase, stored, lossVars>>

(* The server has stopped: main calls flush.                               *)
BeginFlush ==
  /\ phase = "serving"
  /\ phase' = "flushing"
  /\ UNCHANGED <<queueVars, sendVars, stored, lossVars>>

(* flush returns: nothing is pending, or the deadline has passed, which    *)
(* also cancels a send under way.                                          *)
FlushEmpty ==
  /\ phase = "flushing" /\ pc["flush"] = "asleep" /\ Pending = 0
  /\ phase' = "exited"
  /\ UNCHANGED <<queueVars, sendVars, stored, lossVars>>

FlushDeadline ==
  /\ phase = "flushing" /\ pc["flush"] \in {"asleep", "sending"}
  /\ phase' = "exited"
  /\ UNCHANGED <<queueVars, sendVars, stored, lossVars>>

SendStep(s) ==
  Wake(s) \/ TakeBatch(s) \/ HandleOk(s) \/ HandleRejected(s) \/ HandleRetry(s)

Next ==
  \/ Push \/ BeginFlush \/ FlushEmpty \/ FlushDeadline
  \/ \E s \in Sender :
       \/ SendStep(s) \/ SendFails(s)
       \/ \E k \in 1 .. MaxBatch : AdminAnswers(s, k)

Spec == Init /\ [][Next]_vars

(* The loops run, a send always returns (the client has a timeout), and    *)
(* the admin, asked again and again, is not lost for ever at any size of   *)
(* batch.                                                                  *)
Fairness ==
  \A s \in Sender :
    /\ WF_vars(SendStep(s))
    /\ WF_vars(SendFails(s) \/ \E k \in 1 .. MaxBatch : AdminAnswers(s, k))
    /\ \A k \in 1 .. MaxBatch : SF_vars(AdminAnswers(s, k))
FairSpec == Spec /\ Fairness

-----------------------------------------------------------------------------
(* No event disappears silently: it is queued, stored by the admin, or     *)
(* counted as dropped or rejected, although an overflow moves the front of *)
(* the queue while a batch is in flight and two senders acknowledge.       *)
NoSilentLoss ==
  \A n \in 0 .. (MaxEvents - 1) : n < next_sequence =>
    n \in Queue \/ n \in stored \/ n \in dropped \/ n \in rejected

(* Only refused events are rejected: an event is never given up because it *)
(* shared a batch with one, which is what the halving in send_pending is   *)
(* for.                                                                    *)
RejectedRefused == rejected \subseteq Refused

(* Every event is settled in the end, unless the process exits: a refused  *)
(* batch "never blocks the queue".                                         *)
EventSettled ==
  \A n \in 0 .. (MaxEvents - 1) :
    n \in Queue ~> \/ n \in stored \/ n \in dropped \/ n \in rejected
                   \/ phase = "exited"
=============================================================================
