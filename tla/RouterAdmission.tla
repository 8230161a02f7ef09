--------------------------- MODULE RouterAdmission ---------------------------
(* Admission of requests by the router: concurrency_limit_middleware, the   *)
(* QueueProcessor with the tasks it spawns, and POST /admission, around a   *)
(* TokenBucket (images/sglang-router/patches/admission-caps.patch).         *)
(*                                                                          *)
(* A slot of Request is one request; the slot is used again once nothing of *)
(* the request is left.  A queued request waits on a oneshot channel for    *)
(* which `hand` says where the sending end is: still in the queue, held by  *)
(* the processor or by a task that waits for a token.                       *)
EXTENDS TokenBucket, Sequences, FiniteSets

CONSTANTS
  Request,
  MaxConcurrent,                    \* --max-concurrent-requests
  QueueSize,                        \* --queue-size
  Ceilings                          \* what POST /admission may ask for

ASSUME AdmissionAssumption ==
  /\ IsFiniteSet(Request)
  /\ MaxConcurrent \in Nat \ {0}
  /\ QueueSize \in Nat
  /\ Ceilings \subseteq {c \in Nat : c >= Permit}

VARIABLES
  pc,                               \* the request
  queue,                            \* mpsc channel to the QueueProcessor
  hand,                             \* the sending end of its oneshot channel
  woken,                            \* its task's Notified was notified
  reply,                            \* value in its oneshot channel
  bucket,                           \* the TokenBucket
  retuned,                          \* set_capacity is about to notify
  stranded                          \* history: permits nobody will return

vars == <<pc, queue, hand, woken, reply, bucket, retuned, stranded>>

(* "handler": PermitGuard around next.run; "body": TokenGuardBody; "notify" *)
(* a permit was returned and notify_waiters comes next; "left": the client  *)
(* of a queued request is gone.                                             *)
Phase == {"idle", "queued", "handler", "body", "notify", "left"}
(* "handing": the processor has a token for it; the rest is the task:       *)
(* about to register, registered, about to look at its timer, asleep, with  *)
(* a token.                                                                 *)
Hand  == {"none", "queue", "handing", "register", "check", "pending", "asleep",
          "granted"}
Reply == {"none", "ok", "timeout"}

Holding ==
  {r \in Request : \/ pc[r] \in {"handler", "body"}
                   \/ hand[r] \in {"handing", "granted"}
                   \/ reply[r] = "ok"}

TypeOK ==
  /\ pc \in [Request -> Phase]
  /\ queue \in Seq(Request)
  /\ Len(queue) <= QueueSize
  /\ hand \in [Request -> Hand]
  /\ woken \in [Request -> BOOLEAN]
  /\ reply \in [Request -> Reply]
  /\ bucket \in Bucket
  /\ retuned \in BOOLEAN
  /\ stranded \in Nat

Init ==
  /\ pc = [r \in Request |-> "idle"]
  /\ queue = << >>
  /\ hand = [r \in Request |-> "none"]
  /\ woken = [r \in Request |-> FALSE]
  /\ reply = [r \in Request |-> "none"]
  /\ bucket = NewBucket(MaxConcurrent)
  /\ retuned = FALSE
  /\ stranded = 0

Goto(r, p) == pc' = [pc EXCEPT ![r] = p]
Pass(r, h) == hand' = [hand EXCEPT ![r] = h]

-----------------------------------------------------------------------------
(* concurrency_limit_middleware                                             *)

(* A token at once, or a place in the queue; otherwise 429, which changes   *)
(* nothing.                                                                 *)
Arrive(r) ==
  /\ pc[r] = "idle"
  /\ \/ /\ HasPermit(bucket)
        /\ bucket' = Acquired(bucket)
        /\ Goto(r, "handler")
        /\ UNCHANGED <<queue, hand>>
     \/ /\ ~ HasPermit(bucket) /\ Len(queue) < QueueSize
        /\ queue' = Append(queue, r)
        /\ Pass(r, "queue")
        /\ Goto(r, "queued")
        /\ UNCHANGED bucket
  /\ UNCHANGED <<woken, reply, retuned, stranded>>

(* The channel answers: the handler runs, or 429 admission_queue_timeout.   *)
Receive(r) ==
  /\ pc[r] = "queued" /\ reply[r] # "none"
  /\ Goto(r, IF reply[r] = "ok" THEN "handler" ELSE "idle")
  /\ reply' = [reply EXCEPT ![r] = "none"]
  /\ UNCHANGED <<queue, hand, woken, bucket, retuned, stranded>>

(* permit.disarm: the body takes the token over.                            *)
Respond(r) ==
  /\ pc[r] = "handler"
  /\ Goto(r, "body")
  /\ UNCHANGED <<queue, hand, woken, reply, bucket, retuned, stranded>>

(* The body ends or is dropped, or the handler is cancelled: the guard      *)
(* returns the token.                                                       *)
Finish(r) ==
  /\ pc[r] \in {"handler", "body"}
  /\ bucket' = Returned(bucket)
  /\ Goto(r, "notify")
  /\ UNCHANGED <<queue, hand, woken, reply, retuned, stranded>>

(* The client of a queued request goes away and the receiving end of the    *)
(* channel is dropped, with the value it may hold.                          *)
LeaveQueue(r) ==
  /\ pc[r] = "queued"
  /\ Goto(r, IF reply[r] = "none" THEN "left" ELSE "idle")
  /\ stranded' = IF reply[r] = "ok" THEN stranded + 1 ELSE stranded
  /\ reply' = [reply EXCEPT ![r] = "none"]
  /\ UNCHANGED <<queue, hand, woken, bucket, retuned>>

-----------------------------------------------------------------------------
(* QueueProcessor                                                           *)

(* The processor takes the next request, and a token for it or a task.      *)
Dequeue ==
  /\ queue # << >>
  /\ \A r \in Request : hand[r] # "handing"
  /\ queue' = Tail(queue)
  /\ LET r == Head(queue) IN
     IF HasPermit(bucket)
     THEN bucket' = Acquired(bucket) /\ Pass(r, "handing")
     ELSE UNCHANGED bucket /\ Pass(r, "register")
  /\ UNCHANGED <<pc, woken, reply, retuned, stranded>>

(* Mutant: the result of send is ignored.                                   *)
SendUnchecked(r) ==
  /\ hand[r] \in {"handing", "granted"}
  /\ Pass(r, "none")
  /\ IF pc[r] = "queued"
     THEN reply' = [reply EXCEPT ![r] = "ok"] /\ UNCHANGED pc
     ELSE Goto(r, "idle") /\ UNCHANGED reply
  /\ UNCHANGED <<queue, woken, bucket, retuned, stranded>>

(* permit_tx.send(Ok(())): refused if the waiter is gone.                   *)
Send(r) ==
  /\ hand[r] \in {"handing", "granted"}
  /\ Pass(r, "none")
  /\ IF pc[r] = "queued"
     THEN /\ reply' = [reply EXCEPT ![r] = "ok"]
          /\ UNCHANGED <<pc, bucket>>
     ELSE /\ bucket' = Returned(bucket)
          /\ Goto(r, "notify")
          /\ UNCHANGED reply
  /\ UNCHANGED <<queue, woken, retuned, stranded>>

(* TokenBucket::acquire in the task: register, then check.                  *)
Register(r) ==
  /\ \/ hand[r] = "register"
     \/ hand[r] = "asleep" /\ woken[r]
  /\ Pass(r, "check")
  /\ woken' = [woken EXCEPT ![r] = FALSE]
  /\ UNCHANGED <<pc, queue, reply, bucket, retuned, stranded>>

(* A task that was notified meanwhile goes round again by Register; the     *)
(* rounds without a token that follow one another are folded into one.      *)
Check(r) ==
  /\ hand[r] = "check"
  /\ IF HasPermit(bucket)
     THEN bucket' = Acquired(bucket) /\ Pass(r, "granted")
     ELSE UNCHANGED bucket /\ Pass(r, "pending")
  /\ UNCHANGED <<pc, queue, woken, reply, retuned, stranded>>

Sleep(r) ==
  /\ hand[r] = "pending"
  /\ Pass(r, "asleep")
  /\ UNCHANGED <<pc, queue, woken, reply, bucket, retuned, stranded>>

(* Mutant: the acquisition has no timeout.                                  *)
ExpireNever(r) == hand[r] = "asleep" /\ UNCHANGED vars

(* acquire_timeout: the timer is looked at when the acquisition has nothing *)
(* more to do.                                                              *)
Expire(r) ==
  /\ hand[r] = "pending" \/ (hand[r] = "asleep" /\ ~ woken[r])
  /\ Pass(r, "none")
  /\ IF pc[r] = "queued"
     THEN reply' = [reply EXCEPT ![r] = "timeout"] /\ UNCHANGED pc
     ELSE Goto(r, "idle") /\ UNCHANGED reply
  /\ UNCHANGED <<queue, woken, bucket, retuned, stranded>>

-----------------------------------------------------------------------------
(* Mutant: a task registers only after its check.                           *)
WokenLate == [r \in Request |-> woken[r] \/ hand[r] = "asleep"]

(* Notify::notify_waiters wakes those that are registered.                  *)
WokenNow ==
  [r \in Request |-> woken[r] \/ hand[r] \in {"check", "pending", "asleep"}]

Notify(r) ==
  /\ pc[r] = "notify"
  /\ Goto(r, "idle")
  /\ woken' = WokenNow
  /\ UNCHANGED <<queue, hand, reply, bucket, retuned, stranded>>

(* set_admission: one change at a time, and only a raise notifies.          *)
SetAdmission(c) ==
  /\ ~ retuned
  /\ bucket' = Retuned(bucket, c)
  /\ retuned' = (c > bucket.capacity)
  /\ UNCHANGED <<pc, queue, hand, woken, reply, stranded>>

NotifyRetuned ==
  /\ retuned
  /\ retuned' = FALSE
  /\ woken' = WokenNow
  /\ UNCHANGED <<pc, queue, hand, reply, bucket, stranded>>

-----------------------------------------------------------------------------
Serve(r) ==
  Receive(r) \/ Send(r) \/ Register(r) \/ Check(r) \/ Sleep(r) \/ Notify(r)

Next ==
  \/ \E r \in Request :
       Arrive(r) \/ Respond(r) \/ Finish(r) \/ LeaveQueue(r)
       \/ Serve(r) \/ Expire(r)
  \/ Dequeue \/ NotifyRetuned
  \/ \E c \in Ceilings : SetAdmission(c)

(* The tasks of the router run, and once the time of a task is up the next  *)
(* look at its timer ends it, so Expire is strongly fair.  Requests need    *)
(* not end, clients need not leave, nobody need retune.                     *)
Fairness ==
  /\ \A r \in Request : WF_vars(Serve(r)) /\ SF_vars(Expire(r))
  /\ WF_vars(Dequeue) /\ WF_vars(NotifyRetuned)

Spec == Init /\ [][Next]_vars /\ Fairness

-----------------------------------------------------------------------------
(* in_flight() counts the requests that really hold a permit, through every *)
(* hand-over between processor, task, channel, guard and body, and through  *)
(* every change of the ceiling; and no token is free while there is debt.   *)
PermitsAccounted ==
  /\ InFlight(bucket) = Permit * (Cardinality(Holding) + stranded)
  /\ bucket.tokens <= bucket.capacity
  /\ bucket.debt > 0 => bucket.tokens = 0

(* A task of the QueueProcessor never sleeps beside a token: registering    *)
(* before checking means a return or a raise cannot slip in between.        *)
NoLostWakeup ==
  \A r \in Request : hand[r] \in {"pending", "asleep"} /\ ~ woken[r] =>
    ~ HasPermit(bucket) \/ retuned \/ \E q \in Request : pc[q] = "notify"

(* The router implements the ceiling it promises: nobody is admitted above  *)
(* it, however often POST /admission changed it and however the permits     *)
(* came back (set_capacity and return_tokens_sync).                         *)
Ceiling == INSTANCE AdmissionCeiling
  WITH ceiling <- bucket.capacity, inflight <- Cardinality(Holding) + stranded
CeilingSpec == Ceiling!Spec

(* A queued request is answered even if no request ever ends: by a token or *)
(* by the timeout of acquire_timeout.                                       *)
QueuedAnswered == \A r \in Request : pc[r] = "queued" ~> pc[r] # "queued"

(* images/sglang-router/README.md:143: a request cancelled before its       *)
(* response returns its permit.  One cancelled between the send and its     *)
(* next poll drops the channel with the permit in it.                       *)
CancelledReturns == stranded = 0
=============================================================================
