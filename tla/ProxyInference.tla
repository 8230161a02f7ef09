--------------------------- MODULE ProxyInference ---------------------------
(* The life of an inference request in the gateway: `proxy_inference` and  *)
(* the response stream it returns (services/gateway/src/lib.rs), with the  *)
(* usage guard of usage.rs, composed with the permits of InferenceSlots.   *)
(*                                                                         *)
(* Each element of Request is one request and runs once.  Its inputs (who  *)
(* it authenticates as, its body, what the upstream answers and when its   *)
(* client goes away) are chosen freely.  The client can only be noticed    *)
(* gone at an await: reading the body, waiting for an execution permit,    *)
(* sending upstream, and while the response is streamed.                   *)
EXTENDS InferenceSlots

VARIABLES
  phase,                            \* where the handler or stream is
  key_id,                           \* the authenticated key
  usage,                            \* outcome in the live usage guard
  events,                           \* history: events the guard recorded
  kind,                             \* the upstream response being relayed
  stream_done,                      \* "data: [DONE]" was seen
  ended,                            \* history: how the upstream body ended
  queue_depth,                      \* gateway_inference_queue_depth
  active_requests                   \* gateway_active_requests

reqVars == <<phase, key_id, usage, events, kind, stream_done, ended,
             queue_depth, active_requests>>
vars == <<slotVars, reqVars>>

NoValue  == "none"
Outcome  == {"completed", "failed", "cancelled", "interrupted"}
(* rewrite_model is set for the first two: a successful event stream or    *)
(* JSON body.  The others are relayed as they are.                         *)
Kind     == {"event_stream", "json", "other", "error_status"}
Rewritten == {"event_stream", "json"}
Phase    == {"new", "body", "call", "gone", "upstream", "stream", "closing",
             "done"}

Init ==
  /\ SlotsInit
  /\ phase = [r \in Request |-> "new"]
  /\ key_id = [r \in Request |-> NoKey]
  /\ usage = [r \in Request |-> NoValue]
  /\ events = [r \in Request |-> << >>]
  /\ kind = [r \in Request |-> NoValue]
  /\ stream_done = [r \in Request |-> FALSE]
  /\ ended = [r \in Request |-> NoValue]
  /\ queue_depth = 0
  /\ active_requests = 0

-----------------------------------------------------------------------------
Goto(r, p)   == phase' = [phase EXCEPT ![r] = p]
(* RequestUsage::finish: a later outcome replaces an earlier one.          *)
Finish(r, o) == usage' = [usage EXCEPT ![r] = o]

(* Up to the body read: no snapshot (503), no active key (401), or a key.  *)
Authenticate(r) ==
  /\ phase[r] = "new"
  /\ \/ /\ Goto(r, "done")
        /\ UNCHANGED key_id
     \/ /\ Goto(r, "body")
        /\ \E k \in Key : key_id' = [key_id EXCEPT ![r] = k]
  /\ UNCHANGED <<usage, events, kind, stream_done, ended, queue_depth,
                 active_requests, slotVars>>

(* The body arrives or not; a body that is too large, late, not JSON, or   *)
(* for a model that is missing, not authorized or has no usage binding is  *)
(* refused.  Otherwise the usage guard is made and the call for permits    *)
(* begins.                                                                 *)
ReadBody(r) ==
  /\ phase[r] = "body"
  /\ \/ /\ Goto(r, "done")
        /\ UNCHANGED <<usage, queue_depth>>
     \/ /\ Goto(r, "call")
        /\ Finish(r, "cancelled")
        /\ queue_depth' = queue_depth + 1
  /\ UNCHANGED <<key_id, events, kind, stream_done, ended,
                 active_requests, slotVars>>

(* inference_permits(&key_id).await: the steps of InferenceSlots.          *)
RequestPermits(r) ==
  /\ phase[r] = "call"
  /\ \/ AcquireKey(r, key_id[r])
     \/ AcquireAdmission(r) \/ AcquireExecution(r) \/ Wake(r)
     \/ QueueTimeout(r) \/ DropNext(r)
  /\ UNCHANGED reqVars

(* The usage guard drops: RequestUsage::drop pushes its event.             *)
DropUsage(r, o) ==
  /\ events' = [events EXCEPT ![r] = Append(@, o)]
  /\ usage' = [usage EXCEPT ![r] = NoValue]

(* The handler or stream is over and its variables are gone.               *)
Over(r) ==
  /\ Goto(r, "done")
  /\ key_id' = [key_id EXCEPT ![r] = NoKey]
  /\ kind' = [kind EXCEPT ![r] = NoValue]
  /\ stream_done' = [stream_done EXCEPT ![r] = FALSE]
  /\ ended' = [ended EXCEPT ![r] = NoValue]

(* CapacityError: leave_queue, a failed event and 429 inference_capacity.  *)
Refuse(r) ==
  /\ phase[r] = "call" /\ stage[r] = "refused" /\ Ended(r)
  /\ queue_depth' = queue_depth - 1
  /\ DropUsage(r, "failed")
  /\ Over(r)
  /\ UNCHANGED active_requests

(* The permits are held: leave_queue, count as active, send upstream.      *)
Forward(r) ==
  /\ phase[r] = "call" /\ stage[r] = "executing"
  /\ queue_depth' = queue_depth - 1
  /\ active_requests' = active_requests + 1
  /\ Goto(r, "upstream")
  /\ UNCHANGED <<key_id, usage, events, kind, stream_done, ended, slotVars>>

(* The send fails or the upstream answers 503.                             *)
Unavailable(r) ==
  /\ phase[r] = "upstream" /\ EndExecution(r)
  /\ Finish(r, "failed")
  /\ active_requests' = active_requests - 1
  /\ Goto(r, "closing")
  /\ UNCHANGED <<key_id, events, kind, stream_done, ended, queue_depth>>

(* Response headers: the stream takes over the guard and the permits.      *)
Respond(r) ==
  /\ phase[r] = "upstream"
  /\ \E k \in Kind : kind' = [kind EXCEPT ![r] = k]
  /\ Goto(r, "stream")
  /\ UNCHANGED <<key_id, usage, events, stream_done, ended, queue_depth,
                 active_requests, slotVars>>

(* A chunk that holds the end marker of an event stream.  Other chunks are *)
(* relayed and change nothing here.                                        *)
DoneChunk(r) ==
  /\ phase[r] = "stream" /\ kind[r] = "event_stream"
  /\ stream_done' = [stream_done EXCEPT ![r] = TRUE]
  /\ Finish(r, "completed")
  /\ UNCHANGED <<phase, key_id, events, kind, ended, queue_depth,
                 active_requests, slotVars>>

(* The loop breaks: the guards of the stream are dropped.                  *)
EndStream(r, how) ==
  /\ phase[r] = "stream" /\ EndExecution(r)
  /\ ended' = [ended EXCEPT ![r] = how]
  /\ active_requests' = active_requests - 1
  /\ Goto(r, "closing")
  /\ UNCHANGED <<key_id, events, kind, stream_done, queue_depth>>

(* A transport error or the idle timeout (any kind), or bytes that         *)
(* ModelResponse::push or ::finish refuses (rewritten kinds).              *)
BreakStream(r) ==
  /\ \/ EndStream(r, "failed")
     \/ kind[r] \in Rewritten /\ EndStream(r, "invalid")
  /\ Finish(r, "interrupted")

(* Mutant: the end of the body completes any successful response.          *)
CompleteUnmarked(r) ==
  /\ EndStream(r, "eof")
  /\ Finish(r, IF kind[r] = "error_status" THEN "failed" ELSE "completed")

(* The upstream body ends.                                                 *)
CompleteStream(r) ==
  /\ EndStream(r, "eof")
  /\ Finish(r, IF kind[r] = "event_stream" /\ ~ stream_done[r] THEN "interrupted"
               ELSE IF kind[r] = "error_status" THEN "failed"
               ELSE "completed")

(* The client goes away: the future or the stream is dropped.              *)
ClientGone(r) ==
  \/ /\ phase[r] = "body"
     /\ Goto(r, "done")
     /\ UNCHANGED <<key_id, usage, events, kind, stream_done, ended,
                    queue_depth, active_requests, slotVars>>
  \/ /\ phase[r] = "call" /\ CancelWaiting(r)
     /\ Goto(r, "gone")
     /\ UNCHANGED <<key_id, usage, events, kind, stream_done, ended,
                    queue_depth, active_requests>>
  \/ /\ phase[r] \in {"upstream", "stream"} /\ EndExecution(r)
     /\ Goto(r, "closing")
     /\ active_requests' = active_requests - 1
     /\ UNCHANGED <<key_id, usage, events, kind, stream_done, ended,
                    queue_depth>>

(* The rest of the drops; the usage guard is the last to go.               *)
DropPermits(r) ==
  /\ phase[r] \in {"gone", "closing"} /\ DropNext(r)
  /\ UNCHANGED reqVars

(* Mutant: only a request that reached the upstream records its event.     *)
CloseForwarded(r) ==
  /\ phase[r] \in {"gone", "closing"} /\ Ended(r)
  /\ IF phase[r] = "closing" THEN DropUsage(r, usage[r]) ELSE UNCHANGED <<events, usage>>
  /\ Over(r)
  /\ UNCHANGED <<queue_depth, active_requests>>

Close(r) ==
  /\ phase[r] \in {"gone", "closing"} /\ Ended(r)
  /\ DropUsage(r, usage[r])
  /\ Over(r)
  /\ UNCHANGED <<queue_depth, active_requests>>

Done == (\A r \in Request : phase[r] = "done") /\ UNCHANGED vars

Step(r) ==
  \/ Authenticate(r) \/ ReadBody(r) \/ RequestPermits(r) \/ Refuse(r)
  \/ Forward(r) \/ Unavailable(r) \/ Respond(r)
  \/ BreakStream(r) \/ CompleteStream(r) \/ DropPermits(r) \/ Close(r)

Next == Done \/ \E r \in Request : Step(r) \/ DoneChunk(r) \/ ClientGone(r)

(* body_timeout, queue_timeout, upstream_timeout and stream_idle_timeout   *)
(* bound every await, so each request keeps moving; chunks need not come.  *)
Fairness == \A r \in Request : WF_vars(Step(r))

Spec == Init /\ [][Next]_vars /\ Fairness

-----------------------------------------------------------------------------
(* The upstream response was relayed whole: an event stream up to its end  *)
(* marker, any other body up to its end.                                   *)
RelayedWhole(r) ==
  \/ kind[r] = "event_stream" /\ stream_done[r] /\ ended[r] \in {"eof", NoValue}
  \/ kind[r] \in {"json", "other"} /\ ended[r] = "eof"

(* The one usage event tells the truth about the request: completed just   *)
(* when the response was relayed whole, interrupted exactly when the       *)
(* upstream broke it off, failed when nothing was served, and cancelled    *)
(* only for a client that left first, through every order of end markers,  *)
(* errors, timeouts and departures the stream of lib.rs can meet.          *)
TruthfulOutcome ==
  [][\A r \in Request : events'[r] # events[r] =>
       LET outcome == events'[r][Len(events'[r])] IN
         /\ events[r] = << >>
         /\ outcome = "completed" <=> RelayedWhole(r)
         /\ outcome = "interrupted" <=>
              kind[r] # NoValue /\ ended[r] # NoValue /\ ~ RelayedWhole(r)
                /\ ~ (kind[r] = "error_status" /\ ended[r] = "eof")
         /\ outcome = "cancelled" => ended[r] = NoValue /\ phase[r] # "call"]_vars

(* Every request that got a usage guard records its event in the end, and  *)
(* gives all its permits back, also when its client leaves.                *)
UsageRecorded ==
  \A r \in Request :
    phase[r] = "call" ~> Len(events[r]) = 1 /\ \A p \in Permit : ~ Holds(r, p)

(* lib.rs:342-346 as metrics.rs:169 describes the gauge: the requests that *)
(* wait for execution.  A client that leaves while it waits drops the      *)
(* future between enter_queue and leave_queue, and the gauge keeps it.     *)
QueueDepthDrains ==
  (\A r \in Request : phase[r] = "done") => queue_depth = 0
=============================================================================
