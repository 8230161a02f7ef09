------------------------------- MODULE LogSink -------------------------------
(* private_log_sink.py: records queued by a launcher and posted to the      *)
(* collector by one daemon thread, and the report close() makes of it. The  *)
(* counters are plain attributes that two threads use without a lock.       *)
(* Records are numbered in the order of submit; their text is left out.     *)
EXTENDS Integers, Sequences, Functions

CONSTANTS
  SinkCapacity,     \* records the queue holds (1024)
  SinkBatch         \* records of one post (32)

ASSUME SinkAssumption == SinkCapacity \in Nat \ {0} /\ SinkBatch \in Nat \ {0}

VARIABLES
  sinkQueue,        \* queue.Queue
  unfinished,       \* queue.unfinished_tasks
  sinkSent, sinkDropped,  \* the attributes sent and dropped
  failures,
  sinkStop,         \* the stop event
  thread,           \* the thread: where, its batch, tries, delivered, and the
                    \* count it read to add to
  submitted,        \* records given to submit so far
  accepted,         \* history: records the collector confirmed
  closing,          \* where close() is
  report            \* what it returns

sinkVars == <<sinkQueue, unfinished, sinkSent, sinkDropped, failures, sinkStop, thread,
              submitted, accepted, closing, report>>

Resting == [at |-> "loop", batch |-> <<>>, tries |-> 0, delivered |-> FALSE, read |-> 0]
NoReport == [exported |-> 0, dropped |-> 0, pending |-> 0, failures |-> 0]

SinkInit ==
  /\ sinkQueue = <<>> /\ unfinished = 0
  /\ sinkSent = 0 /\ sinkDropped = 0 /\ failures = 0
  /\ sinkStop = FALSE /\ thread = Resting
  /\ submitted = 0 /\ accepted = {}
  /\ closing = "open" /\ report = NoReport

-----------------------------------------------------------------------------
(* submit. A record that is too large or finds the queue full is counted;   *)
(* no call stands between the load and the store of that count.             *)
Submit(large) ==
  /\ submitted' = submitted + 1
  /\ IF large \/ Len(sinkQueue) = SinkCapacity
     THEN sinkDropped' = sinkDropped + 1 /\ UNCHANGED <<sinkQueue, unfinished>>
     ELSE /\ sinkQueue' = Append(sinkQueue, submitted + 1)
          /\ unfinished' = unfinished + 1
          /\ UNCHANGED sinkDropped
  /\ UNCHANGED <<sinkSent, failures, sinkStop, thread, accepted, closing, report>>

(* _run: the head of the queue and what else is there, up to a full batch,  *)
(* in one step: a record put meanwhile is put before it or after it.        *)
Collect ==
  LET n == IF Len(sinkQueue) < SinkBatch THEN Len(sinkQueue) ELSE SinkBatch IN
  /\ thread.at = "loop" /\ sinkQueue # <<>>
  /\ thread' = [Resting EXCEPT !.at = "post", !.batch = SubSeq(sinkQueue, 1, n)]
  /\ sinkQueue' = SubSeq(sinkQueue, n + 1, Len(sinkQueue))
  /\ UNCHANGED <<unfinished, sinkSent, sinkDropped, failures, sinkStop, submitted, accepted,
                 closing, report>>

SinkEnds ==
  /\ thread.at = "loop" /\ sinkStop /\ sinkQueue = <<>>
  /\ thread' = [thread EXCEPT !.at = "ended"]
  /\ UNCHANGED <<sinkQueue, unfinished, sinkSent, sinkDropped, failures, sinkStop, submitted,
                 accepted, closing, report>>

(* One of two tries. "confirmed": 200 without rejected records. "refused":  *)
(* another status, an overlong answer or rejected records. "garbled": a 200 *)
(* whose body does not parse raises after delivered was set. "error": the   *)
(* request raises before that, and delivered keeps its value.               *)
Post(answer) ==
  /\ thread.at = "post"
  /\ LET delivered == CASE answer \in {"confirmed", "garbled"} -> TRUE
                        [] answer = "refused" -> FALSE
                        [] OTHER -> thread.delivered
         over == answer = "confirmed" \/ thread.tries = 1
     IN thread' = [thread EXCEPT !.delivered = delivered, !.tries = @ + 1,
                     !.at = IF over THEN "count" ELSE "post"]
  /\ failures' = IF answer = "confirmed" THEN failures ELSE failures + 1
  /\ accepted' = IF answer = "confirmed" THEN accepted \cup Range(thread.batch) ELSE accepted
  /\ UNCHANGED <<sinkQueue, unfinished, sinkSent, sinkDropped, sinkStop, submitted, closing, report>>

(* sent is the thread's own. dropped is read before the call of len(batch), *)
(* where the other thread may run, and written after it.                    *)
CountSent ==
  /\ thread.at = "count" /\ thread.delivered
  /\ sinkSent' = sinkSent + Len(thread.batch)
  /\ thread' = [thread EXCEPT !.at = "done"]
  /\ UNCHANGED <<sinkQueue, unfinished, sinkDropped, failures, sinkStop, submitted, accepted,
                 closing, report>>

CountDropped ==
  /\ \/ /\ thread.at = "count" /\ ~thread.delivered
        /\ thread' = [thread EXCEPT !.at = "store", !.read = sinkDropped]
        /\ UNCHANGED sinkDropped
     \/ /\ thread.at = "store"
        /\ sinkDropped' = thread.read + Len(thread.batch)
        /\ thread' = [thread EXCEPT !.at = "done"]
  /\ UNCHANGED <<sinkQueue, unfinished, sinkSent, failures, sinkStop, submitted, accepted,
                 closing, report>>

TaskDone ==
  /\ thread.at = "done"
  /\ unfinished' = unfinished - 1
  /\ thread' = IF Len(thread.batch) = 1 THEN Resting
               ELSE [thread EXCEPT !.batch = Tail(@)]
  /\ UNCHANGED <<sinkQueue, sinkSent, sinkDropped, failures, sinkStop, submitted, accepted,
                 closing, report>>

SinkThread ==
  \/ Collect \/ SinkEnds \/ CountSent \/ CountDropped \/ TaskDone
  \/ \E answer \in {"confirmed", "refused", "garbled", "error"} : Post(answer)

-----------------------------------------------------------------------------
(* close: the event, the join (the thread has ended or the timeout has      *)
(* passed), then the four counters in the order the report lists them.      *)
CloseStop ==
  /\ closing = "open"
  /\ sinkStop' = TRUE /\ closing' = "exported"
  /\ UNCHANGED <<sinkQueue, unfinished, sinkSent, sinkDropped, failures, thread, submitted, accepted,
                 report>>

(* Mutant: failures is read before pending.                                 *)
CloseOrderSwapped == <<"exported", "dropped", "failures", "pending", "closed">>

CloseOrder == <<"exported", "dropped", "pending", "failures", "closed">>

CloseRead ==
  \E i \in 1 .. 4 :
    /\ closing = CloseOrder[i]
    /\ report' = [report EXCEPT ![closing] =
         CASE closing = "exported" -> sinkSent
           [] closing = "dropped" -> sinkDropped
           [] closing = "pending" -> unfinished
           [] OTHER -> failures]
    /\ closing' = CloseOrder[i + 1]
    /\ UNCHANGED <<sinkQueue, unfinished, sinkSent, sinkDropped, failures, sinkStop, thread,
                   submitted, accepted>>

Failed == report.dropped # 0 \/ report.pending # 0 \/ report.failures # 0

(* A close() whose report leads to no diagnostic_delivery_failed is the     *)
(* truth: the collector confirmed every record that was ever submitted,     *)
(* although the thread goes on while the counters are read and an addition  *)
(* to dropped can be lost.                                                  *)
SilenceMeansDelivered ==
  closing = "closed" /\ ~Failed => 1 .. submitted \subseteq accepted
==============================================================================
