--------------------------- MODULE StackSnapshots ---------------------------
(* The stack snapshots of a failed pair (images/sglang/pair_diagnostics.py) *)
(* and their two callers, the monitor and the event thread of the pair     *)
(* supervisor.  Every rank keeps a connection open; on request its process *)
(* dumps its stacks there, a reader thread per connection keeps the frames *)
(* that arrive while the request is active, and one thread reports every   *)
(* rank when the time for the dump is over.                                *)
(*                                                                         *)
(* Of a rank's frames the model keeps whether there are any; the text of a *)
(* line, its location in the code catalogue, the size limits and the       *)
(* counts in the report are left out.                                      *)
EXTENDS Integers

CONSTANTS Rank, Conn, None,
  ReaderLimit                       \* readers: two per rank

ASSUME SnapshotsAssumption ==
  None \notin Rank \cup Conn /\ ReaderLimit \in Nat \ {0}

Caller == {"monitor", "events"}

VARIABLES
  stage,                            \* where each connection's reader is
  key,                              \* the rank a connection says it is
  readers,                          \* permits left
  peers,                            \* the connection registered for a rank
  frames,                           \* ranks with frames
  requested, active, stopped,
  trace_acks,                       \* ranks whose NCCL snapshot arrived
  caller,                           \* where each call of request is
  left,                             \* the ranks its thread has to report
  taken,                            \* the frames and acks its thread took
  reports,                          \* history: the reports of each rank
  answered                          \* history: ranks with data received since
                                    \* the request
conns == <<stage, key, readers, peers>>
asks  == <<requested, active, trace_acks, caller, left, taken, reports>>
snapshotVars == <<conns, frames, answered, asks, stopped>>

(* StackSnapshots.__init__                                                 *)
SnapshotInit ==
  /\ stage = [c \in Conn |-> "out"] /\ key = [c \in Conn |-> None]
  /\ readers = ReaderLimit /\ peers = [k \in Rank |-> None]
  /\ frames = {} /\ answered = {} /\ trace_acks = {}
  /\ requested = FALSE /\ active = FALSE /\ stopped = FALSE
  /\ caller = [q \in Caller |-> "idle"] /\ left = [q \in Caller |-> {}]
  /\ taken = [q \in Caller |-> [frames |-> {}, acks |-> {}]]
  /\ reports = [k \in Rank |-> {}]

-----------------------------------------------------------------------------
(* _accept and _read                                                       *)

(* A connection without a permit is closed at once.                        *)
Accept(c) ==
  /\ ~stopped /\ stage[c] = "out" /\ readers > 0
  /\ readers' = readers - 1
  /\ stage' = [stage EXCEPT ![c] = "hello"]
  /\ UNCHANGED <<key, peers, frames, answered, asks, stopped>>

(* The hello line names a rank, or the reader ends; whether the rank's     *)
(* file holds the peer's pid and "ready" follows in time is open.          *)
Hello(c, k, ok) ==
  /\ stage[c] = "hello"
  /\ key' = [key EXCEPT ![c] = k]
  /\ stage' = [stage EXCEPT ![c] = IF ok /\ k # None THEN "named" ELSE "finally"]
  /\ UNCHANGED <<readers, peers, frames, answered, asks, stopped>>

(* The first connection of a rank is its peer; a second one ends.          *)
Register(c) ==
  /\ stage[c] = "named"
  /\ IF peers[key[c]] = None
     THEN /\ peers' = [peers EXCEPT ![key[c]] = c]
          /\ stage' = [stage EXCEPT ![c] = "stream"]
     ELSE /\ stage' = [stage EXCEPT ![c] = "finally"]
          /\ UNCHANGED peers
  /\ UNCHANGED <<key, readers, frames, answered, asks, stopped>>

(* Mutant: what arrives before a request is kept as well.                  *)
WantedAlways == TRUE

Wanted == active

(* Data arrives; it is dropped unless a request is active now.             *)
Receive(c) ==
  /\ stage[c] = "stream" /\ ~stopped
  /\ Wanted
  /\ stage' = [stage EXCEPT ![c] = "parse"]
  /\ answered' = IF requested THEN answered \cup {key[c]} ELSE answered
  /\ UNCHANGED <<key, readers, peers, frames, asks, stopped>>

(* Its lines are frames or not; the request may be over by now.            *)
Parse(c, valid) ==
  /\ stage[c] = "parse"
  /\ frames' = IF valid THEN frames \cup {key[c]} ELSE frames
  /\ stage' = [stage EXCEPT ![c] = "stream"]
  /\ UNCHANGED <<key, readers, peers, answered, asks, stopped>>

(* End of file, a socket error, or the loop finds stop.                    *)
Hangup(c) ==
  /\ stage[c] = "stream"
  /\ stage' = [stage EXCEPT ![c] = "finally"]
  /\ UNCHANGED <<key, readers, peers, frames, answered, asks, stopped>>

(* Only the registered connection itself is removed.                       *)
Without(c) == [k \in Rank |-> IF peers[k] = c THEN None ELSE peers[k]]

(* The finally clause; the slot is used for another connection later.      *)
Finally(c) ==
  /\ stage[c] = "finally"
  /\ peers' = Without(c)
  /\ stage' = [stage EXCEPT ![c] = "out"]
  /\ readers' = readers + 1
  /\ key' = [key EXCEPT ![c] = None]
  /\ UNCHANGED <<frames, answered, asks, stopped>>

-----------------------------------------------------------------------------
(* request, _finish, acknowledge and close                                 *)

AlreadyRequested == requested

(* The first call wins, under the lock.                                    *)
Request(q) ==
  /\ caller[q] = "idle"
  /\ requested' = TRUE
  /\ IF AlreadyRequested
     THEN caller' = [caller EXCEPT ![q] = "done"] /\ UNCHANGED active
     ELSE caller' = [caller EXCEPT ![q] = "signalling"] /\ active' = TRUE
  /\ UNCHANGED <<conns, frames, answered, stopped, trace_acks, left, taken, reports>>

(* The ranks are signalled, whatever comes of it, and _finish starts.      *)
SignalRanks(q) ==
  /\ caller[q] = "signalling"
  /\ caller' = [caller EXCEPT ![q] = "sleep"]
  /\ UNCHANGED <<conns, frames, answered, stopped, requested, active, trace_acks, left,
                 taken, reports>>

(* Mutant: a rank without frames is left out.                              *)
AskedRanks == frames

(* The ranks the report is about: all of them.                             *)
ReportedRanks == Rank

(* SNAPSHOT_SECONDS are over: what is there is taken, under the lock.      *)
Take(q) ==
  /\ caller[q] = "sleep"
  /\ active' = FALSE
  /\ taken' = [taken EXCEPT ![q] = [frames |-> frames, acks |-> trace_acks]]
  /\ frames' = {}
  /\ left' = [left EXCEPT ![q] = ReportedRanks]
  /\ caller' = [caller EXCEPT ![q] = "emit"]
  /\ UNCHANGED <<conns, answered, stopped, requested, trace_acks, reports>>

(* The third field: nccl_snapshot_unavailable is reported as well.         *)
Emit(q, k) ==
  /\ caller[q] = "emit" /\ k \in left[q]
  /\ left' = [left EXCEPT ![q] = @ \ {k}]
  /\ reports' = [reports EXCEPT ![k] = @ \cup
       {<<q, IF k \in taken[q].frames THEN "complete" ELSE "unavailable",
          k \notin taken[q].acks>>}]
  /\ UNCHANGED <<conns, frames, answered, stopped, requested, active, trace_acks, caller,
                 taken>>

(* A rank's NCCL snapshot was seen.                                        *)
AckTrace(k) ==
  /\ k \notin trace_acks
  /\ trace_acks' = trace_acks \cup {k}
  /\ UNCHANGED <<conns, frames, answered, stopped, requested, active, caller, left, taken,
                 reports>>

(* The event thread of the supervisor reads the records of the workers.    *)
(* One that is not reviewed is dropped; the end of a rank's NCCL snapshot, *)
(* or the reason there is none, is acknowledged, and a watchdog timeout, a *)
(* failed rank or an abort asks for a snapshot.                            *)
EventRecord == {"nccl", "failure", "other", "unreviewed"}
reviewed_event(e) == e # "unreviewed"
collect_events(e, k) ==
  /\ reviewed_event(e)
  /\ \/ e = "nccl" /\ AckTrace(k)
     \/ e = "failure" /\ Request("events")

(* Accepting ends, and the registered connections are shut down.           *)
Close ==
  /\ ~stopped /\ stopped' = TRUE
  /\ UNCHANGED <<conns, frames, answered, asks>>

ReaderStep(c) ==
  \/ \E k \in Rank \cup {None}, ok \in BOOLEAN : Hello(c, k, ok)
  \/ Register(c) \/ Finally(c)
  \/ \E valid \in BOOLEAN : Parse(c, valid)
  \/ stopped /\ Hangup(c)

FinishStep(q) == SignalRanks(q) \/ Take(q) \/ \E k \in Rank : Emit(q, k)

SnapshotNext ==
  \/ \E c \in Conn : Accept(c) \/ Receive(c) \/ Hangup(c) \/ ReaderStep(c)
  \/ Request("monitor") \/ \E q \in Caller : FinishStep(q)
  \/ \E e \in EventRecord, k \in Rank : collect_events(e, k)
  \/ Close

(* The threads run: the hello has a deadline and the dump has one.  No     *)
(* rank has to send anything.                                              *)
SnapshotFairness ==
  /\ \A c \in Conn : WF_snapshotVars(ReaderStep(c))
  /\ \A q \in Caller : WF_snapshotVars(FinishStep(q))

SnapshotSpec == SnapshotInit /\ [][SnapshotNext]_snapshotVars /\ SnapshotFairness

-----------------------------------------------------------------------------
(* Two callers that ask at the same time produce one report per rank, and  *)
(* a dump is called complete only with data received after the request.    *)
OneFreshReport ==
  \A k \in Rank :
    /\ \A r, s \in reports[k] : r = s
    /\ \A r \in reports[k] : r[2] = "complete" => k \in answered

(* Once a snapshot was asked for every rank is reported and, after close,  *)
(* every reader ends, also when no worker ever answers.                    *)
SnapshotEnds ==
  /\ requested ~> \A k \in Rank : reports[k] # {}
  /\ stopped ~> readers = ReaderLimit
=============================================================================
