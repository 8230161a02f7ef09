---------------------------- MODULE SimScheduler ----------------------------
(***************************************************************************)
(* The simulator's clock.  SGLang's scheduler loop runs as it is; hooks    *)
(* around it hold requests back until the logical clock reaches them,      *)
(* advance the clock by predicted latencies and note times per request.    *)
(* OFFLINE: a session's requests are collected first and then released by  *)
(* their created time.  BLOCKING: requests are released as they come, the  *)
(* loop sleeps for the predicted time, and the clock follows real time.    *)
(*                                                                         *)
(* A session is what the benchmark client does: a profile request to       *)
(* begin, the requests, a profile request to end.  One step of the loop is *)
(* one action: Recv, Select, RunBatch, ProcessBatch.  A tick is the        *)
(* smallest difference of two times; Eps is the 1e-6 of the idle jump.     *)
(***************************************************************************)
EXTENDS Integers, Sequences, Functions, FiniteSetsExt, TLC

CONSTANTS
  Gen,        \* requests of the session, with simulation parameters
  Warm,       \* a warm-up request, without them
  Created,    \* [Gen -> Nat]: their created times
  Tokens,     \* max_new_tokens
  Eps, Wait,  \* the idle jump's 1e-6, and the 5 ms of a pass that prefetches
  Setups,     \* servers: [mode, overlap, extend, decode], the last two the
              \* predictor's answers for a prefill and a decode batch
  Transfers,  \* pairs of host and device indices that a batch may load
  Delay,      \* how long real time may be late
  MaxEvents   \* bound on delays of real time, loads, cut prefills and waiting passes

VARIABLES
  simMode,  \* "off" | "OFFLINE" | "BLOCKING"
  client,   \* [at, unsent, warmed, first]: the benchmark client
  disp,     \* ReqDispatcher: immediate release, future queue, all received
  clk,      \* StateManager: clock, real (last_real_time_ts), cur, last, load; now
  stats,    \* request_stats_manager: by request, times and least token latency
  sgl,      \* SGLang: where the loop is, waiting queue, running requests, batch, output
  report,   \* what the last profile request wrote
  ledger    \* for the properties: what sets the clocks apart, events so far

simVars == <<simMode, client, disp, clk, stats, sgl, report, ledger>>

AnyReq == Gen \cup {Warm}
NoStats == [created |-> -1, seen |-> 0, start |-> -1, end |-> -1, least |-> 0, tokens |-> 0]
NoClock(now) == [clock |-> 0, real |-> 0, cur |-> 0, last |-> 0, load |-> 0, now |-> now]
NoLedger == [slack |-> 0, events |-> 0]

SimAssumption ==
  /\ \A r \in Gen : Created[r] \in Nat
  /\ Tokens \in Nat \ {0} /\ Eps \in Nat \ {0} /\ Wait \in Nat \ {0}
  /\ MaxEvents \in Nat /\ Warm \notin Gen
  /\ \A u \in Setups : /\ u.mode \in {"OFFLINE", "BLOCKING"} /\ u.overlap \in BOOLEAN
                        /\ u.extend \in Nat /\ u.decode \in Nat
  /\ Delay \subseteq Nat /\ 0 \in Delay
  /\ \A t \in Transfers : Len(t[1]) \in Nat /\ Len(t[1]) = Len(t[2])
ASSUME SimAssumption

SimInit ==
  /\ simMode = "off"
  /\ client = [at |-> "start", unsent |-> Gen, warmed |-> FALSE, first |-> -1]
  /\ disp = [immediate |-> <<>>, future |-> <<>>, all |-> FALSE]
  /\ clk = NoClock(1) /\ stats = [r \in {} |-> NoStats]
  /\ sgl = [at |-> "recv", waiting |-> <<>>, running |-> {}, batch |-> {}, part |-> <<>>,
            out |-> [r \in AnyReq |-> 0], overlap |-> FALSE, extend |-> 0, decode |-> 0]
  /\ report = [made |-> FALSE] /\ ledger = NoLedger

\* wrapped_init: the mode of the environment, the overlap of the server arguments
\* and the predictor.
SimStart(u) ==
  /\ simMode = "off" /\ simMode' = u.mode
  /\ sgl' = [sgl EXCEPT !.overlap = u.overlap, !.extend = u.extend, !.decode = u.decode]
  /\ UNCHANGED <<client, disp, clk, stats, report, ledger>>

\* get_req_stats makes an entry on first use.
Stat(r) == IF r \in DOMAIN stats THEN stats[r] ELSE NoStats

(************************** receive and dispatch ***************************)

\* Mutant: one request more than the session has is waited for.
ReceivedMore(queue) == Len(queue) > Cardinality(Gen)

\* The queue is as long as the last request says the session is (total_request).
AllReceived(queue) == queue # <<>> /\ Len(queue) = Cardinality(Gen)

\* add: a request with simulation parameters goes to the future queue until the
\* last one of the session came; everything else is released at once.  (The queue
\* is a heap from then on: here its order no longer matters.)
Added(reqs) ==
  LET direct == simMode = "BLOCKING" \/ disp.all
      later  == IF direct THEN <<>> ELSE SelectSeq(reqs, LAMBDA r : r \in Gen)
      queue  == disp.future \o later
  IN [immediate |-> disp.immediate \o (IF direct THEN reqs ELSE SelectSeq(reqs, LAMBDA r : r \notin Gen)),
      future |-> queue,
      all |-> disp.all \/ AllReceived(queue)]

\* Mutant: a request is released whatever the clock shows.
DueAtOnce(d) == {r \in Range(d.future) : simMode = "OFFLINE" /\ d.all}

\* What the dispatcher releases: once all are there, those the clock has reached.
Due(d) == {r \in Range(d.future) : simMode = "OFFLINE" /\ d.all /\ Created[r] <= clk.clock}

\* The elements of S, none after one that is before it.
Sorted(S, Before(_, _)) ==
  LET First(T) == CHOOSE x \in T : \A y \in T : ~Before(y, x)
      InOrder[T \in SUBSET S] == IF T = {} THEN <<>> ELSE <<First(T)>> \o InOrder[T \ {First(T)}]
  IN InOrder[S]

\* The order in which the heap gives them up: by created time.
ByCreated(S) == Sorted(S, LAMBDA a, b : Created[a] < Created[b])

\* dispatch of one generation request with parameters notes its times.
Dispatched(r, now, early) ==
  IF simMode = "BLOCKING"
  THEN [Stat(r) EXCEPT !.created = now - early, !.seen = now - early, !.start = now]
  ELSE [Stat(r) EXCEPT !.created = Created[r], !.seen = Created[r], !.start = clk.clock]

\* The first dispatch after a reset sets both clocks.
ClockAfterDispatch(released, now) ==
  IF released # <<>> /\ clk.real = 0
  THEN [clk EXCEPT !.now = now, !.real = now, !.clock = IF simMode = "BLOCKING" THEN now ELSE 0]
  ELSE [clk EXCEPT !.now = now]

\* wrapped_recv_requests: add, dispatch, and SGLang puts what is released into
\* its waiting queue.
RecvRequests(reqs, now, early) ==
  LET d        == Added(reqs)
      released == d.immediate \o ByCreated(Due(d))
      noted    == {r \in Range(released) : r \in Gen}
  IN /\ disp' = [d EXCEPT !.immediate = <<>>,
                          !.future = SelectSeq(d.future, LAMBDA r : r \notin Due(d))]
     /\ stats' = [r \in noted |-> Dispatched(r, now, early)] @@ stats
     /\ clk' = ClockAfterDispatch(released, now)
     /\ sgl' = [sgl EXCEPT !.at = "select",
                           !.waiting = @ \o released]

\* Delays of real time, MaxEvents of them and of other events in all.  OFFLINE uses real time for
\* its CPU overhead only.
Delays == IF ledger.events < MaxEvents THEN Delay ELSE {0}
Real == IF simMode = "BLOCKING" THEN Delays ELSE {0}

\* The loop's first step.  What the client sent since the last one arrives in any
\* order; idle is the time since the last step, early how much before now the
\* server's front end took the request.
Recv(reqs, idle, early) ==
  /\ simMode # "off" /\ sgl.at = "recv"
  /\ Range(reqs) \subseteq client.unsent /\ (reqs # <<>> => client.at = "session")
  /\ client' = [client EXCEPT !.unsent = @ \ Range(reqs),
                              !.first = IF @ = -1 /\ reqs # <<>> THEN Created[Head(reqs)] ELSE @]
  /\ RecvRequests(reqs, clk.now + idle, early)
  /\ ledger' = [ledger EXCEPT !.events = @ + idle + early]
  /\ UNCHANGED <<simMode, report>>

\* The server's warm-up, or a health check, before the session.
RecvWarm ==
  /\ simMode # "off" /\ sgl.at = "recv" /\ client.at = "start" /\ ~client.warmed
  /\ client' = [client EXCEPT !.warmed = TRUE]
  /\ RecvRequests(<<Warm>>, clk.now, 0) /\ UNCHANGED <<simMode, report, ledger>>

(******************************* select ************************************)

ClockJumps == [clk EXCEPT !.clock = Created[Head(disp.future)] + Eps]

\* wrapped_get_new_batch_prefill, SGLang admits the first n of the waiting queue.
\* cut: the last of them gets only a chunk of its prefill.
Admit(n, cut) ==
  LET new == Range(SubSeq(sgl.waiting, 1, n))
  IN /\ sgl.at = "select" /\ n \in 1..Len(sgl.waiting)
     /\ cut => ledger.events < MaxEvents
     /\ ledger' = IF cut THEN [ledger EXCEPT !.events = @ + 1] ELSE ledger
     /\ stats' = [r \in new |-> [Stat(r) EXCEPT !.end =
                    IF @ # -1 THEN @ ELSE IF simMode = "BLOCKING" THEN clk.now ELSE clk.clock]] @@ stats
     /\ sgl' = [sgl EXCEPT !.at = "run", !.batch = new, !.part = IF cut THEN <<sgl.waiting[n]>> ELSE <<>>,
                           !.waiting = SubSeq(@, n + 1, Len(@))]
     /\ UNCHANGED <<simMode, client, disp, clk, report>>

\* SGLang admits nothing, nothing runs, requests wait: they wait for a prefetch.
WaitForPrefetch ==
  /\ sgl.at = "select" /\ sgl.running = {} /\ sgl.waiting # <<>> /\ ledger.events < MaxEvents
  /\ clk' = [clk EXCEPT !.clock = @ + Wait, !.last = clk.cur, !.cur = Wait]
  /\ ledger' = [ledger EXCEPT !.events = @ + 1, !.slack = @ + Wait]
  /\ sgl' = [sgl EXCEPT !.at = "recv"]
  /\ UNCHANGED <<simMode, client, disp, stats, report>>

\* SGLang admits nothing and decodes what runs, or idles.  An idle OFFLINE loop
\* jumps to the head of the future queue, whether all requests came or not.
Continue ==
  /\ sgl.at = "select" /\ (sgl.running # {} \/ sgl.waiting = <<>>)
  /\ clk' = IF simMode = "OFFLINE" /\ disp.future # <<>> /\ sgl.running = {} THEN ClockJumps ELSE clk
  /\ sgl' = IF sgl.running = {} THEN [sgl EXCEPT !.at = "recv"]
            ELSE [sgl EXCEPT !.at = "run", !.batch = sgl.running, !.part = <<>>]
  /\ UNCHANGED <<simMode, client, disp, stats, report, ledger>>

(******************************** run **************************************)

\* compute_contiguous_index_lengths: a transfer is cut where host or device indices
\* are not consecutive.
Cuts(host, device) ==
  {i \in 2..Len(host) : host[i] # host[i - 1] + 1 \/ device[i] # device[i - 1] + 1}
SegmentCount(host, device) == IF host = <<>> THEN 0 ELSE Cardinality(Cuts(host, device)) + 1

\* _sim_load_to_device_per_layer: each segment costs a fixed overhead and its size
\* over the bandwidth, which is what estimate_bandwidth amounts to.
load_to_device(t) == SegmentCount(t[1], t[2]) + Len(t[1])

\* predict_infer_time looks the batch up by its shape.
predict_infer_time ==
  IF sgl.batch \subseteq sgl.running THEN sgl.decode ELSE sgl.extend

Counted(t, late) == [ledger EXCEPT !.events = @ + late + (IF t[1] = <<>> THEN 0 ELSE 1)]

\* Mutant: the stamp of real time is not moved by the forward.
RunBatchKeepsReal(late, t) ==
  LET latency == predict_infer_time
      now     == clk.now + latency + late
  IN /\ sgl.at = "run" /\ sgl' = [sgl EXCEPT !.at = "process"]
     /\ clk' = [clk EXCEPT !.last = clk.cur, !.load = @ + load_to_device(t),
                  !.cur = IF simMode = "BLOCKING" THEN now - clk.real ELSE latency,
                  !.now = IF simMode = "BLOCKING" THEN now ELSE @]
     /\ ledger' = Counted(t, late)
     /\ UNCHANGED <<simMode, client, disp, stats, report>>

\* wrapped_run_batch.  BLOCKING sleeps, and the forward latency is the real time
\* since the last stamp, idle time included.
RunBatch(late, t) ==
  LET latency == predict_infer_time
      now     == clk.now + latency + late
  IN /\ sgl.at = "run" /\ sgl' = [sgl EXCEPT !.at = "process"]
     /\ clk' = IF simMode = "BLOCKING"
               THEN [clk EXCEPT !.last = clk.cur, !.cur = now - clk.real, !.now = now, !.real = now,
                                !.load = @ + load_to_device(t)]
               ELSE [clk EXCEPT !.last = clk.cur, !.cur = latency, !.load = @ + load_to_device(t)]
     /\ ledger' = Counted(t, late)
     /\ UNCHANGED <<simMode, client, disp, stats, report>>

(****************************** process ************************************)

effective_l2_load_delay(load, last, overlap) ==
  IF overlap THEN Max({load - last, 0}) ELSE load

\* SGLang's part: a token for each request of the batch but a cut one, which waits
\* again at the front.
Served(S) ==
  LET out  == [r \in AnyReq |-> IF r \in S THEN sgl.out[r] + 1 ELSE sgl.out[r]]
      live == {r \in sgl.running \cup S : out[r] < Tokens}
  IN [sgl EXCEPT !.at = "recv", !.out = out, !.running = live, !.batch = {}, !.part = <<>>,
                 !.waiting = sgl.part \o @]

\* wrapped_process_batch_result.  over is how long a sleep for the visible load
\* overslept, cpu the time SGLang itself took.
ProcessBatch(over, cpu) ==
  LET visible == effective_l2_load_delay(clk.load, clk.last, sgl.overlap)
      blocked == IF simMode = "BLOCKING" /\ visible > 0 THEN visible + over ELSE 0
      now     == clk.now + blocked + cpu
      spent   == Max({now - clk.real - blocked, 0})
      clock   == clk.clock + visible + clk.cur + (IF simMode = "BLOCKING" THEN spent ELSE cpu)
      served  == sgl.batch \ Range(sgl.part)
  IN /\ sgl.at = "process" /\ sgl' = Served(served)
     /\ clk' = [clk EXCEPT !.clock = clock, !.load = 0,
                  !.now = IF simMode = "BLOCKING" THEN now ELSE @,
                  !.real = IF simMode = "BLOCKING" THEN now ELSE @]
     /\ stats' = [r \in served |-> [Stat(r) EXCEPT !.least = Min({@, clock - Stat(r).seen}),
                                                   !.tokens = @ + 1, !.seen = clock]] @@ stats
     /\ ledger' = [ledger EXCEPT !.events = @ + over + cpu,
                                 !.slack = @ - (IF blocked > 0 THEN over ELSE 0)]
     /\ UNCHANGED <<simMode, client, disp, report>>

(****************************** profile ************************************)

\* calc_metrics: a request is active in [created, last event).  The events are
\* swept by time, ends before starts at the same time.
Events(R) == {<<stats[r].created, 1, r>> : r \in R} \cup {<<stats[r].seen, -1, r>> : r \in R}

\* Mutant: starts come before ends at the same time.
StartsFirst(a, b) == a[1] < b[1] \/ (a[1] = b[1] /\ a[2] > b[2])
EventsBefore(a, b) == a[1] < b[1] \/ (a[1] = b[1] /\ a[2] < b[2])

max_concurrent_requests(R) ==
  LET sorted == Sorted(Events(R), EventsBefore)
      Sum[i \in 0..Len(sorted)] == IF i = 0 THEN 0 ELSE Sum[i - 1] + sorted[i][2]
  IN Max({Sum[i] : i \in 0..Len(sorted)})

\* The times of a report count from its earliest request.
Aligned(q) ==
  LET first == Min({q[r].created : r \in DOMAIN q})
  IN [r \in DOMAIN q |-> [created |-> q[r].created - first, seen |-> q[r].seen - first]]

\* override_profile: write the metrics of what was noted, then reset everything.
Profile(next) ==
  LET R == DOMAIN stats
  IN /\ report' = IF R = {} THEN report
                  ELSE [made |-> TRUE, requests |-> Aligned(stats), concurrent |-> max_concurrent_requests(R)]
     /\ clk' = NoClock(clk.now) /\ stats' = [r \in {} |-> NoStats]
     /\ disp' = [immediate |-> <<>>, future |-> <<>>, all |-> FALSE]
     /\ client' = [client EXCEPT !.at = next]
     /\ ledger' = [ledger EXCEPT !.slack = 0]
     /\ UNCHANGED <<simMode, sgl>>

\* The client waits for the answers before it asks for the end of the profile.
Finished == client.unsent = {} /\ \A r \in Gen : sgl.out[r] = Tokens
Quiet == simMode # "off" /\ sgl.at = "recv" /\ sgl.running = {} /\ sgl.waiting = <<>>

StartProfile == Quiet /\ client.at = "start" /\ Profile("session")
StopProfile  == Quiet /\ client.at = "session" /\ Finished /\ Profile("done")

SimLoop ==
  \/ \E n \in 1..Cardinality(AnyReq), cut \in BOOLEAN : Admit(n, cut)
  \/ Continue
  \/ \E late \in Real, t \in Transfers :
       (t[1] # <<>> => ledger.events < MaxEvents) /\ RunBatch(late, t)
  \/ \E over \in Real, cpu \in Delays : ProcessBatch(over, cpu)

Arrivals == {<<>>} \cup {<<r>> : r \in Gen} \cup {<<a, b>> : a, b \in Gen}

SimNext ==
  \/ \E u \in Setups : SimStart(u)
  \/ \E reqs \in Arrivals, idle, early \in Real : IsInjective(reqs) /\ Recv(reqs, idle, early)
  \/ RecvWarm \/ WaitForPrefetch \/ SimLoop \/ StartProfile \/ StopProfile

SimSpec == SimInit /\ [][SimNext]_simVars

\* The loop goes on and the client sends what it has: SF, because a request is
\* taken only at the loop's first step.
ClientStep == StartProfile \/ StopProfile \/ \E r \in Gen : Recv(<<r>>, 0, 0)

SimFairness == WF_simVars(SimLoop \/ Recv(<<>>, 0, 0)) /\ SF_simVars(ClientStep)

-----------------------------------------------------------------------------
\* An OFFLINE session whose first request to arrive was created at 0 serves no
\* request before it was created, releases none before all are there, and its
\* clock never runs backwards past a token: no latency is negative, although the
\* first dispatch sets the clock back to 0 after an idle jump.
ServedAfterCreated ==
  (simMode = "OFFLINE" /\ client.at = "session" /\ client.first = 0) =>
     \A r \in DOMAIN stats \ {Warm} :
       /\ client.unsent = {}
       /\ stats[r].least = 0
       /\ stats[r].end # -1 => stats[r].end >= Created[r]

\* BLOCKING follows real time: from the first dispatch on, whenever the loop is at
\* its first step, the clock is the stamp of real time, ahead by the waiting passes
\* and behind by what sleeps for a load overslept.  Idle time, forward time, load
\* time and CPU time are each counted once.
ClockIsReal ==
  (simMode = "BLOCKING" /\ sgl.at = "recv" /\ clk.real # 0)
    => clk.clock - clk.real = ledger.slack

\* The concurrency a report states is the largest number of requests that were
\* active at one time, unless a latency is negative.
ConcurrencyRight ==
  LET q == report.requests
      Active(t) == {r \in DOMAIN q : q[r].created <= t /\ t < q[r].seen}
  IN (report.made /\ \A r \in DOMAIN q : q[r].created <= q[r].seen) =>
       report.concurrent = Max({0} \cup {Cardinality(Active(q[r].created)) : r \in DOMAIN q})

\* A session ends: every request is released, served and reported, in any order
\* of arrival.
SessionEnds == (client.at = "session") ~> (client.at = "done")
=============================================================================
