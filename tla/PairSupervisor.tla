--------------------------- MODULE PairSupervisor ---------------------------
(* The supervisor of one prefill/decode pair                               *)
(* (images/sglang/pair_supervisor.py): it starts the model gate, then the  *)
(* prefill and the decode worker one after the other, watches them, and    *)
(* ends all of them when one fails or a signal arrives.                    *)
(*                                                                         *)
(* Times are ages counted in ticks and capped where no comparison can tell *)
(* them apart.  A rank's record keeps one age, the larger of the two that  *)
(* rank_status compares with the same budget (CPU heartbeat, oldest GPU    *)
(* work); an invalid record counts as "failed".  The workers, the model    *)
(* gate and the network are the environment: children exit, ranks die,     *)
(* hang or report, probes fail at any time.                                *)
EXTENDS Integers, FiniteSets

CONSTANTS
  StartupTimeout,                   \* startupTimeoutSeconds
  ProgressTimeout,                  \* progressTimeoutSeconds
  ProbeEvery,                       \* 2 s between two HTTP probes of a worker
  ProbeFailures,                    \* 3 failed probes in a row fail a worker
  Fresh,                            \* 5 s a snapshot is served for
  PassTime,                         \* a monitor pass: two 0.5 s probe timeouts
  MaxFaults                         \* children and ranks that go wrong

ASSUME PairAssumption ==
  /\ StartupTimeout \in Nat \ {0}
  /\ ProgressTimeout \in 1 .. StartupTimeout
  /\ ProbeEvery \in Nat \ {0}
  /\ ProbeFailures \in Nat \ {0}
  /\ Fresh \in Nat \ {0}
  /\ PassTime \in Nat
  /\ MaxFaults \in Nat

VARIABLES
  pc,                               \* where the main thread is
  target,                           \* the worker that start() warms up
  subject,                          \* what the current pass looks at
  probing,                          \* worker_state waits for its HTTP answer
  worst,                            \* the worst state of this monitor pass
  passAge,                          \* age of this monitor pass
  lost,                             \* a child had exited when the pass began
  stop, failed,                     \* the event and the flag
  leader,                           \* the process Popen started
  rest,                             \* the rank process lives in its group
  marker,                           \* engram.ready
  record,                           \* the rank's file
  known,                            \* rank_pids holds the rank's pid
  checked, failures, ever_ready,    \* http_state
  started,                          \* age of the supervisor
  snapshot                          \* what the status handler reads

pass  == <<target, subject, probing, worst, passAge, lost>>
flags == <<stop, failed>>
procs == <<leader, rest>>
files == <<marker, record>>
http  == <<checked, failures, ever_ready>>
vars  == <<pc, pass, flags, procs, files, known, http, started, snapshot>>

Role  == {"prefill", "decode"}
Child == {"model"} \cup Role

(* The oldest record a snapshot can be served with, plus one.              *)
AgeCap == (IF StartupTimeout > ProgressTimeout + PassTime + Fresh
           THEN StartupTimeout ELSE ProgressTimeout + PassTime + Fresh) + 1

(* One more, up to the value from which no comparison tells the difference.*)
Older(age, cap) == IF age < cap THEN age + 1 ELSE age

(* mine: written by a process of this supervisor.                          *)
NoRecord == [state |-> "none", age |-> 0, mine |-> TRUE]

(* Supervisor.__init__: nothing is started yet.                            *)
Init ==
  /\ pc = "boot"
  /\ target = "prefill" /\ subject = "none" /\ probing = FALSE
  /\ worst = "ready" /\ passAge = 0 /\ lost = FALSE
  /\ stop = FALSE /\ failed = FALSE
  /\ leader = [c \in Child |-> "none"] /\ rest = [r \in Role |-> FALSE]
  /\ known = [r \in Role |-> FALSE]
  /\ checked = [r \in Role |-> ProbeEvery]
  /\ failures = [r \in Role |-> 0] /\ ever_ready = [r \in Role |-> FALSE]
  /\ started = 0 /\ snapshot = [state |-> "starting", age |-> 0]
  /\ marker = "none" /\ record = [r \in Role |-> NoRecord]

-----------------------------------------------------------------------------
(* start                                                                   *)

(* new_generation: an empty directory for this supervisor.                 *)
NewGeneration ==
  /\ marker' = "none" /\ record' = [r \in Role |-> NoRecord]

(* The sockets, the status server and the model gate; any of them can      *)
(* raise, which main answers with shutdown.                                *)
Start ==
  /\ pc = "boot"
  /\ NewGeneration
  /\ \/ /\ pc' = "gate"
        /\ leader' = [leader EXCEPT !["model"] = "running"]
        /\ UNCHANGED snapshot
     \/ /\ pc' = "term"
        /\ snapshot' = [state |-> "failed", age |-> 0]
        /\ UNCHANGED leader
  /\ UNCHANGED <<pass, flags, rest, known, http, started>>

Fail == failed' = TRUE /\ stop' = TRUE

(* Mutant: startup has no end.                                             *)
StartupNeverOver == FALSE

StartupOver == started > StartupTimeout

(* One turn of the loop that waits for the model's marker.                 *)
GatePoll ==
  /\ pc = "gate" /\ ~stop
  /\ \/ /\ leader["model"] = "exited"
        /\ Fail /\ UNCHANGED pc
     \/ /\ leader["model"] # "exited" /\ marker # "none"
        /\ pc' = "launch" /\ UNCHANGED flags
     \/ /\ leader["model"] # "exited" /\ marker = "none"
        /\ StartupOver
        /\ Fail /\ UNCHANGED pc
  /\ UNCHANGED <<pass, procs, files, known, http, started, snapshot>>

(* The next worker is started, unless Popen raises.                        *)
Launch ==
  /\ pc = "launch" /\ ~stop
  /\ \/ /\ pc' = "warm"
        /\ leader' = [leader EXCEPT ![target] = "running"]
        /\ UNCHANGED snapshot
     \/ /\ pc' = "term"
        /\ snapshot' = [state |-> "failed", age |-> 0]
        /\ UNCHANGED leader
  /\ UNCHANGED <<pass, flags, rest, files, known, http, started>>

SomeExited == \E c \in Child : leader[c] = "exited"

(* Mutant: the workers started before are not looked at.                   *)
FirstOwn == target

(* The workers started before are looked at first.                         *)
FirstLooked == "prefill"

(* One turn of the loop that waits for the worker begins with the model    *)
(* and goes on with the workers started before.                            *)
WarmBegin ==
  /\ pc = "warm" /\ subject = "none" /\ ~stop
  /\ lost' = SomeExited
  /\ \/ /\ leader["model"] = "exited"
        /\ Fail /\ UNCHANGED subject
     \/ /\ leader["model"] # "exited"
        /\ subject' = FirstLooked
        /\ UNCHANGED flags
  /\ UNCHANGED <<pc, target, probing, worst, passAge, procs, files, known, http,
                 started, snapshot>>

-----------------------------------------------------------------------------
(* worker_state                                                            *)

(* Mutant: the startup budget stays for good.                              *)
BudgetOfStartup(r) == StartupTimeout

Budget(r) == IF ever_ready[r] THEN ProgressTimeout ELSE StartupTimeout

(* rank_status.  The pid of a dead rank may be another process by now.     *)
RankState(r, reused) ==
  LET gone == record[r].state = "none" \/ (~rest[r] /\ ~reused)
  IN  CASE gone                         -> IF known[r] THEN "failed" ELSE "starting"
        [] ~gone /\ record[r].state # "live" -> record[r].state
        [] ~gone /\ record[r].state = "live" ->
             IF record[r].age > Budget(r) THEN "failed" ELSE "ready"

PidKnown(r, reused) ==
  known[r] \/ (record[r].state # "none" /\ (rest[r] \/ reused))

(* The answer of the latest probe is kept: available, when the worker was  *)
(* ready once and has not failed a probe since.                            *)
Answer(ever, fails) ==
  IF ever /\ fails = 0 THEN "ready"
  ELSE IF ever /\ fails >= ProbeFailures THEN "failed" ELSE "starting"

Worse(s, t) == IF "failed" \in {s, t} THEN "failed"
               ELSE IF "starting" \in {s, t} THEN "starting" ELSE "ready"

(* What start does with the state of a worker.  A worker started before    *)
(* counts only when it has failed.                                         *)
WarmWith(s) ==
  \/ /\ subject # target /\ s # "failed"
     /\ subject' = target /\ UNCHANGED <<pc, target, flags>>
  \/ /\ subject = target /\ s = "ready"
     /\ subject' = "none" /\ UNCHANGED flags
     /\ IF target = "prefill" THEN target' = "decode" /\ pc' = "launch"
                              ELSE pc' = "monitor" /\ UNCHANGED target
  \/ /\ \/ s = "failed"
        \/ subject = target /\ s = "starting" /\ StartupOver
     /\ subject' = "none" /\ Fail /\ UNCHANGED <<pc, target>>
  \/ /\ subject = target /\ s = "starting" /\ ~StartupOver
     /\ subject' = "none" /\ UNCHANGED <<pc, target, flags>>

(* worker_state returns s to start or to monitor.                          *)
Conclude(s) ==
  /\ probing' = FALSE
  /\ \/ pc = "warm" /\ WarmWith(s) /\ UNCHANGED worst
     \/ /\ pc = "monitor"
        /\ worst' = Worse(worst, s)
        /\ subject' = IF subject = "prefill" THEN "decode" ELSE "model"
        /\ UNCHANGED <<pc, target, flags>>

(* The leader, the rank's record, and the HTTP state of less than 2 s ago. *)
CheckWorker(reused) ==
  /\ subject \in Role /\ ~probing
  /\ LET r == subject
         s == IF leader[r] = "exited" THEN "failed" ELSE RankState(r, reused)
     IN  /\ known' = IF leader[r] = "exited" THEN known
                     ELSE [known EXCEPT ![r] = PidKnown(r, reused)]
         /\ \/ /\ s # "ready"
               /\ Conclude(s) /\ UNCHANGED http
            \/ /\ s = "ready" /\ checked[r] < ProbeEvery
               /\ Conclude(Answer(ever_ready[r], failures[r])) /\ UNCHANGED http
            \/ /\ s = "ready" /\ checked[r] >= ProbeEvery
               /\ probing' = TRUE
               /\ checked' = [checked EXCEPT ![r] = 0]
               /\ UNCHANGED <<pc, target, subject, worst, flags, failures, ever_ready>>
  /\ UNCHANGED <<passAge, lost, procs, files, started, snapshot>>

(* The probe is answered, refused or times out.                            *)
ProbeWorker(ok) ==
  /\ probing
  /\ LET r == subject
         ever == ever_ready[r] \/ ok
         fails == IF ok \/ ~ever_ready[r] THEN 0
                  ELSE Older(failures[r], ProbeFailures)
     IN  /\ ok => leader[r] = "running"
         /\ ever_ready' = [ever_ready EXCEPT ![r] = ever]
         /\ failures' = [failures EXCEPT ![r] = fails]
         /\ Conclude(Answer(ever, fails))
  /\ UNCHANGED <<passAge, lost, procs, files, known, checked, started, snapshot>>

-----------------------------------------------------------------------------
(* monitor                                                                 *)

MonitorBegin ==
  /\ pc = "monitor" /\ subject = "none" /\ ~stop
  /\ subject' = "prefill"
  /\ lost' = SomeExited
  /\ UNCHANGED <<pc, target, probing, worst, passAge, flags, procs, files, known,
                 http, started, snapshot>>

(* The model, the startup limit and the new snapshot.  A failed pair asks  *)
(* for stack snapshots and waits for them before it stops.                 *)
MonitorDecide ==
  /\ pc = "monitor" /\ subject = "model"
  /\ LET s == IF leader["model"] = "exited" THEN "failed"
              ELSE IF worst = "starting" /\ StartupOver THEN "failed"
              ELSE worst
     IN  /\ snapshot' = [state |-> s, age |-> 0]
         /\ failed' = (failed \/ s = "failed")
         /\ pc' = IF s = "failed" THEN "report" ELSE "monitor"
  /\ subject' = "none" /\ worst' = "ready" /\ passAge' = 0 /\ lost' = FALSE
  /\ UNCHANGED <<target, probing, stop, procs, files, known, http,
                 started>>

ReportDone ==
  /\ pc = "report"
  /\ stop' = TRUE /\ pc' = "monitor"
  /\ UNCHANGED <<pass, failed, procs, files, known, http, started,
                 snapshot>>

(* Every loop ends when it finds the event set, and main returns.  What    *)
(* nothing reads from here on is forgotten.                                *)
Return ==
  /\ stop /\ subject = "none" /\ pc \in {"gate", "launch", "warm", "monitor"}
  /\ pc' = "term"
  /\ snapshot' = [state |-> "failed", age |-> 0]
  /\ lost' = FALSE /\ started' = 0
  /\ known' = [r \in Role |-> FALSE]
  /\ checked' = [r \in Role |-> ProbeEvery] /\ failures' = [r \in Role |-> 0]
  /\ record' = [r \in Role |-> [record[r] EXCEPT !.age = 0]]
  /\ UNCHANGED <<target, subject, probing, worst, passAge, flags,
                 procs, marker, ever_ready>>

-----------------------------------------------------------------------------
(* shutdown                                                                *)

(* Mutant: only a group whose leader still runs is killed.                 *)
KillRunning ==
  /\ leader' = [c \in Child |-> IF leader[c] = "none" THEN "none" ELSE "exited"]
  /\ rest' = [r \in Role |-> rest[r] /\ leader[r] # "running"]

(* SIGKILL to every group that was started.                                *)
KillGroups ==
  /\ leader' = [c \in Child |-> IF leader[c] = "none" THEN "none" ELSE "exited"]
  /\ rest' = [r \in Role |-> rest[r] /\ leader[r] = "none"]

(* SIGTERM, a wait in which the children may exit, SIGKILL, and the files  *)
(* are removed.                                                            *)
Shutdown ==
  /\ pc = "term"
  /\ pc' = "exited" /\ stop' = TRUE
  /\ KillGroups
  /\ marker' = "none" /\ record' = [r \in Role |-> NoRecord]
  /\ UNCHANGED <<pass, failed, known, http, started, snapshot>>

-----------------------------------------------------------------------------
(* The environment                                                         *)

(* SIGTERM, SIGINT or SIGQUIT to the supervisor.                           *)
Signal ==
  /\ pc \in {"gate", "launch", "warm", "monitor", "report"} /\ ~stop
  /\ stop' = TRUE
  /\ UNCHANGED <<pc, pass, failed, procs, files, known, http, started, snapshot>>

EnvUnchanged == UNCHANGED <<pc, pass, flags, known, http, started, snapshot>>

Alive == pc \notin {"boot", "exited"}

CanFault ==
  Cardinality({c \in Child : leader[c] = "exited"})
    + Cardinality({r \in Role : record[r].state = "failed"})
    + Cardinality({r \in Role : record[r].state # "none" /\ ~rest[r]}) < MaxFaults

GateReady ==
  /\ Alive /\ leader["model"] = "running" /\ marker = "none"
  /\ marker' = "new"
  /\ EnvUnchanged /\ UNCHANGED <<procs, record>>

LeaderExits(c) ==
  /\ Alive /\ leader[c] = "running" /\ CanFault
  /\ leader' = [leader EXCEPT ![c] = "exited"]
  /\ EnvUnchanged /\ UNCHANGED <<rest, files>>

RankStarts(r) ==
  /\ Alive /\ leader[r] = "running" /\ ~rest[r]
  /\ record[r].state = "none" \/ ~record[r].mine
  /\ rest' = [rest EXCEPT ![r] = TRUE]
  /\ record' = [record EXCEPT ![r] = [state |-> "starting", age |-> 0, mine |-> TRUE]]
  /\ EnvUnchanged /\ UNCHANGED <<leader, marker>>

RankReports(r, s) ==
  /\ Alive /\ rest[r] /\ record[r].state \in {"starting", "live"}
  /\ s = "failed" => CanFault
  /\ record' = [record EXCEPT ![r] = [state |-> s, age |-> 0, mine |-> TRUE]]
  /\ EnvUnchanged /\ UNCHANGED <<procs, marker>>

RankDies(r) ==
  /\ Alive /\ rest[r] /\ CanFault
  /\ rest' = [rest EXCEPT ![r] = FALSE]
  /\ EnvUnchanged /\ UNCHANGED <<leader, files>>

(* Nothing reads the clock once the supervisor reports or shuts down.  The *)
(* probes bound a monitor pass.                                            *)
Tick ==
  /\ pc \in {"gate", "launch", "warm", "monitor"}
  /\ pc = "monitor" /\ subject # "none" => passAge < PassTime
  /\ passAge' = IF pc = "monitor" /\ subject # "none" THEN passAge + 1 ELSE passAge
  /\ record' = [r \in Role |-> IF record[r].state # "live" THEN record[r]
                               ELSE [record[r] EXCEPT !.age = Older(@, AgeCap)]]
  /\ checked' = [r \in Role |-> Older(checked[r], ProbeEvery)]
  /\ started' = Older(started, StartupTimeout + 1)
  /\ snapshot' = [snapshot EXCEPT !.age = IF snapshot.state = "ready"
                                          THEN Older(@, Fresh) ELSE @]
  /\ UNCHANGED <<pc, target, subject, probing, worst, lost, flags, procs, marker,
                 known, failures, ever_ready>>

(* The container ends with its first process, all of it, and is started    *)
(* again with the files it left behind.                                    *)
Restart ==
  /\ pc # "boot"
  /\ pc' = "boot"
  /\ target' = "prefill" /\ subject' = "none" /\ probing' = FALSE
  /\ worst' = "ready" /\ passAge' = 0 /\ lost' = FALSE
  /\ stop' = FALSE /\ failed' = FALSE
  /\ leader' = [c \in Child |-> "none"] /\ rest' = [r \in Role |-> FALSE]
  /\ known' = [r \in Role |-> FALSE]
  /\ checked' = [r \in Role |-> ProbeEvery]
  /\ failures' = [r \in Role |-> 0] /\ ever_ready' = [r \in Role |-> FALSE]
  /\ started' = 0 /\ snapshot' = [state |-> "starting", age |-> 0]
  /\ marker' = IF marker = "none" THEN "none" ELSE "old"
  /\ record' = [r \in Role |-> IF record[r].state = "none" THEN NoRecord
                               ELSE [record[r] EXCEPT !.mine = FALSE]]

Supervise ==
  \/ Start \/ GatePoll \/ Launch \/ WarmBegin \/ MonitorBegin \/ MonitorDecide
  \/ ReportDone \/ Return \/ Shutdown
  \/ \E b \in BOOLEAN : CheckWorker(b) \/ ProbeWorker(b)

Environment ==
  \/ Signal \/ GateReady \/ Restart
  \/ \E c \in Child : LeaderExits(c)
  \/ \E r \in Role : RankStarts(r) \/ RankDies(r)
  \/ \E r \in Role, s \in {"live", "failed"} : RankReports(r, s)

Next == Supervise \/ Environment \/ Tick

Spec == Init /\ [][Next]_vars

(* The main thread runs and time passes; nothing is asked of the children. *)
FairSpec == Spec /\ WF_vars(Supervise) /\ SF_vars(Tick)

-----------------------------------------------------------------------------
(* The status handler answers 200.                                         *)
Serving == snapshot.state = "ready" /\ snapshot.age < Fresh

(* The status handler calls a pair ready only while both ranks of this     *)
(* very generation have made progress not longer ago than the progress     *)
(* timeout, one monitor pass and the time a snapshot is served for: not on *)
(* the word of a file from before a restart, nor on the startup budget.    *)
ReadyIsProgress ==
  Serving => \A r \in Role :
    /\ record[r].mine /\ record[r].state \in {"live", "failed"}
    /\ record[r].age < ProgressTimeout + PassTime + Fresh

(* A supervisor that has ended leaves no process of a group it started,    *)
(* even when the group's leader went before its ranks.                     *)
NothingSurvives ==
  pc = "exited" => \A r \in Role : ~rest[r] /\ \A c \in Child : leader[c] # "running"

(* A child that had exited when a pass of start or of monitor began is     *)
(* found by that pass: "a previously started worker must not sit failed    *)
(* throughout the next worker's long compilation and warmup".              *)
PassNotices ==
  [][(/\ pc \in {"warm", "monitor"} /\ subject # "none" /\ subject' = "none"
      /\ lost) => (failed' \/ pc' = "boot")]_vars

(* The pair with rank r runs: every child does, and the rank is in time.   *)
Healthy(r) ==
  /\ pc = "monitor" /\ ~stop /\ ~SomeExited
  /\ record[r].state = "live" /\ record[r].age <= ProgressTimeout

(* The pair does not stay half alive: startup, a failed child, a rank that *)
(* stalls or a signal each end in a supervisor that has ended, or the pair *)
(* is healthy again.                                                       *)
PairSettles == \A r \in Role : []<>(pc \in {"boot", "exited"} \/ Healthy(r))
=============================================================================
