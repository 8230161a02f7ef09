---------------------------- MODULE RouterLauncher ----------------------------
(* private_router.py: the launcher that runs the router in a session of its *)
(* own, forwards the reviewed records of its output to stdout and the sink, *)
(* and passes signals on. Of a line the model keeps whether it yields a     *)
(* record; a stdout record may be lost to a full pipe and is left out.      *)
EXTENDS LogSink, FiniteSets

CONSTANT MaxLines   \* bound: lines the router prints

VARIABLES
  launcher,         \* where main() is
  proc,             \* the group: the router process and one it may start
  unread, lines,    \* lines in the pipe, and printed so far
  timer,            \* the timer of stop()
  signalled,        \* a handled signal arrived
  sinkOn            \* LOG_SINK is not None

launchVars == <<launcher, proc, unread, lines, timer, signalled, sinkOn, sinkVars>>

Proc == {"router", "helper"}
Alive(p) == proc[p] \in {"writing", "quiet"}   \* quiet: it closed its output
Handled == launcher \in {"reading", "waiting", "finally", "closing"}

LaunchInit ==
  /\ launcher = "idle" /\ proc = [p \in Proc |-> "none"]
  /\ unread = 0 /\ lines = 0 /\ timer = "none" /\ signalled = FALSE /\ sinkOn = FALSE
  /\ SinkInit

(* emit: a record for stdout and, while there is a sink, for it.            *)
emit(large) == IF sinkOn THEN Submit(large) ELSE UNCHANGED sinkVars

(* from_environment: no endpoint, no sink; a bad one raises.                *)
LaunchMain(endpoint) ==
  /\ launcher = "idle"
  /\ launcher' = IF endpoint = "invalid" THEN "exited" ELSE "parsing"
  /\ sinkOn' = (endpoint = "valid")
  /\ UNCHANGED <<proc, unread, lines, timer, signalled, sinkVars>>

(* A blocked flag, or a router that cannot be started, ends main() before   *)
(* its try: one record is emitted and the sink is not closed.               *)
RejectLaunch ==
  /\ launcher = "parsing"
  /\ emit(FALSE)
  /\ launcher' = "exited"
  /\ UNCHANGED <<proc, unread, lines, timer, signalled, sinkOn>>

SpawnRouter ==
  /\ launcher = "parsing"
  /\ proc' = [proc EXCEPT !["router"] = "writing"]
  /\ launcher' = "spawned"
  /\ UNCHANGED <<unread, lines, timer, signalled, sinkOn, sinkVars>>

InstallStop ==
  /\ launcher = "spawned"
  /\ launcher' = "reading"
  /\ UNCHANGED <<proc, unread, lines, timer, signalled, sinkOn, sinkVars>>

-----------------------------------------------------------------------------
(* The processes of the group: they print, start the helper, close their    *)
(* output and end, on a forwarded signal or without one; they may as well   *)
(* ignore a signal.                                                         *)
Prints(p) ==
  /\ proc[p] = "writing" /\ lines < MaxLines
  /\ lines' = lines + 1 /\ unread' = unread + 1
  /\ UNCHANGED <<launcher, proc, timer, signalled, sinkOn, sinkVars>>

Becomes(p, state) ==
  /\ \/ Alive(p) /\ state = "dead"
     \/ proc[p] = "writing" /\ state = "quiet"
     \/ p = "helper" /\ proc[p] = "none" /\ Alive("router") /\ state = "writing"
  /\ proc' = [proc EXCEPT ![p] = state]
  /\ UNCHANGED <<launcher, unread, lines, timer, signalled, sinkOn, sinkVars>>

KilledGroup == [p \in Proc |-> IF Alive(p) THEN "dead" ELSE proc[p]]

(* Mutant: only the router is killed, not its group.                        *)
KilledRouter == [proc EXCEPT !["router"] = "dead"]

kill_group == KilledGroup

(* stop: the signal goes to the group; the first one starts the timer.      *)
Stop ==
  /\ Handled
  /\ signalled' = TRUE
  /\ timer' = IF timer = "none" THEN "armed" ELSE timer
  /\ UNCHANGED <<launcher, proc, unread, lines, sinkOn, sinkVars>>

(* The timer is a daemon thread and ends with the launcher.                 *)
TimerFires ==
  /\ timer = "armed" /\ launcher # "exited"
  /\ timer' = "fired"
  /\ proc' = kill_group
  /\ UNCHANGED <<launcher, unread, lines, signalled, sinkOn, sinkVars>>

-----------------------------------------------------------------------------
(* The loop over the output. An unreviewed, malformed or overlong line      *)
(* yields nothing; another error leaves the loop as an exception.           *)
reviewed_event(kind) == kind = "event"
ReadLine(kind, large) ==
  /\ launcher = "reading" /\ unread > 0
  /\ unread' = unread - 1
  /\ IF reviewed_event(kind) THEN emit(large) ELSE UNCHANGED sinkVars
  /\ launcher' = IF kind = "raises" THEN "finally" ELSE launcher
  /\ UNCHANGED <<proc, lines, timer, signalled, sinkOn>>

EndOfOutput ==
  /\ launcher = "reading" /\ unread = 0 /\ \A p \in Proc : proc[p] # "writing"
  /\ launcher' = "waiting"
  /\ UNCHANGED <<proc, unread, lines, timer, signalled, sinkOn, sinkVars>>

WaitRouter(failed) ==
  /\ launcher = "waiting" /\ ~Alive("router")
  /\ IF failed THEN emit(FALSE) ELSE UNCHANGED sinkVars
  /\ launcher' = "finally"
  /\ UNCHANGED <<proc, unread, lines, timer, signalled, sinkOn>>

(* The finally clause: the timer, the group, the sink with its report.      *)
FinallyKill ==
  /\ launcher = "finally"
  /\ timer' = IF timer = "armed" THEN "cancelled" ELSE timer
  /\ proc' = kill_group
  /\ launcher' = IF sinkOn THEN "closing" ELSE "exited"
  /\ UNCHANGED <<unread, lines, signalled, sinkOn, sinkVars>>

CloseSink ==
  /\ launcher = "closing" /\ (CloseStop \/ CloseRead)
  /\ UNCHANGED <<launcher, proc, unread, lines, timer, signalled, sinkOn>>

Exit ==
  /\ launcher = "closing" /\ closing = "closed"
  /\ launcher' = "exited" /\ sinkOn' = FALSE
  /\ UNCHANGED <<proc, unread, lines, timer, signalled, sinkVars>>

LaunchStep ==
  \/ RejectLaunch \/ SpawnRouter \/ InstallStop \/ EndOfOutput \/ FinallyKill \/ CloseSink \/ Exit
  \/ \E kind \in {"event", "other", "raises"}, large \in BOOLEAN : ReadLine(kind, large)
  \/ \E failed \in BOOLEAN : WaitRouter(failed)

(* The thread is a daemon: it ends with the launcher.                       *)
SinkStep ==
  /\ launcher \notin {"idle", "exited"} /\ sinkOn /\ SinkThread
  /\ UNCHANGED <<launcher, proc, unread, lines, timer, signalled, sinkOn>>

LaunchNext ==
  \/ \E endpoint \in {"none", "valid", "invalid"} : LaunchMain(endpoint)
  \/ LaunchStep \/ SinkStep \/ Stop \/ TimerFires
  \/ \E p \in Proc : Prints(p) \/ \E state \in {"writing", "quiet", "dead"} : Becomes(p, state)

(* The launcher runs and its timer fires; the group owes it nothing.        *)
LaunchFairness == WF_launchVars(LaunchStep) /\ WF_launchVars(TimerFires)

LaunchSpec == LaunchInit /\ [][LaunchNext]_launchVars /\ LaunchFairness

(* After a signal that stop() handled the launcher exits, and no process of *)
(* the group is left: neither a router that ignores the signal nor a        *)
(* process it started that keeps the pipe open can hold the launcher.       *)
StopEnds == signalled ~> (launcher = "exited" /\ \A p \in Proc : ~Alive(p))
===============================================================================
