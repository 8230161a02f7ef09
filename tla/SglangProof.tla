---------------------------- MODULE SglangProof ----------------------------
(***************************************************************************)
(* What is proved of the code around a worker's SGLang: what its           *)
(* supervisor leaves and notices (PairSupervisor), what its stack          *)
(* snapshots report (StackSnapshots) and what the simulator's hooks into   *)
(* its scheduler do to the clock (SimScheduler).  For every number of      *)
(* ranks and connections, every deadline, predictor and delay.             *)
(***************************************************************************)
EXTENDS PairSupervisor, StackSnapshots, SimScheduler, FiniteSetTheorems, TLAPS

(* StackSnapshots: at most one call of request runs, and it reports each    *)
(* rank once; what it took was received since the request.                  *)
Asking == {"signalling", "sleep", "emit"}

SnapshotTypes ==
  /\ stage \in [Conn -> {"out", "hello", "named", "stream", "parse", "finally"}]
  /\ key \in [Conn -> Rank \cup {None}] /\ frames \in SUBSET (Rank \cup {None})
  /\ requested \in BOOLEAN /\ active \in BOOLEAN
  /\ caller \in [Caller -> {"idle", "done"} \cup Asking] /\ left \in [Caller -> SUBSET Rank]
  /\ DOMAIN taken = Caller /\ DOMAIN reports = Rank

OneCaller ==
  /\ ~requested => ~active /\ \A q \in Caller : caller[q] = "idle"
  /\ \A q, p \in Caller : caller[q] \in Asking /\ caller[p] \in Asking => q = p

ReportedOnce ==
  /\ ~requested => \A k \in Rank : reports[k] = {}
  /\ \A q \in Caller, k \in Rank :
       caller[q] \in {"signalling", "sleep"} \/ k \in left[q] => reports[k] = {}
  /\ \A q \in Caller : left[q] # {} => caller[q] = "emit"
  /\ \A k \in Rank : reports[k] = {} \/
       \E x : reports[k] = {x} /\ (x[2] = "complete" => k \in answered)

AnsweredFrames ==
  /\ frames \subseteq answered /\ \A q \in Caller : taken[q].frames \subseteq answered
  /\ \A c \in Conn : stage[c] = "parse" => key[c] \in answered

SInv == SnapshotTypes /\ OneCaller /\ ReportedOnce /\ AnsweredFrames

LEMMA InitSInv == SnapshotInit => SInv
<1> SUFFICES ASSUME SnapshotInit PROVE SInv
  OBVIOUS
<1>1. SnapshotTypes
  BY Zenon DEF SnapshotInit, SnapshotTypes, Asking
<1>2. /\ \A q \in Caller : caller[q] = "idle" /\ left[q] = {} /\ taken[q].frames = {}
      /\ \A k \in Rank : reports[k] = {}
      /\ \A c \in Conn : stage[c] = "out"
      /\ requested = FALSE /\ active = FALSE /\ frames = {} /\ answered = {}
  BY DEF SnapshotInit
<1>3. OneCaller
  BY <1>2 DEF OneCaller, Asking
<1>4. ReportedOnce
  BY <1>2 DEF ReportedOnce
<1>5. AnsweredFrames
  BY <1>2 DEF AnsweredFrames
<1> QED BY <1>1, <1>3, <1>4, <1>5 DEF SInv

(* A reader touches neither the calls nor the reports.                      *)
LEMMA ReaderKeeps ==
  ASSUME SInv, NEW c \in Conn,
         \/ Accept(c) \/ Receive(c) \/ Hangup(c) \/ Register(c) \/ Finally(c)
         \/ \E k \in Rank \cup {None}, ok \in BOOLEAN : Hello(c, k, ok)
         \/ \E valid \in BOOLEAN : Parse(c, valid)
  PROVE  SInv'
<1> USE DEF SInv, asks
<1>1. UNCHANGED asks /\ answered \subseteq answered'
  BY DEF Accept, Receive, Hangup, Register, Finally, Hello, Parse
<1>2. SnapshotTypes' /\ AnsweredFrames'
  <2>1. CASE Accept(c) \/ Hangup(c) \/ Finally(c)
    BY <2>1 DEF Accept, Hangup, Finally, SnapshotTypes, AnsweredFrames
  <2>2. CASE Register(c)
    BY <2>2 DEF Register, SnapshotTypes, AnsweredFrames
  <2>3. CASE Receive(c)
    <3>1. requested
      BY <2>3 DEF Receive, Wanted, OneCaller
    <3> QED BY <2>3, <3>1 DEF Receive, SnapshotTypes, AnsweredFrames
  <2>4. ASSUME NEW k \in Rank \cup {None}, NEW ok \in BOOLEAN, Hello(c, k, ok)
        PROVE  SnapshotTypes' /\ AnsweredFrames'
    BY <2>4 DEF Hello, SnapshotTypes, AnsweredFrames
  <2>5. ASSUME NEW valid \in BOOLEAN, Parse(c, valid) PROVE SnapshotTypes' /\ AnsweredFrames'
    BY <2>5 DEF Parse, SnapshotTypes, AnsweredFrames
  <2> QED BY <2>1, <2>2, <2>3, <2>4, <2>5
<1>3. OneCaller'
  BY <1>1 DEF OneCaller
<1>4. ReportedOnce'
  BY <1>1 DEF ReportedOnce
<1> QED BY <1>2, <1>3, <1>4

LEMMA RequestKeeps ==
  ASSUME SInv, NEW q \in Caller, Request(q)
  PROVE  SInv'
<1> USE DEF SInv, conns, Asking
<1>1. SnapshotTypes'
  BY Zenon DEF Request, AlreadyRequested, SnapshotTypes
<1>2. OneCaller'
  BY DEF Request, AlreadyRequested, SnapshotTypes, OneCaller
<1>3. ReportedOnce'
  BY DEF Request, AlreadyRequested, SnapshotTypes, ReportedOnce
<1>4. AnsweredFrames'
  BY DEF Request, AnsweredFrames
<1> QED BY <1>1, <1>2, <1>3, <1>4

LEMMA SignalRanksKeeps ==
  ASSUME SInv, NEW q \in Caller, SignalRanks(q)
  PROVE  SInv'
<1> USE DEF SInv, conns, Asking
<1>1. SnapshotTypes'
  BY DEF SignalRanks, SnapshotTypes
<1>2. OneCaller'
  BY DEF SignalRanks, SnapshotTypes, OneCaller
<1>3. ReportedOnce'
  BY DEF SignalRanks, SnapshotTypes, ReportedOnce
<1>4. AnsweredFrames'
  BY DEF SignalRanks, AnsweredFrames
<1> QED BY <1>1, <1>2, <1>3, <1>4

LEMMA TakeKeeps ==
  ASSUME SInv, NEW q \in Caller, Take(q)
  PROVE  SInv'
<1> USE DEF SInv, conns, Asking
<1>1. SnapshotTypes'
  BY Zenon DEF Take, ReportedRanks, SnapshotTypes
<1>2. OneCaller'
  BY DEF Take, SnapshotTypes, OneCaller
<1>3. ReportedOnce'
  BY DEF Take, ReportedRanks, SnapshotTypes, OneCaller, ReportedOnce
<1>4. AnsweredFrames'
  BY DEF Take, SnapshotTypes, AnsweredFrames
<1> QED BY <1>1, <1>2, <1>3, <1>4

LEMMA EmitKeeps ==
  ASSUME SInv, NEW q \in Caller, NEW k \in Rank, Emit(q, k)
  PROVE  SInv'
<1> USE DEF SInv, conns, Asking
<1>0. PICK x : /\ reports' = [reports EXCEPT ![k] = @ \cup {x}]
               /\ x[2] = "complete" => k \in taken[q].frames
  <2> DEFINE x == <<q, IF k \in taken[q].frames THEN "complete" ELSE "unavailable",
                    k \notin taken[q].acks>>
  <2>1. x[2] = "complete" => k \in taken[q].frames
    OBVIOUS
  <2>2. reports' = [reports EXCEPT ![k] = @ \cup {x}]
    BY DEF Emit
  <2> QED BY Zenon, <2>1, <2>2
<1>1. SnapshotTypes'
  BY <1>0 DEF Emit, SnapshotTypes
<1>2. OneCaller'
  BY DEF Emit, SnapshotTypes, OneCaller
<1>3. reports[k] = {} /\ reports'[k] = {x} /\ (x[2] = "complete" => k \in answered)
  <2>1. reports[k] = {} /\ reports'[k] = reports[k] \cup {x}
    BY <1>0 DEF Emit, SnapshotTypes, ReportedOnce
  <2>2. x[2] = "complete" => k \in answered
    BY <1>0 DEF AnsweredFrames
  <2> QED BY <2>1, <2>2
<1>4. \A l \in Rank \ {k} : reports'[l] = reports[l]
  BY <1>0 DEF SnapshotTypes
<1>5. /\ UNCHANGED <<caller, requested, answered>> /\ caller[q] = "emit" /\ requested
      /\ \A p \in Caller \ {q} : left'[p] = left[p] /\ caller[p] \notin Asking
      /\ left'[q] = left[q] \ {k}
  BY DEF Emit, SnapshotTypes, OneCaller
<1>6. ReportedOnce'
  <2>1. ASSUME NEW p \in Caller, NEW l \in Rank,
               caller'[p] \in {"signalling", "sleep"} \/ l \in left'[p]
        PROVE  reports'[l] = {}
    BY <1>4, <1>5, <2>1 DEF ReportedOnce
  <2>2. \A p \in Caller : left'[p] # {} => caller'[p] = "emit"
    BY <1>5 DEF ReportedOnce
  <2>3. ASSUME NEW l \in Rank
        PROVE  reports'[l] = {} \/ \E y : reports'[l] = {y} /\ (y[2] = "complete" => l \in answered')
    BY <1>3, <1>4, <1>5 DEF ReportedOnce
  <2> QED BY <1>5, <2>1, <2>2, <2>3 DEF ReportedOnce
<1>7. AnsweredFrames'
  BY DEF Emit, AnsweredFrames
<1> QED BY <1>1, <1>2, <1>6, <1>7

LEMMA NextSInv == SInv /\ [SnapshotNext]_snapshotVars => SInv'
<1> SUFFICES ASSUME SInv, [SnapshotNext]_snapshotVars PROVE SInv'
  OBVIOUS
<1>1. ASSUME NEW c \in Conn, Accept(c) \/ Receive(c) \/ Hangup(c) \/ ReaderStep(c) PROVE SInv'
  BY <1>1, ReaderKeeps DEF ReaderStep
<1>2. ASSUME NEW q \in Caller, FinishStep(q) PROVE SInv'
  BY <1>2, SignalRanksKeeps, TakeKeeps, EmitKeeps DEF FinishStep
<1>3. ASSUME NEW e \in EventRecord, NEW k \in Rank, collect_events(e, k) PROVE SInv'
  <2>1. CASE Request("events")
    BY <2>1, RequestKeeps DEF Caller
  <2>2. CASE AckTrace(k)
    BY <2>2 DEF AckTrace, SInv, SnapshotTypes, OneCaller, ReportedOnce, AnsweredFrames, conns
  <2> QED BY <1>3, <2>1, <2>2 DEF collect_events
<1>4. CASE Request("monitor")
  BY <1>4, RequestKeeps DEF Caller
<1>5. CASE Close \/ UNCHANGED snapshotVars
  <2>1. UNCHANGED <<conns, frames, answered, asks>>
    BY <1>5 DEF Close, snapshotVars
  <2>2. /\ stage' = stage /\ key' = key /\ frames' = frames /\ answered' = answered
        /\ requested' = requested /\ active' = active /\ caller' = caller
        /\ left' = left /\ taken' = taken /\ reports' = reports
    BY <2>1 DEF conns, asks
  <2> QED BY <2>2 DEF SInv, SnapshotTypes, OneCaller, ReportedOnce, AnsweredFrames
<1> QED BY <1>1, <1>2, <1>3, <1>4, <1>5 DEF SnapshotNext

(* Whatever the two callers, the connections and the ranks do, every rank   *)
(* is reported at most once, and as complete only with data that arrived    *)
(* after the request.                                                       *)
THEOREM SnapshotsReportOnce == SnapshotSpec => []OneFreshReport
<1>1. SInv => OneFreshReport
  BY DEF SInv, ReportedOnce, OneFreshReport
<1> QED BY InitSInv, NextSInv, <1>1, PTL DEF SnapshotSpec

-----------------------------------------------------------------------------
(* PairSupervisor                                                           *)
State == {"starting", "ready", "failed"}
Record == [state : {"none", "starting", "live", "failed"}, age : Nat, mine : BOOLEAN]

PairTypes ==
  /\ pc \in {"boot", "gate", "launch", "warm", "monitor", "report", "term", "exited"}
  /\ target \in Role /\ subject \in Child \cup {"none"} /\ probing \in BOOLEAN
  /\ worst \in State /\ passAge \in 0 .. PassTime /\ lost \in BOOLEAN
  /\ leader \in [Child -> {"none", "running", "exited"}] /\ rest \in [Role -> BOOLEAN]
  /\ record \in [Role -> Record] /\ ever_ready \in [Role -> BOOLEAN]
  /\ snapshot \in [state : State, age : Nat]

(* The workers are warmed up in order, and only one that was ready is left  *)
(* behind; a pass looks at workers in order, at the model last.             *)
InOrder ==
  /\ subject # "none" => pc \in {"warm", "monitor"}
  /\ pc = "warm" => subject \in {"none", "prefill", target}
  /\ probing => subject \in Role
  /\ target = "prefill" => leader["decode"] = "none" /\ pc \notin {"monitor", "report"}
  /\ target = "decode" => ever_ready["prefill"]
  /\ pc \in {"monitor", "report"} => ever_ready["decode"]

(* The children the pass under way has yet to look at.                      *)
Ahead ==
  (IF probing THEN {} ELSE {subject})
    \cup (IF pc = "warm" THEN (IF subject = target THEN {} ELSE {target})
          ELSE CASE subject = "prefill" -> {"decode", "model"}
                 [] subject = "decode" -> {"model"}
                 [] OTHER -> {})

(* An exited child that the pass began with is still ahead, or was found.   *)
StillNoticed ==
  lost /\ subject # "none" =>
    \/ pc = "monitor" /\ worst = "failed"
    \/ \E c \in Ahead : leader[c] = "exited"

(* No group without its leader's start.                                     *)
GroupsStarted == \A r \in Role : rest[r] => leader[r] # "none"

Progressing(r, age) == record[r].state \in {"live", "failed"} /\ record[r].age <= age

Looked(r) ==
  \/ subject = "model"
  \/ subject = "decode" /\ r = "prefill"
  \/ probing /\ subject = r

(* Records are of this generation once it began. What a pass has found      *)
(* ready was in time when it looked, and so for the snapshot it leaves.     *)
InTime ==
  /\ pc # "boot" => \A r \in Role : record[r].mine
  /\ pc = "monitor" /\ worst = "ready" =>
       \A r \in Role : Looked(r) => Progressing(r, ProgressTimeout + passAge)
  /\ snapshot.state = "ready" => pc = "monitor"
  /\ Serving => \A r \in Role : Progressing(r, ProgressTimeout + PassTime + snapshot.age)

PInv == PairTypes /\ InOrder /\ StillNoticed /\ GroupsStarted /\ InTime /\ NothingSurvives

-----------------------------------------------------------------------------
(* The supervisor starts with nothing.                                      *)
LEMMA InitPInv == Init => PInv
<1> SUFFICES ASSUME Init PROVE PInv
  OBVIOUS
<1>1. PairTypes
  <2>0. 0 \in 0 .. PassTime
    BY PairAssumption
  <2>1. record \in [Role -> Record] /\ snapshot \in [state : State, age : Nat]
    BY DEF Init, State, Record, NoRecord
  <2> QED BY Zenon, <2>0, <2>1 DEF Init, PairTypes, Role, Child, State
<1>2. InOrder /\ StillNoticed /\ GroupsStarted /\ NothingSurvives
  BY DEF Init, InOrder, StillNoticed, GroupsStarted, NothingSurvives, Role, Child
<1>3. InTime
  BY DEF Init, InTime, Serving, Role
<1> QED BY <1>1, <1>2, <1>3 DEF PInv

LEMMA StartPair ==
  ASSUME PInv, Start
  PROVE  PInv'
<1> USE DEF PInv, Role, Child, pass, flags, procs, files, http
<1>1. PairTypes'
  BY DEF Start, NewGeneration, NoRecord, PairTypes, State, Record
<1>2. InOrder'
  BY DEF Start, NewGeneration, NoRecord, PairTypes, InOrder
<1>3. StillNoticed'
  BY DEF Start, NewGeneration, NoRecord, PairTypes, InOrder, StillNoticed, Ahead
<1>4. GroupsStarted' /\ NothingSurvives'
  BY DEF Start, NewGeneration, NoRecord, PairTypes, GroupsStarted, NothingSurvives
<1>5. InTime'
  BY DEF Start, NewGeneration, NoRecord, PairTypes, InOrder, InTime, Progressing, Looked, Serving, Record
<1> QED BY <1>1, <1>2, <1>3, <1>4, <1>5

LEMMA GatePollPair ==
  ASSUME PInv, GatePoll
  PROVE  PInv'
<1> USE DEF PInv, Role, Child, pass, flags, procs, files, http
<1>1. PairTypes'
  BY DEF GatePoll, Fail, PairTypes, State, Record
<1>2. InOrder'
  BY DEF GatePoll, Fail, PairTypes, InOrder
<1>3. StillNoticed'
  BY DEF GatePoll, Fail, PairTypes, InOrder, StillNoticed, Ahead
<1>4. GroupsStarted' /\ NothingSurvives'
  BY DEF GatePoll, Fail, PairTypes, GroupsStarted, NothingSurvives
<1>5. InTime'
  BY DEF GatePoll, Fail, PairTypes, InOrder, InTime, Progressing, Looked, Serving, Record
<1> QED BY <1>1, <1>2, <1>3, <1>4, <1>5

LEMMA LaunchPair ==
  ASSUME PInv, Launch
  PROVE  PInv'
<1> USE DEF PInv, Role, Child, pass, flags, procs, files, http
<1>1. PairTypes'
  BY DEF Launch, PairTypes, State, Record
<1>2. InOrder'
  BY DEF Launch, PairTypes, InOrder
<1>3. StillNoticed'
  BY DEF Launch, PairTypes, InOrder, StillNoticed, Ahead
<1>4. GroupsStarted' /\ NothingSurvives'
  BY DEF Launch, PairTypes, GroupsStarted, NothingSurvives
<1>5. InTime'
  BY DEF Launch, PairTypes, InOrder, InTime, Progressing, Looked, Serving, Record
<1> QED BY <1>1, <1>2, <1>3, <1>4, <1>5

LEMMA WarmBeginPair ==
  ASSUME PInv, WarmBegin
  PROVE  PInv'
<1> USE DEF PInv, Role, Child, pass, flags, procs, files, http
<1>1. PairTypes'
  BY DEF WarmBegin, Fail, SomeExited, FirstLooked, PairTypes, State, Record
<1>2. InOrder'
  BY DEF WarmBegin, Fail, SomeExited, FirstLooked, PairTypes, InOrder
<1>3. StillNoticed'
  BY Zenon DEF WarmBegin, Fail, SomeExited, FirstLooked, PairTypes, InOrder, StillNoticed, Ahead
<1>4. GroupsStarted' /\ NothingSurvives'
  BY DEF WarmBegin, Fail, SomeExited, FirstLooked, PairTypes, GroupsStarted, NothingSurvives
<1>5. InTime'
  BY DEF WarmBegin, Fail, SomeExited, FirstLooked, PairTypes, InOrder, InTime,
         Progressing, Looked, Serving, Record
<1> QED BY <1>1, <1>2, <1>3, <1>4, <1>5

LEMMA MonitorBeginPair ==
  ASSUME PInv, MonitorBegin
  PROVE  PInv'
<1> USE DEF PInv, Role, Child, pass, flags, procs, files, http
<1>1. PairTypes'
  BY DEF MonitorBegin, SomeExited, PairTypes, State, Record
<1>2. InOrder'
  BY DEF MonitorBegin, SomeExited, PairTypes, InOrder
<1>3. StillNoticed'
  BY Zenon DEF MonitorBegin, SomeExited, PairTypes, InOrder, StillNoticed, Ahead
<1>4. GroupsStarted' /\ NothingSurvives'
  BY DEF MonitorBegin, SomeExited, PairTypes, GroupsStarted, NothingSurvives
<1>5. InTime'
  BY DEF MonitorBegin, SomeExited, PairTypes, InOrder, InTime, Progressing, Looked, Serving, Record
<1> QED BY <1>1, <1>2, <1>3, <1>4, <1>5

LEMMA MonitorDecidePair ==
  ASSUME PInv, MonitorDecide
  PROVE  PInv'
<1> USE DEF PInv, Role, Child, pass, flags, procs, files, http
<1>1. PairTypes'
  <2>0. 0 \in 0 .. PassTime
    BY PairAssumption
  <2>1. snapshot' \in [state : State, age : Nat]
    BY DEF MonitorDecide, PairTypes, State
  <2> QED BY Zenon, <2>0, <2>1 DEF MonitorDecide, PairTypes, State
<1>2. InOrder'
  BY DEF MonitorDecide, PairTypes, InOrder
<1>3. StillNoticed'
  BY DEF MonitorDecide, PairTypes, InOrder, StillNoticed, Ahead
<1>4. GroupsStarted' /\ NothingSurvives'
  BY DEF MonitorDecide, PairTypes, GroupsStarted, NothingSurvives
<1>5. InTime'
  <2>1. UNCHANGED record /\ pc' # "boot" /\ subject' = "none" /\ ~ probing'
    BY DEF MonitorDecide, PairTypes, InOrder
  <2>2. snapshot'.state = "ready" => worst = "ready" /\ pc' = "monitor" /\ snapshot'.age = 0
    BY DEF MonitorDecide, PairTypes
  <2>3. ASSUME worst = "ready", NEW r \in Role PROVE Progressing(r, ProgressTimeout + PassTime + 0)
    <3>1. Progressing(r, ProgressTimeout + passAge)
      BY <2>3 DEF MonitorDecide, InTime, Looked
    <3>2. record[r].age \in Nat /\ passAge \in 0 .. PassTime
      BY DEF PairTypes, Record
    <3> QED BY <3>1, <3>2, PairAssumption DEF Progressing
  <2>4. pc = "monitor"
    BY DEF MonitorDecide
  <2> QED BY <2>1, <2>2, <2>3, <2>4 DEF InTime, Looked, Serving, Progressing
<1> QED BY <1>1, <1>2, <1>3, <1>4, <1>5

LEMMA ReportDonePair ==
  ASSUME PInv, ReportDone
  PROVE  PInv'
<1> USE DEF PInv, Role, Child, pass, flags, procs, files, http
<1>1. PairTypes'
  BY DEF ReportDone, PairTypes, State, Record
<1>2. InOrder'
  BY DEF ReportDone, PairTypes, InOrder
<1>3. StillNoticed'
  BY DEF ReportDone, PairTypes, InOrder, StillNoticed, Ahead
<1>4. GroupsStarted' /\ NothingSurvives'
  BY DEF ReportDone, PairTypes, GroupsStarted, NothingSurvives
<1>5. InTime'
  BY Zenon DEF ReportDone, PairTypes, InOrder, InTime, Progressing, Looked, Serving, Record
<1> QED BY <1>1, <1>2, <1>3, <1>4, <1>5

LEMMA ReturnPair ==
  ASSUME PInv, Return
  PROVE  PInv'
<1> USE DEF PInv, Role, Child, pass, flags, procs, files, http
<1>1. PairTypes'
  BY ZenonT(30) DEF Return, PairTypes, State, Record
<1>2. InOrder'
  BY DEF Return, PairTypes, InOrder
<1>3. StillNoticed'
  BY DEF Return, PairTypes, InOrder, StillNoticed, Ahead
<1>4. GroupsStarted' /\ NothingSurvives'
  BY DEF Return, PairTypes, GroupsStarted, NothingSurvives
<1>5. InTime'
  BY DEF Return, PairTypes, InOrder, InTime, Progressing, Looked, Serving, Record
<1> QED BY <1>1, <1>2, <1>3, <1>4, <1>5

LEMMA ShutdownPair ==
  ASSUME PInv, Shutdown
  PROVE  PInv'
<1> USE DEF PInv, Role, Child, pass, flags, procs, files, http
<1>1. PairTypes'
  BY DEF Shutdown, KillGroups, NoRecord, PairTypes, State, Record
<1>2. InOrder'
  BY Zenon DEF Shutdown, KillGroups, NoRecord, PairTypes, InOrder
<1>3. StillNoticed'
  BY DEF Shutdown, KillGroups, NoRecord, PairTypes, InOrder, StillNoticed, Ahead
<1>4. GroupsStarted' /\ NothingSurvives'
  BY Zenon DEF Shutdown, KillGroups, NoRecord, PairTypes, GroupsStarted, NothingSurvives
<1>5. InTime'
  BY Zenon DEF Shutdown, KillGroups, NoRecord, PairTypes, InOrder, InTime, Progressing, Looked, Serving, Record
<1> QED BY <1>1, <1>2, <1>3, <1>4, <1>5

LEMMA SignalPair ==
  ASSUME PInv, Signal
  PROVE  PInv'
<1> USE DEF PInv, Role, Child, pass, flags, procs, files, http
<1>1. PairTypes'
  BY DEF Signal, PairTypes, State, Record
<1>2. InOrder'
  BY DEF Signal, PairTypes, InOrder
<1>3. StillNoticed'
  BY DEF Signal, PairTypes, InOrder, StillNoticed, Ahead
<1>4. GroupsStarted' /\ NothingSurvives'
  BY DEF Signal, PairTypes, GroupsStarted, NothingSurvives
<1>5. InTime'
  BY Zenon DEF Signal, PairTypes, InOrder, InTime, Progressing, Looked, Serving, Record
<1> QED BY <1>1, <1>2, <1>3, <1>4, <1>5

LEMMA GateReadyPair ==
  ASSUME PInv, GateReady
  PROVE  PInv'
<1> USE DEF PInv, Role, Child, pass, flags, procs, files, http
<1>1. PairTypes'
  BY DEF GateReady, EnvUnchanged, Alive, PairTypes, State, Record
<1>2. InOrder'
  BY DEF GateReady, EnvUnchanged, Alive, PairTypes, InOrder
<1>3. StillNoticed'
  BY DEF GateReady, EnvUnchanged, Alive, PairTypes, InOrder, StillNoticed, Ahead
<1>4. GroupsStarted' /\ NothingSurvives'
  BY DEF GateReady, EnvUnchanged, Alive, PairTypes, GroupsStarted, NothingSurvives
<1>5. InTime'
  BY Zenon DEF GateReady, EnvUnchanged, Alive, PairTypes, InOrder, InTime, Progressing, Looked, Serving, Record
<1> QED BY <1>1, <1>2, <1>3, <1>4, <1>5

LEMMA LeaderExitsPair ==
  ASSUME PInv, NEW c \in Child, LeaderExits(c)
  PROVE  PInv'
<1> USE DEF PInv, Role, Child, pass, flags, procs, files, http
<1>1. PairTypes'
  BY DEF LeaderExits, EnvUnchanged, Alive, PairTypes, State, Record
<1>2. InOrder'
  BY DEF LeaderExits, EnvUnchanged, Alive, PairTypes, InOrder
<1>3. StillNoticed'
  BY DEF LeaderExits, EnvUnchanged, Alive, PairTypes, InOrder, StillNoticed, Ahead
<1>4. GroupsStarted' /\ NothingSurvives'
  BY DEF LeaderExits, EnvUnchanged, Alive, PairTypes, GroupsStarted, NothingSurvives
<1>5. InTime'
  BY Zenon DEF LeaderExits, EnvUnchanged, Alive, PairTypes, InOrder, InTime,
         Progressing, Looked, Serving, Record
<1> QED BY <1>1, <1>2, <1>3, <1>4, <1>5

LEMMA RankStartsPair ==
  ASSUME PInv, NEW r \in Role, RankStarts(r)
  PROVE  PInv'
<1> USE DEF PInv, Role, Child, pass, flags, procs, files, http
<1>1. PairTypes'
  BY ZenonT(30) DEF RankStarts, EnvUnchanged, Alive, PairTypes, State, Record
<1>2. InOrder'
  BY ZenonT(30) DEF RankStarts, EnvUnchanged, Alive, PairTypes, InOrder
<1>3. StillNoticed'
  BY DEF RankStarts, EnvUnchanged, Alive, PairTypes, InOrder, StillNoticed, Ahead
<1>4. GroupsStarted' /\ NothingSurvives'
  BY Zenon DEF RankStarts, EnvUnchanged, Alive, PairTypes, GroupsStarted, NothingSurvives
<1>5. InTime'
  BY Zenon DEF RankStarts, EnvUnchanged, Alive, PairTypes, InOrder, InTime,
         Progressing, Looked, Serving, Record
<1> QED BY <1>1, <1>2, <1>3, <1>4, <1>5

LEMMA RankReportsPair ==
  ASSUME PInv, NEW r \in Role, NEW s \in {"live", "failed"}, RankReports(r, s)
  PROVE  PInv'
<1> USE DEF PInv, Role, Child, pass, flags, procs, files, http
<1>1. PairTypes'
  BY ZenonT(30), PairAssumption DEF RankReports, EnvUnchanged, Alive, PairTypes, State, Record
<1>2. InOrder'
  BY ZenonT(30) DEF RankReports, EnvUnchanged, Alive, PairTypes, InOrder
<1>3. StillNoticed'
  BY DEF RankReports, EnvUnchanged, Alive, PairTypes, InOrder, StillNoticed, Ahead
<1>4. GroupsStarted' /\ NothingSurvives'
  BY Zenon DEF RankReports, EnvUnchanged, Alive, PairTypes, GroupsStarted, NothingSurvives
<1>5. InTime'
  <2>1. /\ record'[r].state = s /\ record'[r].mine /\ record'[r].age = 0
        /\ \A q \in Role \ {r} : record'[q] = record[q]
        /\ UNCHANGED <<pc, worst, subject, probing, passAge, snapshot>>
    BY Zenon DEF RankReports, EnvUnchanged, PairTypes
  <2>2. passAge \in Nat /\ snapshot.age \in Nat
    BY PairAssumption DEF PairTypes
  <2>3. \A q \in Role : Looked(q)' = Looked(q)
    BY Zenon, <2>1 DEF Looked
  <2>4. ASSUME NEW q \in Role, NEW a \in Nat
        PROVE  /\ Progressing(q, a) => record'[q].state \in {"live", "failed"} /\ record'[q].age <= a
    BY <2>1 DEF Progressing
  <2> QED BY <2>1, <2>2, <2>3, <2>4, PairAssumption DEF InTime, Progressing, Serving
<1> QED BY <1>1, <1>2, <1>3, <1>4, <1>5

LEMMA RankDiesPair ==
  ASSUME PInv, NEW r \in Role, RankDies(r)
  PROVE  PInv'
<1> USE DEF PInv, Role, Child, pass, flags, procs, files, http
<1>1. PairTypes'
  BY ZenonT(30) DEF RankDies, EnvUnchanged, Alive, PairTypes, State, Record
<1>2. InOrder'
  BY Zenon DEF RankDies, EnvUnchanged, Alive, PairTypes, InOrder
<1>3. StillNoticed'
  BY DEF RankDies, EnvUnchanged, Alive, PairTypes, InOrder, StillNoticed, Ahead
<1>4. GroupsStarted' /\ NothingSurvives'
  BY Zenon DEF RankDies, EnvUnchanged, Alive, PairTypes, GroupsStarted, NothingSurvives
<1>5. InTime'
  BY Zenon DEF RankDies, EnvUnchanged, Alive, PairTypes, InOrder, InTime, Progressing, Looked, Serving, Record
<1> QED BY <1>1, <1>2, <1>3, <1>4, <1>5

LEMMA TickPair ==
  ASSUME PInv, Tick
  PROVE  PInv'
<1> USE DEF PInv, Role, Child, pass, flags, procs, files, http
<1>1. PairTypes'
  <2>1. record' \in [Role -> Record]
    <3>1. ASSUME NEW r \in Role PROVE record'[r] \in Record
      BY PairAssumption DEF Tick, PairTypes, Record, Older
    <3> QED BY <3>1 DEF Tick
  <2>2. snapshot' \in [state : State, age : Nat]
    BY PairAssumption DEF Tick, PairTypes, Older
  <2>3. passAge' \in 0 .. PassTime
    BY PairAssumption DEF Tick, PairTypes
  <2> QED BY <2>1, <2>2, <2>3 DEF Tick, PairTypes
<1>2. InOrder'
  BY DEF Tick, Older, PairTypes, InOrder
<1>3. StillNoticed'
  BY DEF Tick, Older, PairTypes, InOrder, StillNoticed, Ahead
<1>4. GroupsStarted' /\ NothingSurvives'
  BY DEF Tick, Older, PairTypes, GroupsStarted, NothingSurvives
<1>5. InTime'
  <2>1. ASSUME NEW r \in Role
        PROVE  /\ record'[r].state = record[r].state /\ record'[r].mine = record[r].mine
               /\ record[r].age \in Nat /\ record'[r].age \in Nat
               /\ record'[r].age <= record[r].age + 1
    BY PairAssumption DEF Tick, PairTypes, Record, Older
  <2>2. ASSUME pc = "monitor", worst = "ready", NEW r \in Role, Looked(r)
        PROVE  Progressing(r, ProgressTimeout + passAge)'
    <3>1. passAge \in Nat /\ passAge' = passAge + 1
      BY <2>2 DEF Tick, PairTypes, Looked
    <3>2. Progressing(r, ProgressTimeout + passAge)
      BY <2>2 DEF InTime
    <3>3. ProgressTimeout \in Nat
      BY PairAssumption
    <3> QED BY <2>1, <3>1, <3>2, <3>3 DEF Progressing
  <2>3. ASSUME Serving', NEW r \in Role
        PROVE  Progressing(r, ProgressTimeout + PassTime + snapshot.age)'
    <3>1. Serving /\ snapshot.age \in Nat /\ snapshot'.age = snapshot.age + 1
      BY <2>3, PairAssumption DEF Tick, PairTypes, Serving, Older
    <3>2. Progressing(r, ProgressTimeout + PassTime + snapshot.age)
      BY <3>1 DEF InTime
    <3>3. ProgressTimeout \in Nat /\ PassTime \in Nat
      BY PairAssumption
    <3> QED BY <2>1, <3>1, <3>2, <3>3 DEF Progressing
  <2>4. /\ UNCHANGED <<pc, worst>> /\ snapshot'.state = snapshot.state
        /\ \A r \in Role : Looked(r)' = Looked(r)
    BY DEF Tick, PairTypes, Looked
  <2> QED BY Zenon, <2>1, <2>2, <2>3, <2>4 DEF InTime
<1> QED BY <1>1, <1>2, <1>3, <1>4, <1>5

LEMMA RestartPair ==
  ASSUME PInv, Restart
  PROVE  PInv'
<1> USE DEF PInv, Role, Child, pass, flags, procs, files, http
<1>1. PairTypes'
  <2>0. 0 \in 0 .. PassTime
    BY PairAssumption
  <2>1. record' \in [Role -> Record]
    <3>1. ASSUME NEW r \in Role PROVE record'[r] \in Record
      BY ZenonT(30) DEF Restart, PairTypes, Record, NoRecord
    <3> QED BY <3>1 DEF Restart
  <2>2. snapshot' \in [state : State, age : Nat]
    BY DEF Restart, State
  <2> QED BY Zenon, <2>0, <2>1, <2>2 DEF Restart, PairTypes, State
<1>2. InOrder'
  BY DEF Restart, NoRecord, PairTypes, InOrder
<1>3. StillNoticed'
  BY DEF Restart, NoRecord, PairTypes, InOrder, StillNoticed, Ahead
<1>4. GroupsStarted' /\ NothingSurvives'
  BY DEF Restart, NoRecord, PairTypes, GroupsStarted, NothingSurvives
<1>5. InTime'
  BY PairAssumption DEF Restart, NoRecord, PairTypes, InOrder, InTime,
                        Progressing, Looked, Serving, Record
<1> QED BY <1>1, <1>2, <1>3, <1>4, <1>5


(* worker_state never calls an exited leader or a rank without a live       *)
(* record ready.                                                            *)
LEMMA WorkerStates ==
  ASSUME PairTypes, NEW r \in Role, NEW reused \in BOOLEAN
  PROVE  /\ RankState(r, reused) \in State
         /\ RankState(r, reused) = "ready" =>
              record[r].state = "live" /\ ~ (record[r].age > Budget(r))
         /\ \A fails : \A ever \in BOOLEAN :
              Answer(ever, fails) \in State /\ (Answer(ever, fails) = "ready" => ever)
<1>1. record[r] \in Record
  BY DEF PairTypes
<1>2. RankState(r, reused) \in State
  BY <1>1 DEF RankState, State, Record
<1>3. RankState(r, reused) = "ready" => record[r].state = "live" /\ ~ (record[r].age > Budget(r))
  BY <1>1 DEF RankState, State, Record
<1>4. ASSUME NEW ever \in BOOLEAN, NEW fails
      PROVE  Answer(ever, fails) \in State /\ (Answer(ever, fails) = "ready" => ever)
  BY DEF Answer, State
<1> QED BY Zenon, <1>2, <1>3, <1>4

(* What start and monitor make of the state of the worker they look at.     *)
LEMMA Concluded ==
  ASSUME PInv, NEW s \in State, subject \in Role, Conclude(s),
         leader[subject] = "exited" /\ ~ probing => s = "failed",
         s = "ready" => ever_ready'[subject],
         s = "ready" /\ pc = "monitor" /\ worst = "ready" =>
           Progressing(subject, ProgressTimeout + passAge),
         ever_ready' \in [Role -> BOOLEAN], \A r \in Role : ever_ready[r] => ever_ready'[r],
         UNCHANGED <<passAge, lost, procs, files, started, snapshot>>
  PROVE  PInv' /\ (subject' = "none" /\ lost => failed')
<1> USE DEF PInv, Role, Child, procs, files, flags
<1>1. CASE pc = "warm"
  <2>1. /\ WarmWith(s) /\ probing' = FALSE /\ UNCHANGED worst
        /\ pc' \in {"warm", "launch", "monitor"} /\ subject' \in {"none", target} /\ target' \in Role
        /\ pc' # "warm" => subject' = "none" /\ subject = target /\ s = "ready"
        /\ pc' = "monitor" => target = "decode" /\ target' = target
        /\ pc' = "launch" => target = "prefill" /\ target' = "decode"
        /\ pc' = "warm" => target' = target
        /\ subject' = target => subject # target /\ s # "failed"
    BY Zenon, <1>1 DEF Conclude, WarmWith, PairTypes
  <2>2. PairTypes'
    BY Zenon, <2>1 DEF PairTypes
  <2>3. InOrder'
    BY Zenon, <1>1, <2>1 DEF PairTypes, InOrder
  <2>4. subject' = "none" /\ lost => failed'
    <3> SUFFICES ASSUME subject' = "none", lost PROVE failed'
      OBVIOUS
    <3>1. CASE s = "failed"
      BY Zenon, <1>1, <2>1, <3>1 DEF WarmWith, Fail, InOrder, PairTypes
    <3>2. CASE s # "failed"
      <4>1. subject = target
        BY Zenon, <1>1, <2>1, <3>2 DEF WarmWith, PairTypes
      <4>2. leader[subject] = "exited" /\ ~ probing
        BY <1>1, <4>1 DEF StillNoticed, Ahead, PairTypes
      <4> QED BY <3>2, <4>2
    <3> QED BY <3>1, <3>2
  <2>5. StillNoticed'
    BY <1>1, <2>1 DEF StillNoticed, Ahead, PairTypes, InOrder
  <2>6. GroupsStarted' /\ NothingSurvives'
    BY Zenon, <2>1 DEF GroupsStarted, NothingSurvives
  <2>7. InTime'
    BY Zenon, <1>1, <2>1 DEF InTime, Looked, Progressing, Serving, PairTypes
  <2> QED BY SMTT(30), <2>2, <2>3, <2>4, <2>5, <2>6, <2>7
<1>2. CASE pc = "monitor"
  <2>1. /\ worst' = Worse(worst, s) /\ probing' = FALSE /\ UNCHANGED <<pc, target, stop, failed>>
        /\ subject' = IF subject = "prefill" THEN "decode" ELSE "model"
    BY Zenon, <1>2 DEF Conclude
  <2>2. /\ worst' \in State
        /\ worst' = "ready" => worst = "ready" /\ s = "ready"
        /\ worst = "failed" \/ s = "failed" => worst' = "failed"
    BY Zenon, <2>1 DEF PairTypes, Worse, State
  <2>3. PairTypes'
    BY Zenon, <2>1, <2>2 DEF PairTypes
  <2>4. InOrder'
    BY Zenon, <1>2, <2>1 DEF PairTypes, InOrder
  <2>5. StillNoticed'
    BY <1>2, <2>1, <2>2 DEF StillNoticed, Ahead, PairTypes, InOrder
  <2>6. GroupsStarted' /\ NothingSurvives'
    BY Zenon, <2>1 DEF GroupsStarted, NothingSurvives
  <2>7. InTime'
    <3>1. ASSUME worst' = "ready", NEW r \in Role, Looked(r)'
          PROVE  Progressing(r, ProgressTimeout + passAge)
      BY Zenon, <1>2, <2>1, <2>2, <3>1 DEF InTime, Looked
    <3> QED BY Zenon, <1>2, <2>1, <3>1 DEF InTime, Progressing, Serving
  <2> QED BY Zenon, <2>1, <2>3, <2>4, <2>5, <2>6, <2>7
<1> QED BY Zenon, <1>1, <1>2 DEF Conclude


LEMMA CheckWorkerPair ==
  ASSUME PInv, NEW b \in BOOLEAN, CheckWorker(b)
  PROVE  PInv' /\ (subject' = "none" /\ lost => failed')
<1> DEFINE s == IF leader[subject] = "exited" THEN "failed" ELSE RankState(subject, b)
<1>1. subject \in Role /\ probing = FALSE /\ PairTypes
  BY Zenon DEF CheckWorker, PInv, PairTypes
<1>2. /\ s \in State
      /\ s = "ready" => /\ leader[subject] # "exited" /\ record[subject].state = "live"
                         /\ ~ (record[subject].age > Budget(subject))
  BY Zenon, <1>1, WorkerStates DEF State
<1>3. UNCHANGED <<passAge, lost, procs, files, started, snapshot>>
  BY Zenon DEF CheckWorker
<1>4. /\ passAge \in Nat /\ record[subject].age \in Nat /\ ProgressTimeout \in Nat
      /\ StartupTimeout \in Nat /\ ever_ready \in [Role -> BOOLEAN]
  BY <1>1, PairAssumption DEF PairTypes, Record
<1>5. s = "ready" /\ pc = "monitor" => Progressing(subject, ProgressTimeout + passAge)
  <2> SUFFICES ASSUME s = "ready", pc = "monitor"
               PROVE  Progressing(subject, ProgressTimeout + passAge)
    OBVIOUS
  <2>1. ever_ready[subject]
    BY Zenon, <1>1 DEF PInv, InOrder, PairTypes, Role
  <2>2. ~ (record[subject].age > ProgressTimeout) /\ record[subject].state = "live"
    BY Zenon, <1>2, <2>1 DEF Budget
  <2> QED BY <1>4, <2>2 DEF Progressing
<1>6. \/ s # "ready" /\ Conclude(s) /\ UNCHANGED http
      \/ /\ s = "ready" /\ Conclude(Answer(ever_ready[subject], failures[subject]))
         /\ UNCHANGED http
      \/ /\ s = "ready" /\ probing' = TRUE
         /\ UNCHANGED <<pc, target, subject, worst, flags, failures, ever_ready>>
  BY Zenon DEF CheckWorker
<1> HIDE DEF s
<1>7. CASE s # "ready" /\ Conclude(s) /\ UNCHANGED http
  BY Zenon, <1>1, <1>2, <1>3, <1>4, <1>7, Concluded DEF http, s
<1>8. CASE /\ s = "ready" /\ Conclude(Answer(ever_ready[subject], failures[subject]))
           /\ UNCHANGED http
  <2>1. Answer(ever_ready[subject], failures[subject]) \in State
    BY Zenon, <1>1, <1>4, WorkerStates
  <2>2. Answer(ever_ready[subject], failures[subject]) = "ready" => ever_ready[subject]
    BY Zenon, <1>1, <1>4, WorkerStates
  <2>3. ever_ready' = ever_ready
    BY Zenon, <1>8 DEF http
  <2> QED BY Zenon, <1>1, <1>2, <1>3, <1>4, <1>5, <1>8, <2>1, <2>2, <2>3, Concluded
<1>9. CASE /\ s = "ready" /\ probing' = TRUE
           /\ UNCHANGED <<pc, target, subject, worst, flags, failures, ever_ready>>
  <2> USE DEF PInv, procs, files, flags
  <2>1. PairTypes'
    BY Zenon, <1>3, <1>9 DEF PairTypes
  <2>2. InOrder'
    BY Zenon, <1>1, <1>3, <1>9 DEF InOrder
  <2>3. StillNoticed'
    BY SMTT(30), <1>1, <1>2, <1>3, <1>9 DEF StillNoticed, Ahead, Role, Child
  <2>4. GroupsStarted' /\ NothingSurvives'
    BY Zenon, <1>3, <1>9 DEF GroupsStarted, NothingSurvives
  <2>5. InTime'
    <3>1. ASSUME pc = "monitor", worst = "ready", NEW r \in Role, Looked(r)'
          PROVE  Progressing(r, ProgressTimeout + passAge)
      BY Zenon, <1>1, <1>5, <1>9, <3>1 DEF InTime, Looked
    <3> QED BY Zenon, <1>3, <1>9, <3>1 DEF InTime, Progressing, Serving
  <2>6. subject' # "none"
    BY <1>1, <1>9 DEF Role
  <2> QED BY <2>1, <2>2, <2>3, <2>4, <2>5, <2>6
<1> QED BY ZenonT(30), <1>6, <1>7, <1>8, <1>9

LEMMA ProbeWorkerPair ==
  ASSUME PInv, NEW ok \in BOOLEAN, ProbeWorker(ok)
  PROVE  PInv' /\ (subject' = "none" /\ lost => failed')
<1> DEFINE ever == ever_ready[subject] \/ ok
           fails == IF ok \/ ~ever_ready[subject] THEN 0 ELSE Older(failures[subject], ProbeFailures)
<1>1. /\ subject \in Role /\ probing /\ PairTypes /\ ever \in BOOLEAN
      /\ ever_ready \in [Role -> BOOLEAN]
  BY Zenon DEF ProbeWorker, PInv, InOrder, PairTypes
<1>2. /\ ever_ready' = [ever_ready EXCEPT ![subject] = ever] /\ Conclude(Answer(ever, fails))
      /\ UNCHANGED <<passAge, lost, procs, files, started, snapshot>>
  BY Zenon DEF ProbeWorker
<1>3. Answer(ever, fails) \in State /\ (Answer(ever, fails) = "ready" => ever)
  BY Zenon, <1>1, WorkerStates
<1> HIDE DEF ever, fails
<1>4. /\ ever_ready' \in [Role -> BOOLEAN] /\ \A r \in Role : ever_ready[r] => ever_ready'[r]
      /\ ever_ready'[subject] = ever
  BY Zenon, <1>1, <1>2 DEF ever
<1>5. pc = "monitor" /\ worst = "ready" => Progressing(subject, ProgressTimeout + passAge)
  BY <1>1 DEF PInv, InTime, Looked
<1> QED BY Zenon, <1>1, <1>2, <1>3, <1>4, <1>5, Concluded

LEMMA NextPInv == PInv /\ [Next]_vars => PInv'
<1> SUFFICES ASSUME PInv, [Next]_vars PROVE PInv'
  OBVIOUS
<1>1. CASE Supervise
  BY <1>1, StartPair, GatePollPair, LaunchPair, WarmBeginPair, MonitorBeginPair, MonitorDecidePair,
     ReportDonePair, ReturnPair, ShutdownPair, CheckWorkerPair, ProbeWorkerPair DEF Supervise
<1>2. CASE Environment
  BY <1>2, SignalPair, GateReadyPair, RestartPair, LeaderExitsPair, RankStartsPair, RankDiesPair,
     RankReportsPair DEF Environment
<1>3. CASE UNCHANGED vars
  BY <1>3 DEF vars, pass, flags, procs, files, http, PInv, PairTypes, InOrder, StillNoticed, Ahead,
              GroupsStarted, InTime, Progressing, Looked, Serving, NothingSurvives
<1> QED BY <1>1, <1>2, <1>3, TickPair DEF Next

(* shutdown kills every group that was started, also one whose leader has   *)
(* exited before its ranks, so nothing is left when the supervisor ended.   *)
THEOREM SupervisorLeavesNothing == Spec => []NothingSurvives
<1>1. PInv => NothingSurvives
  BY DEF PInv
<1> QED BY InitPInv, NextPInv, <1>1, PTL DEF Spec

(* A pair is served as ready only on records of this generation that are    *)
(* within the progress timeout, one monitor pass and the age of a snapshot, *)
(* for all timeouts.                                                        *)
THEOREM ReadyMeansProgress == Spec => []ReadyIsProgress
<1>1. ASSUME PInv PROVE ReadyIsProgress
  <2> SUFFICES ASSUME Serving, NEW r \in Role
               PROVE  /\ record[r].mine /\ record[r].state \in {"live", "failed"}
                      /\ record[r].age < ProgressTimeout + PassTime + Fresh
    BY DEF ReadyIsProgress
  <2>1. record[r].mine /\ Progressing(r, ProgressTimeout + PassTime + snapshot.age)
    BY <1>1 DEF PInv, InTime, Serving
  <2>2. record[r].age \in Nat /\ snapshot.age \in Nat /\ snapshot.age < Fresh
    BY <1>1 DEF PInv, PairTypes, Record, Serving
  <2> QED BY <2>1, <2>2, PairAssumption DEF Progressing
<1> QED BY InitPInv, NextPInv, <1>1, PTL DEF Spec

(* What PassNotices says of a step.                                         *)
LEMMA PassEnds ==
  ASSUME PInv, [Next]_vars, pc \in {"warm", "monitor"}, subject # "none", subject' = "none", lost
  PROVE  failed' \/ pc' = "boot"
<1>1. CASE MonitorDecide
  <2>1. worst = "failed" \/ leader["model"] = "exited"
    BY <1>1 DEF MonitorDecide, PInv, StillNoticed, Ahead, InOrder, Role
  <2> QED BY Zenon, <1>1, <2>1 DEF MonitorDecide
<1>2. ASSUME NEW b \in BOOLEAN, CheckWorker(b) \/ ProbeWorker(b) PROVE failed'
  BY <1>2, CheckWorkerPair, ProbeWorkerPair
<1>3. CASE Restart
  BY <1>3 DEF Restart
<1>4. ~ (Start \/ GatePoll \/ Launch \/ WarmBegin \/ MonitorBegin \/ ReportDone \/ Return \/ Shutdown)
  BY Zenon DEF Start, GatePoll, Launch, WarmBegin, MonitorBegin, ReportDone, Return, Shutdown, pass
<1>5. ~ (Signal \/ GateReady \/ Tick \/ UNCHANGED vars)
  BY Zenon DEF Signal, GateReady, Tick, EnvUnchanged, vars, pass
<1>6. ASSUME NEW c, LeaderExits(c) PROVE FALSE
  BY <1>6 DEF LeaderExits, EnvUnchanged, pass
<1>7. ASSUME NEW r, NEW s, RankStarts(r) \/ RankDies(r) \/ RankReports(r, s) PROVE FALSE
  BY Zenon, <1>7 DEF RankStarts, RankDies, RankReports, EnvUnchanged, pass
<1> QED BY <1>1, <1>2, <1>3, <1>4, <1>5, <1>6, <1>7 DEF Next, Supervise, Environment

(* No pass of start or of monitor ends without the failure of a child that  *)
(* had exited before it began.                                              *)
THEOREM ExitsAreNoticed == Spec => PassNotices
<1>1. PInv /\ [Next]_vars =>
      [(/\ pc \in {"warm", "monitor"} /\ subject # "none" /\ subject' = "none"
        /\ lost) => (failed' \/ pc' = "boot")]_vars
  BY PassEnds
<1> QED BY InitPInv, NextPInv, <1>1, PTL DEF Spec, PassNotices

-----------------------------------------------------------------------------
(* The clock of the BLOCKING simulator.                                    *)

ClkType == [clock : Int, real : Int, cur : Int, last : Int, load : Nat, now : Nat \ {0}]
LedgerType == [slack : Int, events : Nat]
SglFields == {"at", "waiting", "running", "batch", "part", "out", "overlap", "extend", "decode"}

(* Nothing waits or runs before the first dispatch has set the clocks.     *)
(* From then on they differ by the slack; between run_batch and            *)
(* process_batch_result the forward latency is still to be added.          *)
LoopInv ==
  /\ clk \in ClkType /\ ledger \in LedgerType
  /\ DOMAIN sgl = SglFields /\ sgl.at \in {"recv", "select", "run", "process"}
  /\ sgl.extend \in Nat /\ sgl.decode \in Nat /\ sgl.overlap \in BOOLEAN
  /\ simMode = "off" => sgl.at = "recv"
  /\ clk.real = 0 => /\ sgl.waiting = <<>> /\ sgl.running = {}
                     /\ sgl.at \in {"recv", "select"} /\ ledger.slack = 0
  /\ (clk.real # 0 /\ sgl.at # "process") => clk.clock - clk.real = ledger.slack
  /\ sgl.at = "process" => clk.clock + clk.cur - clk.real = ledger.slack /\ clk.now = clk.real

SimInv ==
  /\ simMode \in {"off", "OFFLINE", "BLOCKING"}
  /\ simMode # "OFFLINE" => LoopInv

LEMMA Greater ==
  ASSUME NEW x \in Int
  PROVE  Max({x, 0}) \in Nat /\ (x >= 0 => Max({x, 0}) = x)
<1>1. \E y \in {x, 0} : \A z \in {x, 0} : y >= z
  OBVIOUS
<1>2. Max({x, 0}) \in {x, 0} /\ \A z \in {x, 0} : Max({x, 0}) >= z
  BY Zenon, <1>1 DEF Max
<1> QED BY <1>2

LEMMA LoadType ==
  ASSUME NEW t \in Transfers
  PROVE  load_to_device(t) \in Nat
<1>1. Len(t[1]) \in Nat
  BY Zenon, SimAssumption DEF SimAssumption
<1>2. PICK T : T = Cuts(t[1], t[2])
  BY Zenon
<1>3. T \in SUBSET (2 .. Len(t[1]))
  BY Zenon, <1>2 DEF Cuts
<1>4. 2 \in Int /\ Len(t[1]) \in Int
  BY <1>1
<1>5. IsFiniteSet(2 .. Len(t[1]))
  BY Zenon, <1>4, FS_Interval
<1>6. Cardinality(T) \in Nat
  BY Zenon, <1>3, <1>5, FS_Subset, FS_CardinalityType
<1>7. SegmentCount(t[1], t[2]) \in {0, Cardinality(T) + 1}
  BY Zenon, <1>2 DEF SegmentCount
<1> QED BY <1>1, <1>6, <1>7 DEF load_to_device

LEMMA DelayTypes == Delays \subseteq Nat /\ Real \subseteq Nat
<1>1. Delays \subseteq Nat
  BY SimAssumption DEF SimAssumption, Delays
<1> QED BY <1>1 DEF Real

(* The loop receives: the first dispatch sets both clocks.                 *)
LEMMA RecvKeeps ==
  ASSUME LoopInv, simMode = "BLOCKING", simMode' = simMode, sgl.at = "recv",
         NEW reqs, NEW idle \in Nat, NEW early, RecvRequests(reqs, clk.now + idle, early),
         NEW e \in Nat, ledger' = [ledger EXCEPT !.events = @ + e]
  PROVE  LoopInv'
<1>1. PICK released, now :
        /\ now = clk.now + idle /\ clk' = ClockAfterDispatch(released, now)
        /\ sgl' = [sgl EXCEPT !.at = "select", !.waiting = @ \o released]
  BY Zenon DEF RecvRequests
<1>2. clk \in ClkType /\ ledger \in LedgerType /\ DOMAIN sgl = SglFields
  BY Zenon DEF LoopInv
<1>3. now \in Nat \ {0} /\ now \in Int
  BY <1>1, <1>2 DEF ClkType
<1>4. /\ DOMAIN sgl' = SglFields /\ sgl'.at = "select" /\ sgl'.waiting = sgl.waiting \o released
      /\ sgl'.running = sgl.running /\ sgl'.extend = sgl.extend /\ sgl'.decode = sgl.decode
      /\ sgl'.overlap = sgl.overlap
  BY <1>1, <1>2 DEF SglFields
<1>5. ledger' \in LedgerType /\ ledger'.slack = ledger.slack
  BY <1>2 DEF LedgerType
<1>6. CASE released # <<>> /\ clk.real = 0
  <2>1. clk' = [clk EXCEPT !.now = now, !.real = now, !.clock = now]
    BY Zenon, <1>1, <1>6 DEF ClockAfterDispatch
  <2>2. clk' \in ClkType
    BY Zenon, <1>2, <1>3, <2>1 DEF ClkType
  <2>3. clk'.real = now /\ clk'.clock = now
    BY Zenon, <1>2, <2>1 DEF ClkType
  <2>4. ledger.slack = 0 /\ now - now = 0 /\ now # 0
    BY <1>3, <1>6 DEF LoopInv
  <2> QED BY Zenon, <1>4, <1>5, <2>2, <2>3, <2>4 DEF LoopInv
<1>7. CASE ~ (released # <<>> /\ clk.real = 0)
  <2>1. clk' = [clk EXCEPT !.now = now]
    BY Zenon, <1>1, <1>7 DEF ClockAfterDispatch
  <2>2. clk' \in ClkType /\ clk'.real = clk.real /\ clk'.clock = clk.clock
    BY <1>2, <1>3, <2>1 DEF ClkType
  <2>3. clk.real = 0 => sgl'.waiting = <<>>
    BY <1>4, <1>7 DEF LoopInv
  <2> QED BY Zenon, <1>4, <1>5, <2>2, <2>3 DEF LoopInv
<1> QED BY Zenon, <1>6, <1>7

LEMMA RunKeeps ==
  ASSUME LoopInv, simMode = "BLOCKING", NEW late \in Nat, NEW t \in Transfers, RunBatch(late, t)
  PROVE  LoopInv'
<1>1. clk \in ClkType /\ ledger \in LedgerType /\ DOMAIN sgl = SglFields /\ sgl.at = "run"
  BY Zenon DEF LoopInv, RunBatch
<1>2. PICK latency \in Nat : latency = predict_infer_time
  BY Zenon DEF LoopInv, predict_infer_time
<1>3. PICK load \in Nat : load = load_to_device(t)
  BY Zenon, LoadType
<1>4. PICK now : now = clk.now + latency + late
  BY Zenon
<1>5. /\ clk' = [clk EXCEPT !.last = clk.cur, !.cur = now - clk.real, !.now = now, !.real = now,
                            !.load = @ + load]
      /\ sgl' = [sgl EXCEPT !.at = "process"] /\ ledger' = Counted(t, late) /\ simMode' = simMode
  BY Zenon, <1>2, <1>3, <1>4 DEF RunBatch
<1>6. now \in Nat \ {0}
  BY <1>1, <1>4 DEF ClkType
<1>7. /\ clk'.real = now /\ clk'.now = now /\ clk'.clock = clk.clock /\ clk'.cur = now - clk.real
      /\ clk' \in ClkType /\ clk.clock \in Int /\ clk.real \in Int
  <2>1. clk.clock \in Int /\ clk.real \in Int /\ clk.load \in Nat
    BY Zenon, <1>1 DEF ClkType
  <2>2. now \in Int /\ now - clk.real \in Int /\ clk.load + load \in Nat
    BY <1>3, <1>6, <2>1
  <2> QED BY Zenon, <1>1, <1>5, <1>6, <2>1, <2>2 DEF ClkType
<1>8. /\ DOMAIN sgl' = SglFields /\ sgl'.at = "process" /\ sgl'.extend = sgl.extend
      /\ sgl'.decode = sgl.decode /\ sgl'.overlap = sgl.overlap
  BY <1>1, <1>5 DEF SglFields
<1>9. ledger' \in LedgerType /\ ledger'.slack = ledger.slack
  <2>1. PICK n \in {0, 1} : ledger' = [ledger EXCEPT !.events = @ + late + n]
    BY Zenon, <1>5 DEF Counted
  <2> QED BY <1>1, <2>1 DEF LedgerType
<1>10. clk.real # 0 /\ clk.clock - clk.real = ledger.slack
  BY Zenon, <1>1 DEF LoopInv
<1>11. clk'.clock + clk'.cur - clk'.real = ledger.slack /\ clk'.real # 0
  BY <1>6, <1>7, <1>10
<1> QED BY Zenon, <1>5, <1>7, <1>8, <1>9, <1>11 DEF LoopInv

(* Blocking for what is seen of a load leaves the clocks apart by what was *)
(* overslept.                                                              *)
LEMMA Overslept ==
  ASSUME NEW c \in Int, NEW cur \in Int, NEW real \in Int, NEW slack \in Int, c + cur - real = slack,
         NEW visible \in Nat, NEW blocked \in Nat, NEW over \in Nat, NEW cpu \in Nat,
         blocked > 0 => blocked = visible + over, ~(blocked > 0) => visible = 0 /\ blocked = 0
  PROVE  (c + visible + cur + cpu) - (real + blocked + cpu) = slack - (IF blocked > 0 THEN over ELSE 0)
<1>1. CASE blocked > 0
  <2>1. (IF blocked > 0 THEN over ELSE 0) = over
    BY Zenon, <1>1
  <2>2. (c + visible + cur + cpu) - (real + blocked + cpu) = slack - over
    BY <1>1
  <2> QED BY Zenon, <2>1, <2>2
<1>2. CASE ~(blocked > 0)
  <2>1. (IF blocked > 0 THEN over ELSE 0) = 0
    BY Zenon, <1>2
  <2>2. (c + visible + cur + cpu) - (real + blocked + cpu) = slack - 0
    BY <1>2
  <2> QED BY Zenon, <2>1, <2>2
<1> QED BY Zenon, <1>1, <1>2

LEMMA ProcessKeeps ==
  ASSUME LoopInv, simMode = "BLOCKING", NEW over \in Nat, NEW cpu \in Nat, ProcessBatch(over, cpu)
  PROVE  LoopInv'
<1>1. /\ clk \in ClkType /\ ledger \in LedgerType /\ DOMAIN sgl = SglFields /\ sgl.at = "process"
      /\ clk.clock + clk.cur - clk.real = ledger.slack /\ clk.now = clk.real /\ clk.real # 0
  BY Zenon DEF LoopInv, ProcessBatch
<1>2. PICK visible \in Nat : visible = effective_l2_load_delay(clk.load, clk.last, sgl.overlap)
  <2>1. clk.load \in Nat /\ clk.load - clk.last \in Int
    BY <1>1 DEF ClkType
  <2>2. Max({clk.load - clk.last, 0}) \in Nat
    BY Zenon, <2>1, Greater
  <2> QED BY Zenon, <2>1, <2>2 DEF effective_l2_load_delay
<1>3. PICK blocked : blocked = IF simMode = "BLOCKING" /\ visible > 0 THEN visible + over ELSE 0
  BY Zenon
<1>4. /\ blocked \in Nat /\ (blocked > 0 => blocked = visible + over)
      /\ (~ (blocked > 0) => visible = 0 /\ blocked = 0)
  BY <1>2, <1>3
<1>5. PICK now : now = clk.now + blocked + cpu
  BY Zenon
<1>6. PICK spent : spent = Max({now - clk.real - blocked, 0})
  BY Zenon
<1>7. clk.clock \in Int /\ clk.real \in Int /\ clk.cur \in Int /\ clk.now \in Nat \ {0}
  BY <1>1 DEF ClkType
<1>8. now \in Nat \ {0} /\ now - clk.real - blocked = cpu
  BY <1>1, <1>4, <1>5, <1>7
<1>9. spent = cpu
  <2>1. cpu \in Int /\ cpu >= 0
    OBVIOUS
  <2> QED BY Zenon, <1>6, <1>8, <2>1, Greater
<1>10. PICK clock : clock = clk.clock + visible + clk.cur + cpu
  BY Zenon
<1>11. /\ clk' = [clk EXCEPT !.clock = clock, !.load = 0, !.now = now, !.real = now]
       /\ sgl' = Served(sgl.batch \ Range(sgl.part)) /\ simMode' = simMode
       /\ ledger' = [ledger EXCEPT !.events = @ + over + cpu,
                                   !.slack = @ - (IF blocked > 0 THEN over ELSE 0)]
  BY Zenon, <1>2, <1>3, <1>5, <1>6, <1>9, <1>10 DEF ProcessBatch
<1>12. clock \in Int
  BY <1>7, <1>10
<1>13. clk' \in ClkType /\ clk'.clock = clock /\ clk'.real = now
  <2>1. now \in Int /\ 0 \in Nat
    BY <1>8
  <2> QED BY Zenon, <1>1, <1>8, <1>11, <1>12, <2>1 DEF ClkType
<1>14. /\ ledger' \in LedgerType /\ ledger.slack \in Int
       /\ ledger'.slack = ledger.slack - (IF blocked > 0 THEN over ELSE 0)
  <2>1. ledger.slack \in Int /\ ledger.events \in Nat
    BY Zenon, <1>1 DEF LedgerType
  <2>2. /\ ledger.slack - (IF blocked > 0 THEN over ELSE 0) \in Int
        /\ ledger.events + over + cpu \in Nat
    BY <2>1
  <2> QED BY Zenon, <1>1, <1>11, <2>1, <2>2 DEF LedgerType
<1>15. clk'.real # 0 /\ clk'.clock - clk'.real = ledger'.slack
  <2>1. PICK c \in Int, cur \in Int, real \in Int, slack \in Int :
          /\ c = clk.clock /\ cur = clk.cur /\ real = clk.real /\ slack = ledger.slack
          /\ real = clk.now /\ c + cur - real = slack
    BY Zenon, <1>1, <1>7, <1>14
  <2>2. clk'.real = real + blocked + cpu /\ clk'.clock = c + visible + cur + cpu
    BY Zenon, <1>5, <1>10, <1>13, <2>1
  <2>3. ledger'.slack = slack - (IF blocked > 0 THEN over ELSE 0)
    BY Zenon, <1>14, <2>1
  <2>4. (c + visible + cur + cpu) - (real + blocked + cpu) = slack - (IF blocked > 0 THEN over ELSE 0)
    <3>1. /\ c + cur - real = slack /\ blocked \in Nat
          /\ (blocked > 0 => blocked = visible + over)
          /\ (~(blocked > 0) => visible = 0 /\ blocked = 0)
      BY Zenon, <1>4, <2>1
    <3> QED BY <3>1, Overslept
  <2>5. now # 0
    BY <1>8
  <2>6. clk'.clock - clk'.real = ledger'.slack
    BY Zenon, <2>2, <2>3, <2>4
  <2> QED BY Zenon, <1>13, <2>5, <2>6
<1>16. /\ DOMAIN sgl' = SglFields /\ sgl'.at = "recv" /\ sgl'.extend = sgl.extend
       /\ sgl'.decode = sgl.decode /\ sgl'.overlap = sgl.overlap
  BY <1>1, <1>11 DEF SglFields, Served
<1> QED BY Zenon, <1>11, <1>13, <1>14, <1>15, <1>16 DEF LoopInv

(* SGLang's own choices do not touch the clocks.                           *)
LEMMA SelectKeeps ==
  ASSUME LoopInv, simMode = "BLOCKING",
         \/ \E n \in 1..Cardinality(AnyReq), cut \in BOOLEAN : Admit(n, cut)
         \/ Continue
  PROVE  LoopInv'
<1>1. /\ clk \in ClkType /\ ledger \in LedgerType /\ DOMAIN sgl = SglFields /\ sgl.at = "select"
      /\ clk' = clk /\ simMode' = simMode
  BY Zenon DEF LoopInv, Admit, Continue
<1>2. /\ ledger' \in LedgerType /\ ledger'.slack = ledger.slack
  <2>1. ledger' = ledger \/ ledger' = [ledger EXCEPT !.events = @ + 1]
    BY Zenon DEF Admit, Continue
  <2>2. ledger.slack \in Int /\ ledger.events \in Nat /\ ledger.events + 1 \in Nat
    BY <1>1 DEF LedgerType
  <2> QED BY Zenon, <1>1, <2>1, <2>2 DEF LedgerType
<1>3. ASSUME NEW n \in 1..Cardinality(AnyReq), NEW cut \in BOOLEAN, Admit(n, cut)
      PROVE  LoopInv'
  <2>1. PICK new, part : sgl' = [sgl EXCEPT !.at = "run", !.batch = new, !.part = part,
                                          !.waiting = SubSeq(@, n + 1, Len(@))]
    BY Zenon, <1>3 DEF Admit
  <2>2. /\ DOMAIN sgl' = SglFields /\ sgl'.at = "run" /\ sgl'.extend = sgl.extend
        /\ sgl'.decode = sgl.decode /\ sgl'.overlap = sgl.overlap
    BY <1>1, <2>1 DEF SglFields
  <2>3. sgl.waiting # <<>>
    <3>1. n \in 1..Len(sgl.waiting)
      BY Zenon, <1>3 DEF Admit
    <3>2. n \notin 1..Len(<<>>)
      BY <1>3
    <3> QED BY Zenon, <3>1, <3>2
  <2>4. clk.real # 0 /\ clk.clock - clk.real = ledger.slack
    BY Zenon, <1>1, <2>3 DEF LoopInv
  <2> QED BY Zenon, <1>1, <1>2, <2>2, <2>4 DEF LoopInv
<1>4. CASE Continue
  <2>1. CASE sgl.running = {}
    <3>1. sgl' = [sgl EXCEPT !.at = "recv"]
      BY Zenon, <1>4, <2>1 DEF Continue
    <3>2. /\ DOMAIN sgl' = SglFields /\ sgl'.at = "recv" /\ sgl'.extend = sgl.extend
          /\ sgl'.decode = sgl.decode /\ sgl'.overlap = sgl.overlap
          /\ sgl'.waiting = sgl.waiting /\ sgl'.running = sgl.running
      BY <1>1, <3>1 DEF SglFields
    <3> QED BY Zenon, <1>1, <1>2, <3>2 DEF LoopInv
  <2>2. CASE sgl.running # {}
    <3>1. sgl' = [sgl EXCEPT !.at = "run", !.batch = sgl.running, !.part = <<>>]
      BY Zenon, <1>4, <2>2 DEF Continue
    <3>2. /\ DOMAIN sgl' = SglFields /\ sgl'.at = "run" /\ sgl'.extend = sgl.extend
          /\ sgl'.decode = sgl.decode /\ sgl'.overlap = sgl.overlap
      BY <1>1, <3>1 DEF SglFields
    <3>3. clk.real # 0 /\ clk.clock - clk.real = ledger.slack
      BY Zenon, <1>1, <2>2 DEF LoopInv
    <3> QED BY Zenon, <1>1, <1>2, <3>2, <3>3 DEF LoopInv
  <2> QED BY Zenon, <2>1, <2>2
<1> QED BY Zenon, <1>3, <1>4

LEMMA WaitKeeps ==
  ASSUME LoopInv, WaitForPrefetch
  PROVE  LoopInv'
<1>1. /\ clk \in ClkType /\ ledger \in LedgerType /\ DOMAIN sgl = SglFields /\ sgl.at = "select"
      /\ sgl.waiting # <<>> /\ simMode' = simMode
      /\ clk' = [clk EXCEPT !.clock = @ + Wait, !.last = clk.cur, !.cur = Wait]
      /\ ledger' = [ledger EXCEPT !.events = @ + 1, !.slack = @ + Wait]
      /\ sgl' = [sgl EXCEPT !.at = "recv"]
  BY Zenon DEF LoopInv, WaitForPrefetch
<1>2. clk.real # 0 /\ clk.clock - clk.real = ledger.slack /\ simMode # "off"
  BY Zenon, <1>1 DEF LoopInv
<1>3. /\ clk.clock \in Int /\ clk.real \in Int /\ clk.cur \in Int /\ ledger.slack \in Int
      /\ ledger.events \in Nat
  BY Zenon, <1>1 DEF ClkType, LedgerType
<1>4. /\ Wait \in Int /\ clk.clock + Wait \in Int /\ ledger.slack + Wait \in Int
      /\ ledger.events + 1 \in Nat /\ (clk.clock + Wait) - clk.real = ledger.slack + Wait
  <2>1. Wait \in Int
    BY SimAssumption DEF SimAssumption
  <2> QED BY <1>2, <1>3, <2>1
<1>5. clk' \in ClkType /\ clk'.clock = clk.clock + Wait /\ clk'.real = clk.real
  BY Zenon, <1>1, <1>3, <1>4 DEF ClkType
<1>6. ledger' \in LedgerType /\ ledger'.slack = ledger.slack + Wait
  BY Zenon, <1>1, <1>3, <1>4 DEF LedgerType
<1>7. /\ DOMAIN sgl' = SglFields /\ sgl'.at = "recv" /\ sgl'.extend = sgl.extend
      /\ sgl'.decode = sgl.decode /\ sgl'.overlap = sgl.overlap
  BY <1>1 DEF SglFields
<1>8. clk'.real # 0 /\ clk'.clock - clk'.real = ledger'.slack
  <2>1. clk'.clock - clk'.real = ledger'.slack
    BY Zenon, <1>4, <1>5, <1>6
  <2> QED BY Zenon, <1>2, <1>5, <2>1
<1> QED BY Zenon, <1>1, <1>2, <1>5, <1>6, <1>7, <1>8 DEF LoopInv

LEMMA ProfileKeeps ==
  ASSUME LoopInv, NEW next, Quiet, Profile(next)
  PROVE  LoopInv'
<1>1. /\ clk \in ClkType /\ ledger \in LedgerType /\ sgl' = sgl /\ simMode' = simMode
      /\ sgl.at = "recv" /\ sgl.running = {} /\ sgl.waiting = <<>>
      /\ clk' = NoClock(clk.now) /\ ledger' = [ledger EXCEPT !.slack = 0]
  BY Zenon DEF LoopInv, Quiet, Profile
<1>2. clk.now \in Nat \ {0} /\ 0 \in Int /\ 0 \in Nat
  BY <1>1 DEF ClkType
<1>3. clk' \in ClkType /\ clk'.real = 0
  BY Zenon, <1>1, <1>2 DEF ClkType, NoClock
<1>4. ledger' \in LedgerType /\ ledger'.slack = 0
  BY Zenon, <1>1, <1>2 DEF LedgerType
<1> QED BY Zenon, <1>1, <1>3, <1>4 DEF LoopInv

LEMMA StartsKeep ==
  ASSUME LoopInv, NEW u \in Setups, SimStart(u)
  PROVE  LoopInv'
<1>1. /\ DOMAIN sgl = SglFields /\ sgl.at = "recv" /\ clk' = clk /\ ledger' = ledger
      /\ sgl' = [sgl EXCEPT !.overlap = u.overlap, !.extend = u.extend, !.decode = u.decode]
  BY Zenon DEF LoopInv, SimStart
<1>2. /\ DOMAIN sgl' = SglFields /\ sgl'.at = sgl.at /\ sgl'.extend = u.extend
      /\ sgl'.decode = u.decode /\ sgl'.overlap = u.overlap
      /\ sgl'.waiting = sgl.waiting /\ sgl'.running = sgl.running
  BY <1>1 DEF SglFields
<1>3. u.extend \in Nat /\ u.decode \in Nat /\ u.overlap \in BOOLEAN
  BY Zenon, SimAssumption DEF SimAssumption
<1> QED BY Zenon, <1>1, <1>2, <1>3 DEF LoopInv

(* The mode is chosen once, and everything but the start comes after it.   *)
LEMMA ModeKept ==
  ASSUME SimInv, SimNext
  PROVE  \/ \E u \in Setups : SimStart(u)
         \/ simMode' = simMode /\ (simMode = "off" => ~LoopInv)
<1>1. simMode = "off" /\ LoopInv => sgl.at = "recv"
  BY Zenon DEF LoopInv
<1> QED
  BY Zenon, <1>1 DEF SimNext, Recv, RecvWarm, WaitForPrefetch, SimLoop, Admit, Continue, RunBatch,
     ProcessBatch, StartProfile, StopProfile, Quiet, Profile

LEMMA SimStep ==
  ASSUME SimInv, [SimNext]_simVars
  PROVE  SimInv'
<1>1. CASE UNCHANGED simVars
  BY Zenon, <1>1 DEF SimInv, LoopInv, simVars
<1>2. ASSUME NEW u \in Setups, SimStart(u)
      PROVE  SimInv'
  <2>1. simMode = "off" /\ simMode' = u.mode
    BY Zenon, <1>2 DEF SimStart
  <2>2. LoopInv'
    BY Zenon, <1>2, <2>1, StartsKeep DEF SimInv
  <2>3. u.mode \in {"OFFLINE", "BLOCKING"}
    BY Zenon, SimAssumption DEF SimAssumption
  <2> QED BY Zenon, <2>1, <2>2, <2>3 DEF SimInv
<1>3. CASE SimNext /\ simMode' = simMode /\ (simMode = "off" => ~LoopInv)
  <2>1. CASE simMode = "OFFLINE"
    BY Zenon, <1>3, <2>1 DEF SimInv
  <2>2. CASE simMode = "BLOCKING"
    <3> SUFFICES LoopInv'
      BY Zenon, <1>3, <2>2 DEF SimInv
    <3>1. LoopInv
      BY Zenon, <2>2 DEF SimInv
    <3>2. ASSUME NEW reqs, NEW idle \in Real, NEW early \in Real, Recv(reqs, idle, early)
          PROVE  LoopInv'
      <4>1. /\ sgl.at = "recv" /\ RecvRequests(reqs, clk.now + idle, early)
            /\ ledger' = [ledger EXCEPT !.events = @ + idle + early]
        BY Zenon, <3>2 DEF Recv
      <4>2. idle \in Nat /\ early \in Nat /\ idle + early \in Nat
        BY DelayTypes
      <4>3. ledger' = [ledger EXCEPT !.events = @ + (idle + early)]
        <5>1. ledger.events \in Nat
          BY Zenon, <3>1 DEF LoopInv, LedgerType
        <5>2. ledger.events + idle + early = ledger.events + (idle + early)
          BY <4>2, <5>1
        <5> QED BY Zenon, <4>1, <5>2
      <4> QED BY Zenon, <1>3, <2>2, <3>1, <4>1, <4>2, <4>3, RecvKeeps
    <3>3. CASE RecvWarm
      <4>1. /\ sgl.at = "recv" /\ RecvRequests(<<Warm>>, clk.now, 0) /\ ledger' = ledger
        BY Zenon, <3>3 DEF RecvWarm
      <4>2. clk.now \in Nat \ {0} /\ ledger.events \in Nat
        BY Zenon, <3>1 DEF LoopInv, LedgerType, ClkType
      <4>3. 0 \in Nat /\ clk.now + 0 = clk.now /\ ledger.events + 0 = ledger.events
        BY <4>2
      <4>4. ledger = [ledger EXCEPT !.events = ledger.events]
        BY Zenon, <3>1 DEF LoopInv, LedgerType
      <4>5. ledger' = [ledger EXCEPT !.events = @ + 0]
        BY Zenon, <4>1, <4>3, <4>4
      <4>6. RecvRequests(<<Warm>>, clk.now + 0, 0)
        BY Zenon, <4>1, <4>3
      <4> QED BY Zenon, <1>3, <2>2, <3>1, <4>1, <4>3, <4>5, <4>6, RecvKeeps
    <3>4. ASSUME NEW late \in Real, NEW t \in Transfers, RunBatch(late, t)
          PROVE  LoopInv'
      BY Zenon, <2>2, <3>1, <3>4, RunKeeps, DelayTypes
    <3>5. ASSUME NEW over \in Real, NEW cpu \in Delays, ProcessBatch(over, cpu)
          PROVE  LoopInv'
      BY Zenon, <2>2, <3>1, <3>5, ProcessKeeps, DelayTypes
    <3>6. CASE StartProfile \/ StopProfile
      <4>1. PICK next : Quiet /\ Profile(next)
        BY Zenon, <3>6 DEF StartProfile, StopProfile
      <4> QED BY Zenon, <3>1, <4>1, ProfileKeeps
    <3>7. CASE SimLoop
      BY Zenon, <2>2, <3>1, <3>4, <3>5, <3>7, SelectKeeps DEF SimLoop
    <3>8. CASE WaitForPrefetch
      BY Zenon, <3>1, <3>8, WaitKeeps
    <3>9. ~\E u \in Setups : SimStart(u)
      BY Zenon, <2>2 DEF SimStart
    <3> QED BY Zenon, <1>3, <3>2, <3>3, <3>6, <3>7, <3>8, <3>9 DEF SimNext
  <2> QED BY Zenon, <1>3, <2>1, <2>2 DEF SimInv
<1> QED BY Zenon, <1>1, <1>2, <1>3, ModeKept

(* The clock of a BLOCKING simulation is the real time, up to the slack    *)
(* that its waiting passes and its oversleeping account for, for every     *)
(* predictor, every transfer from host memory and every delay between the  *)
(* hooks around recv_requests, run_batch and process_batch_result.         *)
THEOREM ClockStaysReal == SimSpec => []ClockIsReal
<1>1. SimInit => SimInv
  <2> SUFFICES ASSUME SimInit PROVE SimInv
    OBVIOUS
  <2>1. clk \in ClkType /\ clk.real = 0 /\ ledger \in LedgerType /\ ledger.slack = 0
    <3>1. 0 \in Int /\ 0 \in Nat /\ 1 \in Nat \ {0}
      OBVIOUS
    <3>2. clk \in ClkType /\ clk.real = 0
      BY Zenon, <3>1 DEF SimInit, ClkType, NoClock
    <3>3. ledger \in LedgerType /\ ledger.slack = 0
      BY Zenon, <3>1 DEF SimInit, LedgerType, NoLedger
    <3> QED BY Zenon, <3>2, <3>3
  <2>2. /\ DOMAIN sgl = SglFields /\ sgl.at = "recv" /\ sgl.extend = 0 /\ sgl.decode = 0
        /\ sgl.overlap = FALSE /\ sgl.waiting = <<>> /\ sgl.running = {} /\ 0 \in Nat
    BY Zenon DEF SimInit, SglFields
  <2>3. simMode = "off"
    BY Zenon DEF SimInit
  <2> QED BY Zenon, <2>1, <2>2, <2>3 DEF SimInv, LoopInv
<1>2. SimInv /\ [SimNext]_simVars => SimInv'
  BY SimStep
<1>3. SimInv => ClockIsReal
  BY Zenon DEF SimInv, LoopInv, ClockIsReal
<1> QED BY <1>1, <1>2, <1>3, PTL DEF SimSpec
=============================================================================
