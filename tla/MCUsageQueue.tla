---------------------------- MODULE MCUsageQueue ----------------------------
(* Three parts that share no state, one per behaviour: the gateway's usage *)
(* queue (a queue of three, batches of three, one event of four is         *)
(* refused), its address windows (two addresses, a table of one window,    *)
(* half-second ticks), and the stack snapshots of a worker (a rank with    *)
(* its two readers and three connections that compete for them).           *)
EXTENDS UsageQueue, RateWindow, StackSnapshots

VARIABLE part

MCInit == part \in {"usage", "windows", "snapshots"} /\ Init /\ RateInit /\ SnapshotInit

MCNext ==
  /\ \/ part = "usage" /\ Next /\ UNCHANGED <<rateVars, snapshotVars>>
     \/ part = "windows" /\ RateNext /\ UNCHANGED <<vars, snapshotVars>>
     \/ part = "snapshots" /\ SnapshotNext /\ UNCHANGED <<vars, rateVars>>
  /\ UNCHANGED part

MCSpec ==
  /\ MCInit /\ [][MCNext]_<<vars, rateVars, snapshotVars, part>>
  /\ (part = "usage") => Fairness
  /\ SnapshotFairness
=============================================================================
