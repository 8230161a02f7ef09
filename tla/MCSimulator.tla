----------------------------- MODULE MCSimulator -----------------------------
(* The two parts of the simulator, which share no state of the model, one   *)
(* per behaviour: its cache and its scheduler.                              *)
EXTENDS SimCache, SimScheduler

CONSTANTS p1, p2, early, late
VARIABLE part

(* Two prefixes with the first page in common.                              *)
MCPages == [p \in Prefetch |-> IF p = p1 THEN <<"a", "b">> ELSE <<"a", "c">>]

(* One request created at the start of the session and one at 4; a transfer *)
(* from host memory may be of two runs of slots that are not adjacent.      *)
MCCreated == (early :> 0 @@ late :> 4)
MCTransfers == {<<<<>>, <<>>>>, <<<<1, 2>>, <<5, 7>>>>}
Setup(m, o, e, d) == [mode |-> m, overlap |-> o, extend |-> e, decode |-> d]
MCSetups == {Setup("OFFLINE", TRUE, 3, 1), Setup("OFFLINE", FALSE, 0, 0), Setup("BLOCKING", TRUE, 2, 0)}

MCInit == part \in {"cache", "scheduler"} /\ CacheInit /\ SimInit

MCNext ==
  /\ \/ part = "cache" /\ CacheNext /\ UNCHANGED simVars
     \/ part = "scheduler" /\ SimNext /\ UNCHANGED cacheVars
  /\ UNCHANGED part

(* No fair action is enabled in a part that has not begun.                  *)
MCSpec ==
  /\ MCInit /\ [][MCNext]_<<cacheVars, simVars, part>>
  /\ CacheFairness /\ SimFairness
==============================================================================
