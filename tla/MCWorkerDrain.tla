--------------------------- MODULE MCWorkerDrain ---------------------------
(* Three parts that share no state, one per behaviour: the router's        *)
(* withdrawal of workers (one URL at which a worker is withdrawn and       *)
(* another registered; two models behind one public name), the router's    *)
(* launcher with its log sink, and the start of a worker: the fetch of a   *)
(* plain cache and the gate.                                               *)
EXTENDS WorkerDrain, RouterLauncher, ModelFetch

VARIABLE part

MCRoutes == [a \in Alias |-> Model]

(* A release of a sharded and one of an unsharded model, and what differs   *)
(* from them in one respect.                                                *)
Sharded == [pins |-> ModelFile \cup {Manifest}, inventory |-> ModelFile, sound |-> TRUE,
            agrees |-> TRUE, shards |-> ModelFile \ {Index}, plain |-> FALSE]
Unsharded == [Sharded EXCEPT !.pins = @ \ {Index}, !.inventory = @ \ {Index}]
GateReleases == UNION {{r, [r EXCEPT !.sound = FALSE], [r EXCEPT !.agrees = FALSE],
  [r EXCEPT !.inventory = @ \cup {Manifest}], [r EXCEPT !.inventory = @ \ {Single}],
  [r EXCEPT !.pins = ModelFile], [r EXCEPT !.pins = @ \ {Single}],
  [r EXCEPT !.shards = {}]} : r \in {Sharded, Unsharded}}

(* The volume the manifest describes, with at most one file that differs.   *)
Described == [f \in Names |-> IF f \in release.inventory \cup {Manifest} THEN "right" ELSE "absent"]
GateVolumes ==
  [verity : {TRUE}, writable : BOOLEAN,
   files : {Described} \cup {[Described EXCEPT ![f] = k] : f \in Names, k \in FileState}]

(* A plain cache: what a host may hold, of this or of another release.     *)
PlainReleases == {[r EXCEPT !.plain = TRUE] : r \in {Sharded, Unsharded,
                   [Sharded EXCEPT !.agrees = FALSE], [Sharded EXCEPT !.inventory = @ \cup {Manifest}]}}
Filled(k) == [f \in Names |-> k]
Disks == [verity : {FALSE}, writable : BOOLEAN,
          files : UNION {{Filled(k), [Filled(k) EXCEPT ![f] = d]} :
                         k \in {"right", "absent"}, f \in Names, d \in {"wrong", "link"}}]

GateNext ==
  \/ \E r \in GateReleases \cup PlainReleases, root \in BOOLEAN : StartWorker(r, root)
  \/ \E r \in PlainReleases, d \in Disks : StartPod(r, d)
  \/ FetchStep \/ \E partial \in BOOLEAN : RestartFetch(partial)
  \/ \E v \in GateVolumes : Attach(v) /\ UNCHANGED fetching
  \/ GateSteps

MCInit == part \in {"drain", "launcher", "gate"} /\ Init /\ LaunchInit /\ FetchInit

MCNext ==
  /\ \/ part = "drain" /\ Next /\ UNCHANGED <<launchVars, fetchVars>>
     \/ part = "launcher" /\ LaunchNext /\ UNCHANGED <<vars, fetchVars>>
     \/ part = "gate" /\ GateNext /\ UNCHANGED <<vars, launchVars>>
  /\ UNCHANGED part

(* No fair action is enabled in a part that has not begun.                 *)
MCSpec ==
  /\ MCInit /\ [][MCNext]_<<vars, launchVars, fetchVars, part>>
  /\ Fairness /\ LaunchFairness /\ GateFairness /\ FetchFairness
=============================================================================
