----------------------------- MODULE ModelFetch -----------------------------
(* fetch_model.py: the init container that fills the plain model cache, a   *)
(* directory of the host that outlives the pod, before the gate of          *)
(* ModelGate checks it. A fetch may be killed at any step and is then       *)
(* started again by the kubelet, over what it left behind.                  *)
(*                                                                          *)
(* Stray is any name outside the manifest: a file of another model, or a    *)
(* ".partial" file that a download left. One worker runs on a host.         *)
EXTENDS ModelGate

CONSTANTS
  WORKERS,          \* threads of the download pool
  MaxRestarts       \* bound: kills and failures

ASSUME FetchAssumption == WORKERS \in Nat \ {0} /\ MaxRestarts \in Nat

VARIABLE fetching   \* the process: where it is, and the futures of its pool

fetchVars == <<gateVars, fetching>>
UntouchedGate == UNCHANGED <<gate, clock, wake, looked, release, hashing, hashed, server>>

NoFetch == [at |-> "none", ensured |-> {}, downloading |-> {}, failed |-> {}, restarts |-> 0]
FetchInit == GateInit /\ fetching = NoFetch

Disk == [verity : {FALSE}, writable : BOOLEAN, files : [Names -> FileState]]

(* The pod of a release starts on a host whose disk holds anything.         *)
StartPod(r, disk) ==
  /\ gate = "idle" /\ fetching.at = "none" /\ r.plain
  /\ release' = r /\ volume' = disk
  /\ fetching' = [fetching EXCEPT !.at = "read"]
  /\ UNCHANGED <<gate, clock, wake, looked, hashing, hashed, server>>

At(place) == [fetching EXCEPT !.at = place]
Unfinished == release.inventory \ (fetching.ensured \cup fetching.downloading \cup fetching.failed)

(* fetch(): the manifest has the pinned digest and the schema, or not.      *)
ReadManifest(valid) ==
  /\ fetching.at = "read"
  /\ fetching' = IF valid /\ Manifest \notin release.inventory THEN At("pool") ELSE At("exited")
  /\ UNCHANGED volume /\ UntouchedGate

(* A future of the pool begins. A file with its bytes is kept, another one  *)
(* is unlinked and downloaded.                                              *)
ensure(f) ==
  /\ fetching.at = "pool" /\ f \in Unfinished
  /\ Cardinality(fetching.downloading) < WORKERS
  /\ IF volume.files[f] = "right"
     THEN fetching' = [fetching EXCEPT !.ensured = @ \cup {f}] /\ UNCHANGED volume
     ELSE /\ fetching' = [fetching EXCEPT !.downloading = @ \cup {f}]
          /\ volume' = [volume EXCEPT !.files[f] = "absent"]
  /\ UntouchedGate

(* got: all the bytes, other ones (the partial file is unlinked), or an     *)
(* error of the connection, which leaves the partial file.                  *)
download(f, got) ==
  /\ fetching.at \in {"pool", "raising"} /\ f \in fetching.downloading
  /\ fetching' = IF got = "right"
                 THEN [fetching EXCEPT !.downloading = @ \ {f}, !.ensured = @ \cup {f}]
                 ELSE [fetching EXCEPT !.downloading = @ \ {f}, !.failed = @ \cup {f}]
  /\ volume' = CASE got = "right" -> [volume EXCEPT !.files[f] = "right"]
                 [] got = "wrong" -> volume
                 [] OTHER -> [volume EXCEPT !.files[Stray] = "wrong"]
  /\ UntouchedGate

(* list(pool.map) meets a failed future once those before it are done: the  *)
(* futures not begun are cancelled, and the pool waits for the others.      *)
RaiseFirst ==
  /\ fetching.at = "pool" /\ fetching.failed # {}
  /\ fetching' = At("raising")
  /\ UNCHANGED volume /\ UntouchedGate

LeaveFetchPool ==
  /\ fetching.downloading = {}
  /\ \/ fetching.at = "raising" /\ fetching' = At("exited")
     \/ /\ fetching.at = "pool" /\ fetching.ensured = release.inventory
        /\ fetching' = At("walk")
  /\ UNCHANGED volume /\ UntouchedGate

Extras == {f \in list_model_files : f \notin release.inventory \cup {Manifest}}

unlink(f) ==
  /\ fetching.at = "walk" /\ f \in Extras
  /\ volume' = [volume EXCEPT !.files[f] = "absent"]
  /\ UNCHANGED fetching /\ UntouchedGate

(* The manifest is written last, by a rename, over what lay there.          *)
WriteMetadata ==
  /\ fetching.at = "walk" /\ Extras = {}
  /\ volume' = [volume EXCEPT !.files[Manifest] = "right"]
  /\ fetching' = At("done")
  /\ UntouchedGate

(* The kubelet restarts a container that exited with 1 or was killed. The   *)
(* partial file of a download, or of the manifest, may be left.             *)
RestartFetch(partial) ==
  /\ fetching.at \in {"read", "pool", "raising", "walk", "exited"}
  /\ fetching.restarts < MaxRestarts
  /\ partial => fetching.downloading # {} \/ fetching.at = "walk"
  /\ fetching' = [NoFetch EXCEPT !.at = "read", !.restarts = fetching.restarts + 1]
  /\ volume' = IF partial THEN [volume EXCEPT !.files[Stray] = "wrong"] ELSE volume
  /\ UntouchedGate

(* The worker's container starts once the init container returned 0.        *)
StartWorker(r, root) ==
  /\ IF r.plain THEN fetching.at = "done" /\ r = release ELSE fetching.at = "none"
  /\ GateMain(r, root)
  /\ UNCHANGED fetching

FetchStep ==
  \/ \E valid \in BOOLEAN : ReadManifest(valid)
  \/ RaiseFirst \/ LeaveFetchPool \/ WriteMetadata
  \/ \E f \in Names : unlink(f)
  \/ \E f \in ModelFile \cup {Manifest} :
       ensure(f) \/ \E got \in {"right", "wrong", "error"} : download(f, got)

(* The gate of a started worker, over what the fetch or c8s provides.       *)
GateSteps ==
  /\ GateTick \/ GateStep \/ Forward \/ ServerExits
  /\ UNCHANGED fetching

FetchNext ==
  \/ \E r \in GateRelease, disk \in Disk : StartPod(r, disk)
  \/ FetchStep \/ \E partial \in BOOLEAN : RestartFetch(partial)
  \/ \E r \in GateRelease, root \in BOOLEAN : StartWorker(r, root)
  \/ \E v \in Volume : Attach(v) /\ UNCHANGED fetching
  \/ GateSteps

FetchSpec == FetchInit /\ [][FetchNext]_fetchVars

(* A download ends: it fails when the connection is silent for 60 s. The    *)
(* kubelet starts the worker after its init container.                      *)
FetchFairness ==
  /\ WF_fetchVars(FetchStep)
  /\ WF_fetchVars(\E root \in BOOLEAN : release.plain /\ StartWorker(release, root))

-----------------------------------------------------------------------------
(* The start of a worker is right, whatever was on the disk, whichever      *)
(* downloads failed and wherever fetch_model was killed: when it returns 0, *)
(* the cache holds what the manifest lists and nothing else; and the        *)
(* verdict of wait_for_model on that cache, or on an attached volume, is    *)
(* right.                                                                   *)
StartVerdict ==
  /\ fetching.at = "done" => Complete
  /\ GateVerdict

(* A start ends: fetch_model returns 0 or exits with 1, and the gate behind *)
(* it starts the server or exits.                                           *)
StartSettles ==
  /\ fetching.at = "read" ~> fetching.at = "exited" \/ gate # "idle"
  /\ gate = "look" ~> gate \in {"rejected", "timeout", "serving", "done"}
=============================================================================
