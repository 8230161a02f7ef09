------------------------------ MODULE ModelGate ------------------------------
(* wait_for_model.py: the process that waits for the model volume, checks   *)
(* every byte of it and only then starts the server. The dm-verity volume   *)
(* is attached by c8s at a time of its own and does not change from then    *)
(* on; a plain cache (--plain-cache) is filled by ModelFetch before. Reads  *)
(* do not fail.                                                             *)
EXTENDS Integers, FiniteSets

CONSTANTS
  ModelFile,        \* the files a model may have, Index and Single among them
  Index,            \* model.safetensors.index.json
  Single,           \* model.safetensors, the weights of an unsharded model
  Manifest,         \* --revision-metadata, the byte manifest
  Stray,            \* a name no manifest lists
  Timeout,          \* --timeout-seconds, in ticks
  Poll,             \* --poll-seconds
  HASH_WORKERS

ASSUME GateAssumption ==
  /\ {Index, Single} \subseteq ModelFile /\ Index # Single
  /\ Manifest \notin ModelFile /\ Stray \notin ModelFile \cup {Manifest}
  /\ Timeout \in Nat \ {0} /\ Poll \in 1 .. Timeout /\ HASH_WORKERS \in Nat \ {0}

VARIABLES
  gate,             \* where main() is
  clock,            \* time.monotonic(), from the start of main
  wake,             \* when the sleep of the loop ends
  looked,           \* when mount_record last read the mount table
  release,          \* the argv: what it pins, and the manifest it pins
  volume,           \* what is mounted at the path
  hashing,          \* futures of the pool that have begun
  hashed,           \* futures whose result was read
  server            \* "none" before Popen, "running", "draining", "exited"

gateVars == <<gate, clock, wake, looked, release, volume, hashing, hashed, server>>

Names == ModelFile \cup {Manifest, Stray}
EmptyDir == [verity |-> FALSE, writable |-> TRUE, files |-> [f \in Names |-> "absent"]]
LastTick == Timeout + Poll          \* bound: the clock stops here

(* A file holds the pinned bytes, other bytes of the same or another size,  *)
(* none at all; or it is a link to a file; or it is not there.              *)
FileState == {"right", "wrong", "resized", "empty", "link", "absent"}
Volume == [verity : {TRUE}, writable : BOOLEAN, files : [Names -> FileState]]

(* pins: --expected-file; inventory: the names the pinned manifest lists;   *)
(* sound: its schema, repository and revision; agrees: its digests and      *)
(* sizes are those of the argv. shards: what the pinned index maps to.      *)
(* plain: --plain-cache.                                                    *)
GateRelease == [pins : SUBSET (ModelFile \cup {Manifest}), inventory : SUBSET (ModelFile \cup {Manifest}),
            sound : BOOLEAN, agrees : BOOLEAN, shards : SUBSET ModelFile, plain : BOOLEAN]

GateInit ==
  /\ gate = "idle" /\ clock = 0 /\ wake = 0 /\ looked = 0
  /\ release = [pins |-> {}, inventory |-> {}, sound |-> TRUE, agrees |-> TRUE, shards |-> {},
                plain |-> FALSE]
  /\ volume = EmptyDir /\ hashing = {} /\ hashed = {} /\ server = "none"

(* The process starts with the argv of its release, which pins three files  *)
(* or more; as root it exits.                                               *)
parse_args(r) == Cardinality(r.pins) >= 3

GateMain(r, root) ==
  /\ gate = "idle" /\ parse_args(r)
  /\ gate' = IF root THEN "refused" ELSE "look"
  /\ release' = r
  /\ UNCHANGED <<clock, wake, looked, volume, hashing, hashed, server>>

(* c8s overlays its mapper over the emptyDir.                               *)
Attach(v) ==
  /\ gate # "idle" /\ ~release.plain /\ ~volume.verity
  /\ volume' = v
  /\ UNCHANGED <<gate, clock, wake, looked, release, hashing, hashed, server>>

(* A tick is longer than the step from the look to the reading of the clock *)
(* that follows it; sleeping, and looking, may take any time.               *)
GateTick ==
  /\ gate \in {"look", "asleep"} /\ clock < LastTick
  /\ clock' = clock + 1
  /\ UNCHANGED <<gate, wake, looked, release, volume, hashing, hashed, server>>

-----------------------------------------------------------------------------
(* The checks of verify_once, in its order. A path.is_file() follows links. *)
mount_record == release.plain \/ volume.verity
IsFile(f) == volume.files[f] # "absent"
StatSize(f) == CASE volume.files[f] \in {"right", "wrong", "link"} -> 1
             [] volume.files[f] = "resized" -> 2
             [] OTHER -> 0
Sha256Right(f) == volume.files[f] \in {"right", "link"}

verify_no_write == ~volume.writable
VerifyExpected == \A f \in release.pins : IsFile(f) /\ Sha256Right(f)

verify_revision ==
  /\ Manifest \in release.pins
  /\ release.sound
  /\ \A f \in release.pins \ {Manifest} : f \in release.inventory /\ release.agrees /\ StatSize(f) = 1
  /\ Manifest \notin release.inventory

(* lexists sees a link too. An index without the pinned bytes may or may    *)
(* not parse, and may name any shards: lucky says whether it passes.        *)
verify_index(lucky) ==
  IF volume.files[Index] = "absent"
  THEN volume.files[Single] \notin {"link", "absent", "empty"}
  ELSE IF Sha256Right(Index)
       THEN /\ release.shards # {}
            /\ \A f \in release.shards : IsFile(f) /\ StatSize(f) # 0
       ELSE lucky /\ volume.files[Index] # "empty"

list_model_files == {f \in Names : volume.files[f] # "absent"}
OnlyRegular == \A f \in Names : volume.files[f] # "link"

(* Mutant: a file that the manifest does not list passes.                   *)
InventoryMatchesExtra ==
  /\ OnlyRegular
  /\ release.inventory \cup {Manifest} \subseteq list_model_files
  /\ \A f \in release.inventory : StatSize(f) = 1

(* What verify_every_file decides before it hashes anything.                *)
InventoryMatches ==
  /\ OnlyRegular
  /\ release.inventory \cup {Manifest} \subseteq list_model_files
  /\ list_model_files \subseteq release.inventory \cup {Manifest}
  /\ \A f \in release.inventory : StatSize(f) = 1

(* One pass of the loop up to the hashing of the files.                     *)
VerifyOnce(lucky) ==
  /\ gate = "look"
  /\ looked' = clock
  /\ gate' = IF ~mount_record THEN "late"
             ELSE IF /\ verify_no_write /\ VerifyExpected /\ verify_revision
                     /\ verify_index(lucky) /\ InventoryMatches
                  THEN "hashing" ELSE "rejected"
  /\ UNCHANGED <<clock, wake, release, volume, hashing, hashed, server>>

(* Hashes end in any order. The first wrong one cancels those not begun;    *)
(* leaving the pool waits for those that have.                              *)
BeginHash(f) ==
  /\ gate = "hashing" /\ f \in release.inventory \ (hashing \cup hashed)
  /\ Cardinality(hashing) < HASH_WORKERS
  /\ hashing' = hashing \cup {f}
  /\ UNCHANGED <<gate, clock, wake, looked, release, volume, hashed, server>>

EndHash(f) ==
  /\ gate \in {"hashing", "cancelled"} /\ f \in hashing
  /\ hashing' = hashing \ {f}
  /\ hashed' = hashed \cup {f}
  /\ gate' = IF Sha256Right(f) THEN gate ELSE "cancelled"
  /\ UNCHANGED <<clock, wake, looked, release, volume, server>>

LeavePool ==
  /\ hashing = {}
  /\ \/ gate = "cancelled" /\ gate' = "rejected"
     \/ gate = "hashing" /\ hashed = release.inventory /\ gate' = "verified"
  /\ UNCHANGED <<clock, wake, looked, release, volume, hashing, hashed, server>>

-----------------------------------------------------------------------------
(* Mutant: the loop never gives up.                                         *)
CheckDeadlineNever ==
  /\ gate = "late"
  /\ gate' = "asleep" /\ wake' = IF clock + Poll < Timeout THEN clock + Poll ELSE Timeout
  /\ UNCHANGED <<clock, looked, release, volume, hashing, hashed, server>>

(* The tail of the loop: the deadline is read after the attempt, and the    *)
(* sleep does not go past it.                                               *)
CheckDeadline ==
  /\ gate = "late"
  /\ IF clock >= Timeout
     THEN gate' = "timeout" /\ wake' = wake
     ELSE gate' = "asleep" /\ wake' = IF clock + Poll < Timeout THEN clock + Poll ELSE Timeout
  /\ UNCHANGED <<clock, looked, release, volume, hashing, hashed, server>>

WakeUp ==
  /\ gate = "asleep" /\ clock >= wake
  /\ gate' = "look"
  /\ UNCHANGED <<clock, wake, looked, release, volume, hashing, hashed, server>>

(* The server is started whether or not the GPU metrics exporter started.   *)
StartServer ==
  /\ gate = "verified"
  /\ gate' = "spawned" /\ server' = "running"
  /\ UNCHANGED <<clock, wake, looked, release, volume, hashing, hashed>>

(* supervise: the handlers are installed once the server runs. An earlier   *)
(* signal has no handler, and the kernel drops it for the first process of  *)
(* a container.                                                             *)
InstallHandlers ==
  /\ gate = "spawned"
  /\ gate' = "serving"
  /\ UNCHANGED <<clock, wake, looked, release, volume, hashing, hashed, server>>

Forward ==
  /\ gate = "serving" /\ server = "running"
  /\ server' = "draining"
  /\ UNCHANGED <<gate, clock, wake, looked, release, volume, hashing, hashed>>

ServerExits ==
  /\ server \in {"running", "draining"}
  /\ server' = "exited"
  /\ UNCHANGED <<gate, clock, wake, looked, release, volume, hashing, hashed>>

(* supervise returns the server's exit code.                                *)
GateReturns ==
  /\ gate = "serving" /\ server = "exited"
  /\ gate' = "done"
  /\ UNCHANGED <<clock, wake, looked, release, volume, hashing, hashed, server>>

GateStep ==
  \/ \E lucky \in BOOLEAN : VerifyOnce(lucky)
  \/ LeavePool \/ CheckDeadline \/ WakeUp \/ StartServer \/ InstallHandlers \/ GateReturns
  \/ \E f \in ModelFile \cup {Manifest} : BeginHash(f) \/ EndHash(f)

GateFairness == WF_gateVars(GateStep) /\ WF_gateVars(GateTick)

-----------------------------------------------------------------------------
Complete ==
  \A f \in Names :
    volume.files[f] = IF f \in release.inventory \cup {Manifest} THEN "right" ELSE "absent"

(* What a volume must be for the server to read it: it takes no write, the  *)
(* release pins its manifest, the manifest is of this release, and the      *)
(* files are those of the manifest, each a regular file with its bytes,     *)
(* with every shard of the index or the single file among them.             *)
Servable ==
  /\ mount_record /\ ~volume.writable
  /\ Manifest \in release.pins /\ release.sound /\ release.agrees
  /\ release.pins \subseteq release.inventory \cup {Manifest} /\ Manifest \notin release.inventory
  /\ Complete
  /\ IF Index \in release.inventory
     THEN release.shards # {} /\ release.shards \subseteq release.inventory
     ELSE Single \in release.inventory

(* The verdict of wait_for_model is right whatever is attached and when:    *)
(* the server starts on a servable volume only, only a volume that is not   *)
(* servable is rejected, and the loop gives up only after a look that was   *)
(* not before the deadline.                                                 *)
GateVerdict ==
  /\ server # "none" => Servable
  /\ gate = "rejected" => mount_record /\ ~Servable
  /\ gate = "timeout" => looked >= Timeout
==============================================================================
