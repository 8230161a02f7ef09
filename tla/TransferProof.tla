---------------------------- MODULE TransferProof ----------------------------
(* Two transfers that fail and are tried again.  The gateway's usage events *)
(* to the admin: no event is lost uncounted, and only refused events are    *)
(* rejected, for every capacity, batch size and set of refused events, with *)
(* both senders at work.  A model's files to a worker: the gate is right    *)
(* about them, for every set of files, release, disk and number of          *)
(* restarts.                                                                *)
EXTENDS UsageQueue, ModelFetch, FiniteSetTheorems, TLAPS

(* UsageQueue                                                               *)

(* What a batch in flight still means when its answer arrives: it was a    *)
(* prefix of the queue, the front can only have moved on, and the answer   *)
(* says whether the admin has all of it.                                   *)
Sent(s) == pc[s] \in {"sending", "answered"}
BatchPrefix ==
  \A s \in Sender : Sent(s) =>
    /\ from[s] <= first /\ from[s] <= last[s] /\ last[s] < next_sequence
    /\ Size(s) <= MaxBatch
AnswerKnown ==
  \A s \in Sender : pc[s] = "answered" =>
    /\ reply[s] = "ok" => Batch(s) \subseteq stored
    /\ reply[s] = "rejected" => Batch(s) \cap Refused # {}

Bounded == next_sequence <= MaxEvents

IInv == /\ TypeOK /\ NoSilentLoss /\ RejectedRefused
        /\ BatchPrefix /\ AnswerKnown /\ Bounded

(* The state before any event.                                             *)
LEMMA InitIInv == Init => IInv
<1> SUFFICES ASSUME Init PROVE IInv
    OBVIOUS
<1> USE UsageAssumption DEF Init, IInv
<1>1. TypeOK
  BY DEF TypeOK, Pending
<1>2. NoSilentLoss /\ RejectedRefused /\ Bounded
  BY DEF NoSilentLoss, RejectedRefused, Bounded
<1>3. BatchPrefix /\ AnswerKnown
  BY DEF BatchPrefix, AnswerKnown, Sent
<1> QED
  BY <1>1, <1>2, <1>3

(* push: an overflow moves the front by one and counts the event there.    *)
LEMMA PushIInv == ASSUME IInv, Push PROVE IInv'
<1> USE UsageAssumption DEF IInv, Push, sendVars
<1>1. TypeOK'
  <2>1. /\ first' \in Nat /\ next_sequence' \in Nat
        /\ first' <= next_sequence' /\ Pending' <= Capacity
    BY DEF TypeOK, Pending
  <2>2. dropped' \subseteq Nat
    BY Zenon DEF TypeOK
  <2> QED
    BY <2>1, <2>2 DEF TypeOK
<1>2. NoSilentLoss'
  BY DEF NoSilentLoss, TypeOK, Queue
<1>3. RejectedRefused' /\ AnswerKnown'
  BY DEF RejectedRefused, AnswerKnown, Batch
<1>4. BatchPrefix'
  BY DEF BatchPrefix, TypeOK, Sent, Size
<1>5. Bounded'
  BY DEF Bounded, TypeOK
<1> QED
  BY <1>1, <1>2, <1>3, <1>4, <1>5

(* send_pending begins, or ends with an error that can pass.               *)
LEMMA WakeIInv ==
  ASSUME IInv, NEW s \in Sender, Wake(s) \/ HandleRetry(s) PROVE IInv'
<1> USE UsageAssumption DEF IInv, Wake, HandleRetry, queueVars, lossVars
<1>1. TypeOK'
  <2>1. MaxBatch \in 1 .. MaxBatch
    OBVIOUS
  <2>2. limit' \in [Sender -> 1 .. MaxBatch]
    BY <2>1 DEF TypeOK
  <2>3. Pending' <= Capacity
    BY DEF TypeOK, Pending
  <2> QED
    BY Zenon, <2>2, <2>3 DEF TypeOK
<1>2. NoSilentLoss' /\ RejectedRefused' /\ Bounded'
  BY Zenon DEF NoSilentLoss, RejectedRefused, Bounded, Queue
<1>3. BatchPrefix'
  BY DEF BatchPrefix, TypeOK, Sent, Size
<1>4. AnswerKnown'
  BY DEF AnswerKnown, TypeOK, Batch
<1> QED
  BY <1>1, <1>2, <1>3, <1>4

(* batch: the events from the front on, as many as the limit allows.       *)
LEMMA TakeBatchIInv == ASSUME IInv, NEW s \in Sender, TakeBatch(s) PROVE IInv'
<1> USE UsageAssumption DEF IInv, TakeBatch, queueVars, lossVars
<1>1. TypeOK'
  BY DEF TypeOK, Pending, Least
<1>2. NoSilentLoss' /\ RejectedRefused' /\ Bounded'
  BY DEF NoSilentLoss, RejectedRefused, Bounded, Queue
<1>3. BatchPrefix'
  <2> SUFFICES ASSUME NEW t \in Sender, Sent(t)'
               PROVE  (/\ from[t] <= first /\ from[t] <= last[t]
                       /\ last[t] < next_sequence /\ Size(t) <= MaxBatch)'
      BY DEF BatchPrefix
  <2>1. CASE t = s
    BY <2>1 DEF TypeOK, Sent, Size, Least, Pending
  <2>2. CASE t # s
    BY <2>2 DEF TypeOK, Sent, Size, BatchPrefix
  <2> QED
    BY <2>1, <2>2
<1>4. AnswerKnown'
  BY DEF AnswerKnown, TypeOK, Batch
<1> QED
  BY <1>1, <1>2, <1>3, <1>4

(* The answer arrives, or does not; either way the admin's store grows.    *)
LEMMA AnswerIInv ==
  ASSUME IInv, NEW s \in Sender,
         SendFails(s) \/ \E k \in 1 .. MaxBatch : AdminAnswers(s, k)
  PROVE IInv'
<1> USE UsageAssumption DEF IInv, SendFails, AdminAnswers, queueVars, lossVars
<1>1. TypeOK'
  <2>1. Batch(s) \subseteq Nat
    BY DEF TypeOK, Batch
  <2> QED
    BY ZenonT(30), <2>1 DEF TypeOK, Pending
<1>2. stored \subseteq stored'
  OBVIOUS
<1>3. NoSilentLoss' /\ RejectedRefused' /\ Bounded'
  BY Zenon, <1>2 DEF NoSilentLoss, RejectedRefused, Bounded, Queue
<1>4. BatchPrefix'
  BY DEF BatchPrefix, TypeOK, Sent, Size
<1>5. AnswerKnown'
  <2> SUFFICES ASSUME NEW t \in Sender, pc'[t] = "answered"
               PROVE  (/\ reply[t] = "ok" => Batch(t) \subseteq stored
                       /\ reply[t] = "rejected" => Batch(t) \cap Refused # {})'
      BY DEF AnswerKnown
  <2>1. Batch(t)' = Batch(t)
    BY DEF Batch
  <2>2. CASE t = s
    BY <2>1, <2>2 DEF TypeOK
  <2>3. CASE t # s
    <3>1. pc[t] = "answered" /\ reply'[t] = reply[t]
      BY <2>3 DEF TypeOK
    <3> QED
      BY <3>1, <2>1, <1>2 DEF AnswerKnown
  <2> QED
    BY <2>2, <2>3
<1> QED
  BY <1>1, <1>3, <1>4, <1>5

(* What acknowledge removes was in the batch: the front is at or behind    *)
(* the first event of the batch, and nothing was pushed in between.        *)
LEMMA AcknowledgedSent ==
  ASSUME IInv, NEW s \in Sender, Sent(s), Acknowledge(s),
         next_sequence' = next_sequence
  PROVE  /\ first' \in Nat /\ first <= first' /\ first' <= next_sequence
         /\ \A n \in Queue : n \in Queue' \/ n \in Batch(s)
         /\ Pending' <= Capacity
<1>1. /\ first' \in Nat /\ first <= first' /\ first' <= next_sequence
      /\ \A n \in Queue : n \in Queue' \/ n \in Batch(s)
  BY DEF IInv, TypeOK, BatchPrefix, Acknowledge, Queue, Batch
<1>2. next_sequence - first' <= Capacity
  <2>1. /\ next_sequence \in Nat /\ first \in Nat /\ Capacity \in Nat
        /\ next_sequence - first <= Capacity
    BY UsageAssumption DEF IInv, TypeOK, Pending
  <2>2. first' \in Nat /\ first <= first'
    BY <1>1
  <2>3. \A a, b, c, n \in Nat : a <= b /\ n - a <= c => n - b <= c
    OBVIOUS
  <2> QED
    BY Zenon, <2>1, <2>2, <2>3
<1> QED
  BY <1>1, <1>2 DEF Pending

(* An acknowledged batch: all of it is stored.                             *)
LEMMA HandleOkIInv == ASSUME IInv, NEW s \in Sender, HandleOk(s) PROVE IInv'
<1> USE UsageAssumption DEF IInv, HandleOk, lossVars
<1>1. /\ first' \in Nat /\ first <= first' /\ first' <= next_sequence
      /\ \A n \in Queue : n \in Queue' \/ n \in Batch(s)
      /\ Pending' <= Capacity
  BY AcknowledgedSent DEF Sent
<1>2. TypeOK'
  <2>1. limit' \in [Sender -> 1 .. MaxBatch]
    BY DEF TypeOK
  <2> QED
    BY <1>1, <2>1 DEF TypeOK
<1>3. NoSilentLoss'
  <2>1. Batch(s) \subseteq stored
    BY DEF AnswerKnown
  <2> QED
    BY <1>1, <2>1 DEF NoSilentLoss
<1>4. RejectedRefused' /\ Bounded'
  BY DEF RejectedRefused, Bounded
<1>5. BatchPrefix'
  BY <1>1 DEF BatchPrefix, TypeOK, Sent, Size
<1>6. AnswerKnown'
  BY DEF AnswerKnown, TypeOK, Batch
<1> QED
  BY <1>2, <1>3, <1>4, <1>5, <1>6

(* A rejected batch: split, or one refused event that is counted.          *)
LEMMA HandleRejectedIInv ==
  ASSUME IInv, NEW s \in Sender, HandleRejected(s) PROVE IInv'
<1> USE UsageAssumption DEF IInv, HandleRejected
<1>1. Sent(s) /\ Size(s) \in Nat /\ Size(s) <= MaxBatch
  BY DEF Sent, BatchPrefix, Size, TypeOK
<1>2. CASE Size(s) > 1 /\ UNCHANGED <<first, rejected>>
          /\ limit' = [limit EXCEPT ![s] = Size(s) \div 2]
  <2>1. TypeOK'
    <3>1. Size(s) \div 2 \in 1 .. MaxBatch
      BY <1>1, <1>2
    <3> QED
      BY <1>2, <3>1 DEF TypeOK, Pending
  <2>2. NoSilentLoss' /\ RejectedRefused' /\ Bounded'
    BY <1>2 DEF NoSilentLoss, RejectedRefused, Bounded, Queue
  <2>3. BatchPrefix'
    BY <1>2 DEF BatchPrefix, TypeOK, Sent, Size
  <2>4. AnswerKnown'
    BY <1>2 DEF AnswerKnown, TypeOK, Batch
  <2> QED
    BY <2>1, <2>2, <2>3, <2>4
<1>3. CASE Size(s) = 1 /\ Acknowledge(s) /\ rejected' = rejected \cup Batch(s)
          /\ limit' = [limit EXCEPT ![s] = MaxBatch]
  <2>1. /\ first' \in Nat /\ first <= first' /\ first' <= next_sequence
        /\ \A n \in Queue : n \in Queue' \/ n \in Batch(s)
        /\ Pending' <= Capacity
    BY <1>1, <1>3, AcknowledgedSent
  <2>2. Batch(s) \subseteq Nat /\ Batch(s) = {last[s]}
    BY <1>3 DEF Batch, Size, TypeOK
  <2>3. TypeOK'
    <3>1. limit' \in [Sender -> 1 .. MaxBatch]
      BY <1>3 DEF TypeOK
    <3> QED
      BY Zenon, <1>3, <2>1, <2>2, <3>1 DEF TypeOK
  <2>4. NoSilentLoss'
    BY <1>3, <2>1 DEF NoSilentLoss
  <2>5. RejectedRefused'
    BY ZenonT(30), <1>3, <2>2 DEF RejectedRefused, AnswerKnown
  <2>6. BatchPrefix'
    BY <1>3, <2>1 DEF BatchPrefix, TypeOK, Sent, Size
  <2>7. AnswerKnown' /\ Bounded'
    BY <1>3 DEF AnswerKnown, TypeOK, Batch, Bounded
  <2> QED
    BY <2>3, <2>4, <2>5, <2>6, <2>7
<1> QED
  BY <1>2, <1>3

(* Starting and ending the flush leave the queue and the senders alone.    *)
LEMMA FlushIInv ==
  ASSUME IInv, BeginFlush \/ FlushEmpty \/ FlushDeadline \/ UNCHANGED vars
  PROVE IInv'
BY Zenon DEF IInv, BeginFlush, FlushEmpty, FlushDeadline, vars, queueVars, sendVars,
       lossVars, TypeOK, Pending, NoSilentLoss, RejectedRefused, BatchPrefix,
       AnswerKnown, Bounded, Queue, Batch, Sent, Size

LEMMA NextIInv == IInv /\ [Next]_vars => IInv'
<1> SUFFICES ASSUME IInv, [Next]_vars PROVE IInv'
    OBVIOUS
<1>1. CASE Push
  BY <1>1, PushIInv
<1>2. CASE BeginFlush \/ FlushEmpty \/ FlushDeadline \/ UNCHANGED vars
  BY <1>2, FlushIInv
<1>3. ASSUME NEW s \in Sender, SendStep(s)
      PROVE  IInv'
  BY <1>3, WakeIInv, TakeBatchIInv, HandleOkIInv, HandleRejectedIInv
     DEF SendStep
<1>4. ASSUME NEW s \in Sender,
             SendFails(s) \/ \E k \in 1 .. MaxBatch : AdminAnswers(s, k)
      PROVE  IInv'
  BY <1>4, AnswerIInv
<1> QED
  BY <1>1, <1>2, <1>3, <1>4 DEF Next

(* The queue, the senders and the counters keep their types: the queue     *)
(* stays within its capacity and a limit is never zero.                    *)
THEOREM UsageTyped == Spec => []TypeOK
<1>1. IInv => TypeOK
  BY DEF IInv
<1> QED
  BY <1>1, InitIInv, NextIInv, PTL DEF Spec

(* push, acknowledge and the two senders lose no event uncounted.          *)
THEOREM UsageNotLost == Spec => []NoSilentLoss
<1>1. IInv => NoSilentLoss
  BY DEF IInv
<1> QED
  BY <1>1, InitIInv, NextIInv, PTL DEF Spec

(* send_pending gives up no event that the admin would take.               *)
THEOREM UsageRejects == Spec => []RejectedRefused
<1>1. IInv => RejectedRefused
  BY DEF IInv
<1> QED
  BY <1>1, InitIInv, NextIInv, PTL DEF Spec

-----------------------------------------------------------------------------
(* ModelFetch: the fetch, the gate and the server behind them.              *)

(* The checks of verify_once before the hashing.                            *)
Passed ==
  /\ mount_record /\ verify_no_write /\ VerifyExpected /\ verify_revision
  /\ \E lucky \in BOOLEAN : verify_index(lucky)
  /\ InventoryMatches

Started == {"spawned", "serving", "done"}

(* Where fetch_model is.                                                    *)
Place == {"none", "read", "pool", "raising", "walk", "exited", "done"}

StartTyped ==
  /\ release \in GateRelease
  /\ volume \in [verity : BOOLEAN, writable : BOOLEAN, files : [Names -> FileState]]
  /\ fetching \in [at : Place, ensured : SUBSET Names, downloading : SUBSET Names,
                   failed : SUBSET Names, restarts : Nat]

(* What a fetch has done up to the place it is at.                          *)
FetchKept ==
  /\ release.plain <=> fetching.at # "none"
  /\ fetching.ensured \cup fetching.downloading \subseteq release.inventory
  /\ fetching.ensured \cap fetching.downloading = {}
  /\ fetching.at \in {"none", "read"} => fetching.ensured = {} /\ fetching.downloading = {}
  /\ \A f \in fetching.ensured : volume.files[f] = "right"
  /\ fetching.at \in {"pool", "raising", "walk"} => Manifest \notin release.inventory
  /\ fetching.at = "walk" => \A f \in release.inventory : volume.files[f] = "right"
  /\ fetching.at = "done" => Complete

(* The gate begins when the fetch is over, so nothing changes under it.     *)
HandedOver ==
  gate # "idle" =>
    /\ parse_args(release)
    /\ fetching.at = IF release.plain THEN "done" ELSE "none"

(* What a place of the gate says about the volume.                          *)
Judged ==
  /\ hashing \cup hashed \subseteq release.inventory
  /\ gate \in {"idle", "look", "late", "asleep", "refused", "timeout"} => hashing = {} /\ hashed = {}
  /\ gate \in {"hashing", "cancelled"} => Passed
  /\ gate = "hashing" => \A f \in hashed : Sha256Right(f)
  /\ gate = "cancelled" => \E f \in release.inventory : ~Sha256Right(f)
  /\ gate \in {"verified"} \cup Started => Servable
  /\ gate = "rejected" => mount_record /\ ~Servable
  /\ gate = "late" => looked = clock
  /\ gate = "timeout" => looked >= Timeout
  /\ server # "none" => gate \in Started

StartInv == StartTyped /\ FetchKept /\ HandedOver /\ Judged

-----------------------------------------------------------------------------
(* A volume that passes every check of wait_for_model and whose files all   *)
(* have their digests is servable.                                          *)
LEMMA PassedServes ==
  ASSUME StartTyped, parse_args(release), Passed,
         \A f \in release.inventory : Sha256Right(f)
  PROVE  Servable
PROOF
<1>1. volume.files \in [Names -> FileState]
  BY DEF StartTyped
<1>2. \A f \in release.inventory \cup {Manifest} : volume.files[f] = "right"
  <2>1. Sha256Right(Manifest)
    BY DEF Passed, verify_revision, VerifyExpected
  <2> QED
    BY <2>1 DEF Passed, InventoryMatches, OnlyRegular, Sha256Right, Names, StartTyped, GateRelease
<1>3. Complete
  BY <1>1, <1>2 DEF Complete, Passed, InventoryMatches, list_model_files
<1>4. release.agrees
  <2>1. PICK f \in release.pins : f # Manifest
    <3>1. Cardinality({Manifest}) = 1 /\ Cardinality({}) = 0
      BY Zenon, FS_Singleton, FS_EmptySet
    <3>2. release.pins # {} /\ release.pins # {Manifest}
      BY <3>1 DEF parse_args
    <3> QED
      BY <3>2
  <2> QED
    BY <2>1 DEF Passed, verify_revision
<1>5. release.pins \subseteq release.inventory \cup {Manifest} /\ Manifest \notin release.inventory
  BY DEF Passed, verify_revision
<1>6. CASE Index \in release.inventory
  <2>1. volume.files[Index] = "right"
    BY <1>2, <1>6
  <2>2. release.shards # {} /\ \A f \in release.shards : IsFile(f)
    BY <2>1 DEF Passed, verify_index, Sha256Right
  <2>3. release.shards \subseteq release.inventory
    BY <2>2, GateAssumption DEF IsFile, Passed, InventoryMatches,
                                list_model_files, StartTyped, GateRelease, Names
  <2> QED
    BY <1>3, <1>4, <1>5, <1>6, <2>2, <2>3 DEF Servable, Passed, verify_no_write, verify_revision
<1>7. CASE Index \notin release.inventory
  <2>1. volume.files[Index] = "absent"
    BY <1>3, <1>7, GateAssumption DEF Complete, Names
  <2>2. volume.files[Single] # "absent"
    BY <2>1 DEF Passed, verify_index
  <2>3. Single \in release.inventory
    BY <1>3, <2>2, GateAssumption DEF Complete, Names
  <2> QED
    BY <1>3, <1>4, <1>5, <1>7, <2>3 DEF Servable, Passed, verify_no_write, verify_revision
<1> QED
  BY <1>6, <1>7

(* The files of a servable volume have their digests.                       *)
LEMMA ServableHashes ==
  ASSUME StartTyped, Servable
  PROVE  \A f \in release.inventory : Sha256Right(f)
PROOF BY DEF Servable, Complete, Sha256Right, StartTyped, GateRelease, Names

(* A servable volume passes every check, whatever its index.                *)
LEMMA ServablePasses ==
  ASSUME StartTyped, Servable, NEW lucky \in BOOLEAN
  PROVE  /\ mount_record /\ verify_no_write /\ VerifyExpected /\ verify_revision
         /\ verify_index(lucky) /\ InventoryMatches
PROOF
<1>1. volume.files \in [Names -> FileState]
  BY DEF StartTyped
<1>2. \A f \in Names : volume.files[f] =
        IF f \in release.inventory \cup {Manifest} THEN "right" ELSE "absent"
  BY Zenon DEF Servable, Complete
<1>3. release.inventory \subseteq ModelFile /\ release.inventory \cup {Manifest} \subseteq Names
  BY DEF Servable, StartTyped, GateRelease, Names
<1>4. mount_record /\ verify_no_write
  BY DEF Servable, verify_no_write
<1>5. \A f \in release.inventory \cup {Manifest} : IsFile(f) /\ Sha256Right(f) /\ StatSize(f) = 1
  BY <1>2, <1>3 DEF IsFile, Sha256Right, StatSize
<1>6. VerifyExpected /\ verify_revision
  BY <1>5 DEF Servable, VerifyExpected, verify_revision
<1>7. InventoryMatches
  <2>1. OnlyRegular
    BY <1>2 DEF OnlyRegular
  <2>2. list_model_files = release.inventory \cup {Manifest}
    BY <1>2, <1>3 DEF list_model_files
  <2> QED
    BY <1>5, <2>1, <2>2 DEF InventoryMatches
<1>8. verify_index(lucky)
  <2>1. CASE Index \in release.inventory
    <3>1. volume.files[Index] = "right"
      BY <1>2, <1>3, <2>1
    <3>2. release.shards # {} /\ \A f \in release.shards : IsFile(f) /\ StatSize(f) # 0
      BY <1>5, <2>1 DEF Servable
    <3> QED
      BY <3>1, <3>2 DEF verify_index, Sha256Right
  <2>2. CASE Index \notin release.inventory
    <3>1. volume.files[Index] = "absent" /\ volume.files[Single] = "right"
      BY <1>2, <2>2, GateAssumption DEF Servable, Names
    <3> QED
      BY <3>1 DEF verify_index
  <2> QED
    BY <2>1, <2>2
<1> QED
  BY <1>4, <1>6, <1>7, <1>8

-----------------------------------------------------------------------------
(* What is said of a volume depends on the release and the volume only.     *)
LEMMA Frozen ==
  ASSUME release' = release, volume' = volume
  PROVE  /\ Complete' <=> Complete
         /\ Servable' <=> Servable
         /\ Passed' <=> Passed
         /\ mount_record' <=> mount_record
         /\ parse_args(release)' <=> parse_args(release)
         /\ \A f \in Names : Sha256Right(f)' <=> Sha256Right(f)
PROOF
<1>1. /\ Complete' <=> Complete
      /\ mount_record' <=> mount_record
      /\ parse_args(release)' <=> parse_args(release)
      /\ \A f \in Names : Sha256Right(f)' <=> Sha256Right(f)
  BY DEF Complete, mount_record, parse_args, Sha256Right
<1>2. Servable' <=> Servable
  BY <1>1 DEF Servable
<1>3. Passed' <=> Passed
  <2>1. VerifyExpected' <=> VerifyExpected
    BY DEF VerifyExpected, IsFile, Sha256Right
  <2>2. verify_revision' <=> verify_revision
    BY DEF verify_revision, StatSize
  <2>3. ASSUME NEW lucky \in BOOLEAN PROVE verify_index(lucky)' <=> verify_index(lucky)
    BY DEF verify_index, IsFile, StatSize, Sha256Right
  <2>4. InventoryMatches' <=> InventoryMatches
    BY DEF InventoryMatches, OnlyRegular, list_model_files, StatSize
  <2> QED
    BY <1>1, <2>1, <2>2, <2>3, <2>4 DEF Passed, verify_no_write
<1> QED
  BY <1>1, <1>2, <1>3

(* wait_for_model starts with nothing judged.                               *)
LEMMA InitStart == FetchInit => StartInv
PROOF
<1> SUFFICES ASSUME FetchInit PROVE StartInv
  OBVIOUS
<1> USE DEF FetchInit, GateInit, NoFetch
<1>1. StartTyped
  <2>1. release \in GateRelease
    BY Zenon DEF GateRelease
  <2>2. volume \in [verity : BOOLEAN, writable : BOOLEAN, files : [Names -> FileState]]
    BY DEF EmptyDir, FileState
  <2>3. fetching \in [at : Place, ensured : SUBSET Names, downloading : SUBSET Names,
                     failed : SUBSET Names, restarts : Nat]
    BY Zenon DEF Place
  <2> QED
    BY Zenon, <2>1, <2>2, <2>3 DEF StartTyped
<1>2. FetchKept /\ HandedOver
  BY Zenon DEF FetchKept, HandedOver
<1>3. Judged
  BY Zenon DEF Judged, Started
<1> QED
  BY <1>1, <1>2, <1>3 DEF StartInv

(* The loop of wait_for_model looks at the mount and judges it.             *)
LEMMA LookStart ==
  ASSUME StartInv, NEW lucky \in BOOLEAN, VerifyOnce(lucky), UNCHANGED fetching
  PROVE  StartInv'
PROOF
<1> USE DEF VerifyOnce
<1>1. release' = release /\ volume' = volume /\ fetching' = fetching
  BY SMTT(30)
<1>2. StartTyped' /\ FetchKept' /\ HandedOver'
  BY Zenon, <1>1, Frozen DEF StartInv, StartTyped, FetchKept, HandedOver
<1>3. gate' = "hashing" => Passed
  BY DEF Passed
<1>4. gate' = "rejected" => mount_record /\ ~Servable
  BY ServablePasses DEF StartInv
<1>5. gate' \in {"late", "hashing", "rejected"} /\ hashed = {}
  BY DEF StartInv, Judged
<1>6. Judged'
  BY Zenon, <1>1, <1>3, <1>4, <1>5, Frozen DEF StartInv, Judged, Started
<1> QED
  BY <1>2, <1>6 DEF StartInv

(* The pool of wait_for_model hashes the files in any order.                *)
LEMMA HashStart ==
  ASSUME StartInv, UNCHANGED fetching,
         LeavePool \/ \E f \in ModelFile \cup {Manifest} : BeginHash(f) \/ EndHash(f)
  PROVE  StartInv'
PROOF
<1>1. release' = release /\ volume' = volume /\ fetching' = fetching
  BY Zenon DEF LeavePool, BeginHash, EndHash
<1>2. StartTyped' /\ FetchKept' /\ gate # "idle"
  BY ZenonT(30), <1>1, Frozen DEF StartInv, StartTyped, FetchKept, LeavePool, BeginHash, EndHash
<1>3. HandedOver'
  BY <1>1, <1>2, Frozen DEF StartInv, HandedOver
<1>4. release.inventory \subseteq Names
  BY DEF StartInv, StartTyped, GateRelease, Names
<1>5. Judged'
  <2>1. CASE LeavePool
    <3>1. CASE gate = "cancelled" /\ gate' = "rejected"
      <4>1. mount_record /\ ~Servable
        BY Zenon, <3>1, ServableHashes DEF StartInv, Judged, Passed
      <4> QED
        BY Zenon, <1>1, <2>1, <3>1, <4>1, Frozen DEF LeavePool, StartInv, Judged, Started
    <3>2. CASE gate = "hashing" /\ hashed = release.inventory /\ gate' = "verified"
      <4>1. Servable
        BY Zenon, <3>2, PassedServes DEF StartInv, Judged, HandedOver
      <4> QED
        BY Zenon, <1>1, <2>1, <3>2, <4>1, Frozen DEF LeavePool, StartInv, Judged, Started
    <3> QED
      BY <2>1, <3>1, <3>2 DEF LeavePool
  <2>2. ASSUME NEW f \in ModelFile \cup {Manifest}, BeginHash(f) PROVE Judged'
    BY Zenon, <1>1, <1>4, <2>2, Frozen DEF BeginHash, StartInv, Judged, Started
  <2>3. ASSUME NEW f \in ModelFile \cup {Manifest}, EndHash(f) PROVE Judged'
    BY Zenon, <1>1, <1>4, <2>3, Frozen DEF EndHash, StartInv, Judged, Started
  <2> QED
    BY <2>1, <2>2, <2>3
<1> QED
  BY SMTT(30), <1>2, <1>3, <1>5 DEF StartInv

(* The deadline, the sleep, the start of the server and its end.            *)
LEMMA LoopStart ==
  ASSUME StartInv, UNCHANGED fetching,
         \/ GateTick \/ CheckDeadline \/ WakeUp \/ StartServer \/ InstallHandlers
         \/ GateReturns \/ Forward \/ ServerExits
  PROVE  StartInv'
PROOF
<1> USE DEF GateTick, CheckDeadline, WakeUp, StartServer, InstallHandlers,
            GateReturns, Forward, ServerExits
<1>1. /\ release' = release /\ volume' = volume /\ fetching' = fetching
      /\ hashing' = hashing /\ hashed' = hashed
  BY Zenon
<1>2. StartTyped' /\ FetchKept'
  BY Zenon, <1>1, Frozen DEF StartInv, StartTyped, FetchKept
<1>3. gate = "idle" => gate' = "idle"
  BY Zenon DEF StartInv, Judged, Started
<1>4. gate' = "idle" => gate = "idle"
  BY Zenon
<1>5. HandedOver'
  BY Zenon, <1>1, <1>3, <1>4, Frozen DEF StartInv, HandedOver
<1>6. release.inventory \subseteq Names
  BY Zenon DEF StartInv, StartTyped, GateRelease, Names
<1>7. Judged'
  BY Zenon, <1>1, <1>6, Frozen DEF StartInv, Judged, Started
<1> QED
  BY Zenon, <1>2, <1>5, <1>7 DEF StartInv

(* c8s attaches a volume, before anything is judged.                        *)
LEMMA AttachStart ==
  ASSUME StartInv, NEW v \in Volume, Attach(v), UNCHANGED fetching
  PROVE  StartInv'
PROOF
<1> USE DEF Attach
<1>1. ~mount_record /\ ~release.plain
  BY DEF mount_record
<1>2. StartTyped' /\ HandedOver'
  BY Zenon DEF StartInv, StartTyped, HandedOver, parse_args, Volume
<1>3. FetchKept'
  BY Zenon, <1>1 DEF StartInv, FetchKept
<1>4. gate \notin {"hashing", "cancelled", "verified", "rejected"} \cup Started
  BY Zenon, <1>1 DEF StartInv, Judged, Passed, Servable
<1>5. Judged'
  BY Zenon, <1>4 DEF StartInv, Judged, Started
<1> QED
  BY <1>2, <1>3, <1>5 DEF StartInv

-----------------------------------------------------------------------------
(* A pod with a plain cache starts: its disk holds anything.                *)
LEMMA PodStart ==
  ASSUME StartInv, NEW r \in GateRelease, NEW disk \in Disk, StartPod(r, disk)
  PROVE  StartInv'
PROOF
<1> USE DEF StartPod
<1>1. fetching.ensured = {} /\ fetching.downloading = {} /\ hashing = {} /\ hashed = {}
  BY DEF StartInv, FetchKept, Judged
<1>2. StartTyped'
  BY ZenonT(30) DEF StartInv, StartTyped, Place, Disk
<1>3. FetchKept' /\ HandedOver'
  BY <1>1 DEF StartInv, StartTyped, FetchKept, HandedOver
<1>4. Judged'
  BY <1>1 DEF StartInv, Judged, Started
<1> QED
  BY <1>2, <1>3, <1>4 DEF StartInv

(* The worker's container starts behind the fetch, over what it left.       *)
LEMMA WorkerStart ==
  ASSUME StartInv, NEW r \in GateRelease, NEW root \in BOOLEAN, StartWorker(r, root)
  PROVE  StartInv'
PROOF
<1> USE DEF StartWorker, GateMain
<1>1. hashing = {} /\ hashed = {} /\ server = "none"
  BY Zenon DEF StartInv, Judged, Started
<1>2. StartTyped' /\ HandedOver'
  BY Zenon DEF StartInv, StartTyped, HandedOver, parse_args
<1>3. FetchKept'
  <2>1. CASE r.plain
    BY Zenon, <2>1, Frozen DEF StartInv, FetchKept
  <2>2. CASE ~r.plain
    BY Zenon, <2>2 DEF StartInv, FetchKept
  <2> QED
    BY <2>1, <2>2
<1>4. Judged'
  BY Zenon, <1>1 DEF StartInv, Judged, Started
<1> QED
  BY <1>2, <1>3, <1>4 DEF StartInv

(* While the fetch runs the gate has not begun, so nothing is judged.       *)
LEMMA FetchingIdle ==
  ASSUME StartInv, UntouchedGate, StartTyped', FetchKept',
         fetching.at \notin {"none", "done"}
  PROVE  StartInv'
PROOF
<1>1. gate = "idle" /\ gate' = "idle"
  BY DEF StartInv, HandedOver, UntouchedGate
<1>2. HandedOver'
  BY <1>1 DEF HandedOver
<1>3. Judged'
  BY Zenon, <1>1 DEF StartInv, Judged, Started, UntouchedGate
<1> QED
  BY <1>2, <1>3 DEF StartInv

(* The places of fetch_model that change no file.                           *)
LEMMA PlacesStart ==
  ASSUME StartInv, RaiseFirst \/ LeaveFetchPool \/ \E valid \in BOOLEAN : ReadManifest(valid)
  PROVE  StartInv'
PROOF
<1> USE DEF RaiseFirst, LeaveFetchPool, ReadManifest, At, UntouchedGate
<1>1. StartTyped'
  BY DEF StartInv, StartTyped, Place
<1>2. FetchKept'
  BY DEF StartInv, StartTyped, FetchKept
<1>3. fetching.at \notin {"none", "done"}
  OBVIOUS
<1> QED
  BY <1>1, <1>2, <1>3, FetchingIdle

(* A future that begins touches no file that is done.                       *)
LEMMA EnsureStart ==
  ASSUME StartInv, NEW f \in ModelFile \cup {Manifest}, ensure(f)
  PROVE  StartInv'
PROOF
<1> USE DEF ensure, Unfinished, UntouchedGate
<1>1. f \in Names
  BY DEF Names
<1>2. CASE volume.files[f] = "right"
  <2>1. StartTyped'
    BY <1>1, <1>2 DEF StartInv, StartTyped
  <2>2. FetchKept'
    BY <1>2 DEF StartInv, StartTyped, FetchKept
  <2> QED
    BY <2>1, <2>2, FetchingIdle
<1>3. CASE volume.files[f] # "right"
  <2>1. StartTyped'
    BY <1>1, <1>3 DEF StartInv, StartTyped, FileState
  <2>2. FetchKept'
    BY <1>1, <1>3 DEF StartInv, StartTyped, FetchKept
  <2> QED
    BY <2>1, <2>2, FetchingIdle
<1> QED
  BY <1>2, <1>3

(* A download that ends leaves the other files of the manifest alone.       *)
LEMMA DownloadStart ==
  ASSUME StartInv, NEW f \in ModelFile \cup {Manifest},
         NEW got \in {"right", "wrong", "error"}, download(f, got)
  PROVE  StartInv'
PROOF
<1> USE DEF download, UntouchedGate
<1>1. f \in Names /\ Stray \in Names /\ Stray \notin release.inventory
  BY GateAssumption DEF Names, StartInv, StartTyped, GateRelease
<1>2. StartTyped'
  <2>1. CASE got = "right"
    BY Zenon, <1>1, <2>1 DEF StartInv, StartTyped, FileState
  <2>2. CASE got = "wrong"
    BY Zenon, <1>1, <2>2 DEF StartInv, StartTyped
  <2>3. CASE got = "error"
    BY Zenon, <1>1, <2>3 DEF StartInv, StartTyped, FileState
  <2> QED
    BY <2>1, <2>2, <2>3
<1>3. FetchKept'
  <2>1. CASE got = "right"
    BY <1>1, <2>1 DEF StartInv, StartTyped, FetchKept
  <2>2. CASE got = "wrong"
    BY <1>1, <2>2 DEF StartInv, StartTyped, FetchKept
  <2>3. CASE got = "error"
    BY <1>1, <2>3 DEF StartInv, StartTyped, FetchKept
  <2> QED
    BY <2>1, <2>2, <2>3
<1> QED
  BY <1>2, <1>3, FetchingIdle

(* The walk takes away what the manifest does not list.                     *)
LEMMA UnlinkStart ==
  ASSUME StartInv, NEW f \in Names, unlink(f)
  PROVE  StartInv'
PROOF
<1> USE DEF unlink, UntouchedGate
<1>1. f \notin release.inventory
  BY DEF Extras
<1>2. StartTyped'
  BY DEF StartInv, StartTyped, FileState
<1>3. FetchKept'
  BY <1>1 DEF StartInv, StartTyped, FetchKept
<1> QED
  BY <1>2, <1>3, FetchingIdle

(* The manifest is written over a cache that is right but for it.           *)
LEMMA WriteStart ==
  ASSUME StartInv, WriteMetadata
  PROVE  StartInv'
PROOF
<1> USE DEF WriteMetadata, At, UntouchedGate
<1>1. Manifest \in Names
  BY DEF Names
<1>2. StartTyped'
  BY <1>1 DEF StartInv, StartTyped, FileState, Place
<1>3. Complete'
  <2> SUFFICES ASSUME NEW f \in Names
               PROVE  volume'.files[f] =
                        IF f \in release'.inventory \cup {Manifest} THEN "right" ELSE "absent"
    BY DEF Complete
  <2>1. CASE f = Manifest
    BY <1>1, <2>1 DEF StartInv, StartTyped
  <2>2. CASE f # Manifest /\ f \in release.inventory
    BY <2>2 DEF StartInv, StartTyped, FetchKept
  <2>3. CASE f # Manifest /\ f \notin release.inventory
    BY <2>3 DEF StartInv, StartTyped, Extras, list_model_files
  <2> QED
    BY <2>1, <2>2, <2>3
<1>4. FetchKept'
  BY <1>1, <1>3 DEF StartInv, StartTyped, FetchKept
<1> QED
  BY <1>2, <1>4, FetchingIdle

(* A killed fetch starts again with no future, over what it left.           *)
LEMMA RestartStart ==
  ASSUME StartInv, NEW partial \in BOOLEAN, RestartFetch(partial)
  PROVE  StartInv'
PROOF
<1> USE DEF RestartFetch, NoFetch, UntouchedGate
<1>1. Stray \in Names
  BY DEF Names
<1>2. StartTyped'
  <2>1. volume' \in [verity : BOOLEAN, writable : BOOLEAN, files : [Names -> FileState]]
    BY <1>1 DEF StartInv, StartTyped, FileState
  <2>2. fetching.restarts + 1 \in Nat
    BY DEF StartInv, StartTyped
  <2>3. fetching' = [at |-> "read", ensured |-> {}, downloading |-> {}, failed |-> {},
                     restarts |-> fetching.restarts + 1]
    BY Zenon
  <2>4. fetching' \in [at : Place, ensured : SUBSET Names, downloading : SUBSET Names,
                      failed : SUBSET Names, restarts : Nat]
    BY Zenon, <2>2, <2>3 DEF Place
  <2> QED
    BY <2>1, <2>4 DEF StartInv, StartTyped
<1>3. FetchKept'
  BY DEF StartInv, FetchKept
<1> QED
  BY <1>2, <1>3, FetchingIdle

-----------------------------------------------------------------------------
LEMMA NextStart == StartInv /\ [FetchNext]_fetchVars => StartInv'
PROOF
<1> SUFFICES ASSUME StartInv, [FetchNext]_fetchVars PROVE StartInv'
  OBVIOUS
<1>1. ASSUME NEW r \in GateRelease, NEW disk \in Disk, StartPod(r, disk) PROVE StartInv'
  BY <1>1, PodStart
<1>2. CASE FetchStep
  <2>1. CASE RaiseFirst \/ LeaveFetchPool \/ \E valid \in BOOLEAN : ReadManifest(valid)
    BY <2>1, PlacesStart
  <2>2. CASE WriteMetadata
    BY <2>2, WriteStart
  <2>3. ASSUME NEW f \in Names, unlink(f) PROVE StartInv'
    BY <2>3, UnlinkStart
  <2>4. ASSUME NEW f \in ModelFile \cup {Manifest}, ensure(f) PROVE StartInv'
    BY <2>4, EnsureStart
  <2>5. ASSUME NEW f \in ModelFile \cup {Manifest}, NEW got \in {"right", "wrong", "error"},
               download(f, got)
        PROVE  StartInv'
    BY <2>5, DownloadStart
  <2> QED
    BY <1>2, <2>1, <2>2, <2>3, <2>4, <2>5 DEF FetchStep
<1>3. ASSUME NEW partial \in BOOLEAN, RestartFetch(partial) PROVE StartInv'
  BY <1>3, RestartStart
<1>4. ASSUME NEW r \in GateRelease, NEW root \in BOOLEAN, StartWorker(r, root) PROVE StartInv'
  BY <1>4, WorkerStart
<1>5. ASSUME NEW v \in Volume, Attach(v), UNCHANGED fetching PROVE StartInv'
  BY <1>5, AttachStart
<1>6. CASE GateSteps
  <2>1. ASSUME NEW lucky \in BOOLEAN, VerifyOnce(lucky) PROVE StartInv'
    BY <1>6, <2>1, LookStart DEF GateSteps
  <2>2. CASE LeavePool \/ \E f \in ModelFile \cup {Manifest} : BeginHash(f) \/ EndHash(f)
    BY <1>6, <2>2, HashStart DEF GateSteps
  <2>3. CASE \/ GateTick \/ CheckDeadline \/ WakeUp \/ StartServer \/ InstallHandlers
             \/ GateReturns \/ Forward \/ ServerExits
    BY <1>6, <2>3, LoopStart DEF GateSteps
  <2> QED
    BY <1>6, <2>1, <2>2, <2>3 DEF GateSteps, GateStep
<1>7. CASE UNCHANGED fetchVars
  <2> USE DEF fetchVars, gateVars
  <2>1. StartTyped' /\ FetchKept' /\ HandedOver'
    BY Zenon, <1>7, Frozen DEF StartInv, StartTyped, FetchKept, HandedOver
  <2>2. release.inventory \subseteq Names
    BY SMTT(30) DEF StartInv, StartTyped, GateRelease, Names
  <2>3. Judged'
    BY Zenon, <1>7, <2>2, Frozen DEF StartInv, Judged, Started
  <2> QED
    BY SMTT(30), <2>1, <2>3 DEF StartInv
<1> QED
  BY <1>1, <1>2, <1>3, <1>4, <1>5, <1>6, <1>7 DEF FetchNext

(* When fetch_model returns 0 the cache is complete, and the verdict of     *)
(* wait_for_model on it or on an attached volume is right: for every        *)
(* release, disk and volume, every order of downloads and hashes, and       *)
(* however often the fetch is killed.                                       *)
THEOREM StartAlwaysRight == FetchSpec => []StartVerdict
PROOF
<1>1. StartInv => StartVerdict
  BY Zenon DEF StartInv, FetchKept, Judged, Started, StartVerdict, GateVerdict
<1> QED
  BY <1>1, InitStart, NextStart, PTL DEF FetchSpec
==============================================================================
