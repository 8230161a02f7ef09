------------------------ MODULE RouterAdmissionProof ------------------------
(* The router's permits are accounted for, and its concurrency limit        *)
(* implements AdmissionCeiling, for any number of requests, any queue and   *)
(* any sequence of ceilings; and what the router's launcher says about the  *)
(* delivery of its records is true, for any queue and batch.                *)
EXTENDS RouterAdmission, RouterLauncher, FiniteSetTheorems, TLAPS

(* A bucket that n permits are out of.                                      *)
Solvent(b, n) ==
  /\ b \in Bucket
  /\ InFlight(b) = Permit * n
  /\ b.tokens <= b.capacity
  /\ b.debt > 0 => b.tokens = 0

(* Where the parts of a request can be: a channel is passed around or holds *)
(* a value only for a queued request, and a request is queued at most once. *)
Cells ==
  /\ \A r \in Request :
       /\ hand[r] # "none" => pc[r] \in {"queued", "left"} /\ reply[r] = "none"
       /\ reply[r] # "none" => pc[r] = "queued"
  /\ \A i \in 1 .. Len(queue) : hand[queue[i]] = "queue"
  /\ \A i, j \in 1 .. Len(queue) : queue[i] = queue[j] => i = j

(* TypeOK but for the bucket.                                               *)
Rest ==
  /\ pc \in [Request -> Phase]
  /\ queue \in Seq(Request)
  /\ Len(queue) <= QueueSize
  /\ hand \in [Request -> Hand]
  /\ woken \in [Request -> BOOLEAN]
  /\ reply \in [Request -> Reply]
  /\ retuned \in BOOLEAN
  /\ stranded \in Nat

(* The permits that are out, stranded ones included.                        *)
Out == Cardinality(Holding) + stranded

IInv == TypeOK /\ Cells /\ PermitsAccounted

(* What a step does to the bucket goes with what it does to the holders.    *)
BucketStep ==
  \/ HasPermit(bucket) /\ bucket' = Acquired(bucket) /\ Out' = Out + 1
  \/ Out > 0 /\ bucket' = Returned(bucket) /\ Out' = Out - 1
  \/ (\E c \in Nat : bucket' = Retuned(bucket, c)) /\ Out' = Out
  \/ bucket' = bucket /\ Out' = Out

-----------------------------------------------------------------------------
(* The three sections under the bucket's mutex.                             *)

(* try_acquire takes a permit only below the ceiling.                       *)
LEMMA AcquiredSolvent ==
  ASSUME NEW b, NEW n \in Nat, Solvent(b, n), HasPermit(b)
  PROVE  /\ Solvent(Acquired(b), n + 1)
         /\ Permit * (n + 1) <= b.capacity
         /\ Acquired(b).capacity = b.capacity
  BY DEF Solvent, HasPermit, Acquired, InFlight, Permit, Bucket

(* return_tokens_sync gives exactly one permit back, to the debt first, and *)
(* never meets its own clamp.                                               *)
LEMMA ReturnedSolvent ==
  ASSUME NEW b, NEW n \in Nat, n > 0, Solvent(b, n)
  PROVE  /\ Solvent(Returned(b), n - 1)
         /\ Returned(b).capacity = b.capacity
<1> DEFINE t == b.tokens
           d == b.debt
           paid == Lesser(d, Permit)
           u == Lesser(t + (Permit - paid), b.capacity)
<1>1. /\ b \in Bucket /\ t \in Nat /\ d \in Nat /\ b.capacity \in Nat
      /\ (b.capacity - t) + d = 2 * n /\ t <= b.capacity /\ (d > 0 => t = 0)
  BY DEF Solvent, Bucket, InFlight, Permit
<1>2. Returned(b) = [tokens |-> u, capacity |-> b.capacity, debt |-> d - paid]
  BY DEF Returned
<1>3. paid \in Nat /\ paid <= d /\ paid <= 2 /\ (paid = d \/ paid = 2)
  BY <1>1 DEF Lesser, Permit
<1>4. t + (2 - paid) <= b.capacity
  BY <1>1, <1>3
<1>5. u = t + (2 - paid)
  BY <1>1, <1>3, <1>4 DEF Lesser, Permit
<1> HIDE DEF paid, u
<1> QED BY <1>1, <1>2, <1>3, <1>4, <1>5 DEF Solvent, InFlight, Permit, Bucket

(* set_capacity neither takes a permit away from a request nor adds one.    *)
LEMMA RetunedSolvent ==
  ASSUME NEW b, NEW n \in Nat, NEW c \in Nat, Solvent(b, n)
  PROVE  Solvent(Retuned(b, c), n) /\ Retuned(b, c).capacity = c
<1> DEFINE t == b.tokens
           d == b.debt
           k == b.capacity
<1>1. /\ t \in Nat /\ d \in Nat /\ k \in Nat
      /\ (k - t) + d = 2 * n /\ t <= k /\ (d > 0 => t = 0)
  BY DEF Solvent, Bucket, InFlight, Permit
<1>2. CASE c > k
  <2> DEFINE paid == Lesser(d, c - k)
  <2>1. Retuned(b, c) =
          [tokens |-> t + ((c - k) - paid), capacity |-> c, debt |-> d - paid]
    BY <1>2 DEF Retuned
  <2>2. paid \in Nat /\ paid <= d /\ paid <= c - k /\ (paid = d \/ paid = c - k)
    BY <1>1, <1>2 DEF Lesser
  <2> HIDE DEF paid
  <2>3. t + ((c - k) - paid) <= c /\ (d - paid > 0 => t + ((c - k) - paid) = 0)
    BY SMTT(30), <1>1, <1>2, <2>2
  <2> DEFINE e == Retuned(b, c)
  <2>4. /\ e \in Bucket /\ e.capacity = c /\ e.debt = d - paid
        /\ e.tokens = t + ((c - k) - paid)
    BY <1>1, <1>2, <2>1, <2>2 DEF Bucket
  <2> HIDE DEF e
  <2>5. InFlight(e) = Permit * n
    BY <1>1, <1>2, <2>2, <2>3, <2>4 DEF InFlight, Permit
  <2>6. Solvent(e, n)
    BY <2>3, <2>4, <2>5 DEF Solvent
  <2> QED BY <2>4, <2>6 DEF e
<1>3. CASE ~ (c > k)
  <2> DEFINE taken == Lesser(t, k - c)
  <2>1. Retuned(b, c) =
          [tokens |-> t - taken, capacity |-> c, debt |-> d + ((k - c) - taken)]
    BY <1>3 DEF Retuned
  <2>2. taken \in Nat /\ taken <= t /\ taken <= k - c /\ (taken = t \/ taken = k - c)
    BY <1>1, <1>3 DEF Lesser
  <2> HIDE DEF taken
  <2> QED BY <1>1, <1>3, <2>1, <2>2 DEF Solvent, InFlight, Permit, Bucket
<1> QED BY <1>2, <1>3

-----------------------------------------------------------------------------
(* One request starts or stops to hold a permit.                            *)
LEMMA HolderCounts ==
  ASSUME NEW r \in Request
  PROVE  /\ Cardinality(Holding) \in Nat
         /\ r \notin Holding => Cardinality(Holding \cup {r}) = Cardinality(Holding) + 1
         /\ r \in Holding => /\ Cardinality(Holding) > 0
                            /\ Cardinality(Holding \ {r}) = Cardinality(Holding) - 1
<1>1. IsFiniteSet(Holding) /\ Cardinality(Holding) \in Nat
  BY AdmissionAssumption, FS_Subset, FS_CardinalityType DEF Holding
<1>2. Cardinality(Holding \ {r}) \in Nat
  BY Zenon, <1>1, FS_RemoveElement, FS_CardinalityType
<1>3. r \notin Holding => Cardinality(Holding \cup {r}) = Cardinality(Holding) + 1
  BY Zenon, <1>1, FS_AddElement
<1>4. r \in Holding => Cardinality(Holding \ {r}) = Cardinality(Holding) - 1
  BY Zenon, <1>1, FS_RemoveElement
<1> QED BY <1>1, <1>2, <1>3, <1>4

LEMMA InitIInv == Init => IInv
<1> SUFFICES ASSUME Init PROVE IInv
  OBVIOUS
<1>1. Holding = {} /\ Cardinality(Holding) = 0
  BY FS_EmptySet DEF Init, Holding
<1>2. bucket \in Bucket /\ InFlight(bucket) = 0
  BY AdmissionAssumption DEF Init, NewBucket, Bucket, InFlight, Permit
<1>3. TypeOK
  <2>1. queue \in Seq(Request) /\ Len(queue) <= QueueSize
    BY AdmissionAssumption DEF Init
  <2> QED BY Zenon, <1>2, <2>1 DEF Init, TypeOK, Phase, Hand, Reply
<1>4. Cells
  BY DEF Init, Cells
<1>5. PermitsAccounted
  BY <1>1, <1>2, AdmissionAssumption DEF Init, PermitsAccounted, NewBucket, Permit
<1> QED BY <1>3, <1>4, <1>5 DEF IInv

(* The bucket stays typed.                                                  *)
LEMMA BucketTyped ==
  ASSUME IInv, BucketStep
  PROVE  bucket' \in Bucket /\ PermitsAccounted'
         /\ [Ceiling!Next]_<<bucket.capacity, Out>>
<1>1. Out \in Nat /\ Solvent(bucket, Out)
  <2>1. Cardinality(Holding) \in Nat
    BY AdmissionAssumption, FS_Subset, FS_CardinalityType DEF Holding
  <2> QED BY <2>1 DEF IInv, TypeOK, PermitsAccounted, Solvent, Out
<1>2. PICK n, m, b, e :
        n = Out /\ m = Out' /\ b = bucket /\ e = bucket'
  OBVIOUS
<1>3. n \in Nat /\ Solvent(b, n)
  BY <1>1, <1>2
<1>4. \/ HasPermit(b) /\ e = Acquired(b) /\ m = n + 1
      \/ n > 0 /\ e = Returned(b) /\ m = n - 1
      \/ (\E c \in Nat : e = Retuned(b, c)) /\ m = n
      \/ e = b /\ m = n
  BY <1>2 DEF BucketStep
<1>5. /\ Solvent(e, m)
      /\ \/ Permit * (n + 1) <= b.capacity /\ m = n + 1 /\ e.capacity = b.capacity
         \/ n > 0 /\ m = n - 1 /\ e.capacity = b.capacity
         \/ e.capacity \in Nat /\ m = n
  <2>1. CASE HasPermit(b) /\ e = Acquired(b) /\ m = n + 1
    BY <1>3, <2>1, AcquiredSolvent
  <2>2. CASE n > 0 /\ e = Returned(b) /\ m = n - 1
    BY <1>3, <2>2, ReturnedSolvent
  <2>3. CASE (\E c \in Nat : e = Retuned(b, c)) /\ m = n
    BY <1>3, <2>3, RetunedSolvent
  <2>4. CASE e = b /\ m = n
    BY <1>3, <2>4 DEF Solvent, Bucket
  <2> QED BY <1>4, <2>1, <2>2, <2>3, <2>4
<1>6. bucket' \in Bucket /\ PermitsAccounted'
  BY <1>2, <1>5 DEF Solvent, PermitsAccounted, Out
<1>7. Ceiling!Next
  BY <1>2, <1>5 DEF Ceiling!Next, Ceiling!Admit, Ceiling!Leave, Ceiling!Retune, Out
<1> QED BY <1>6, <1>7

-----------------------------------------------------------------------------
(* One lemma per action: it keeps the requests well formed and does to the  *)
(* bucket what it does to the holders.                                      *)
LEMMA RespondStep ==
  ASSUME IInv, NEW r \in Request, Respond(r)
  PROVE  Rest' /\ Cells' /\ BucketStep
<1>1. Rest'
  BY DEF IInv, TypeOK, Respond, Rest, Goto, Pass, Phase, Hand, Reply, WokenNow
<1>2. Cells'
  BY DEF IInv, TypeOK, Cells, Respond, Goto, Pass
<1>3. Holding' = Holding
  BY DEF IInv, TypeOK, Cells, Respond, Goto, Pass, Holding
<1>4. BucketStep
  BY <1>3, HolderCounts DEF IInv, TypeOK, Respond, BucketStep, Out
<1> QED BY <1>1, <1>2, <1>4
LEMMA FinishStep ==
  ASSUME IInv, NEW r \in Request, Finish(r)
  PROVE  Rest' /\ Cells' /\ BucketStep
<1>1. Rest'
  BY DEF IInv, TypeOK, Finish, Rest, Goto, Pass, Phase, Hand, Reply, WokenNow
<1>2. Cells'
  BY DEF IInv, TypeOK, Cells, Finish, Goto, Pass
<1>3. r \in Holding /\ Holding' = Holding \ {r}
  BY DEF IInv, TypeOK, Cells, Finish, Goto, Pass, Holding
<1>4. BucketStep
  BY <1>3, HolderCounts DEF IInv, TypeOK, Finish, BucketStep, Out
<1> QED BY <1>1, <1>2, <1>4
LEMMA RegisterStep ==
  ASSUME IInv, NEW r \in Request, Register(r)
  PROVE  Rest' /\ Cells' /\ BucketStep
<1>1. Rest'
  BY DEF IInv, TypeOK, Register, Rest, Goto, Pass, Phase, Hand, Reply, WokenNow
<1>2. Cells'
  BY DEF IInv, TypeOK, Cells, Register, Goto, Pass
<1>3. Holding' = Holding
  BY DEF IInv, TypeOK, Cells, Register, Goto, Pass, Holding
<1>4. BucketStep
  BY <1>3, HolderCounts DEF IInv, TypeOK, Register, BucketStep, Out
<1> QED BY <1>1, <1>2, <1>4
LEMMA SleepStep ==
  ASSUME IInv, NEW r \in Request, Sleep(r)
  PROVE  Rest' /\ Cells' /\ BucketStep
<1>1. Rest'
  BY DEF IInv, TypeOK, Sleep, Rest, Goto, Pass, Phase, Hand, Reply, WokenNow
<1>2. Cells'
  BY DEF IInv, TypeOK, Cells, Sleep, Goto, Pass
<1>3. Holding' = Holding
  BY DEF IInv, TypeOK, Cells, Sleep, Goto, Pass, Holding
<1>4. BucketStep
  BY <1>3, HolderCounts DEF IInv, TypeOK, Sleep, BucketStep, Out
<1> QED BY <1>1, <1>2, <1>4
LEMMA NotifyStep ==
  ASSUME IInv, NEW r \in Request, Notify(r)
  PROVE  Rest' /\ Cells' /\ BucketStep
<1>1. Rest'
  BY DEF IInv, TypeOK, Notify, Rest, Goto, Pass, Phase, Hand, Reply, WokenNow
<1>2. Cells'
  BY DEF IInv, TypeOK, Cells, Notify, Goto, Pass
<1>3. Holding' = Holding
  BY DEF IInv, TypeOK, Cells, Notify, Goto, Pass, Holding
<1>4. BucketStep
  BY <1>3, HolderCounts DEF IInv, TypeOK, Notify, BucketStep, Out
<1> QED BY <1>1, <1>2, <1>4
LEMMA ExpireStep ==
  ASSUME IInv, NEW r \in Request, Expire(r)
  PROVE  Rest' /\ Cells' /\ BucketStep
<1>1. Rest'
  BY DEF IInv, TypeOK, Expire, Rest, Goto, Pass, Phase, Hand, Reply, WokenNow
<1>2. Cells'
  BY DEF IInv, TypeOK, Cells, Expire, Goto, Pass
<1>3. Holding' = Holding
  BY DEF IInv, TypeOK, Cells, Expire, Goto, Pass, Holding
<1>4. BucketStep
  BY <1>3, HolderCounts DEF IInv, TypeOK, Expire, BucketStep, Out
<1> QED BY <1>1, <1>2, <1>4

LEMMA ReceiveStep ==
  ASSUME IInv, NEW r \in Request, Receive(r)
  PROVE  Rest' /\ Cells' /\ BucketStep
<1>1. Rest'
  BY DEF IInv, TypeOK, Receive, Rest, Goto, Phase, Reply
<1>2. Cells'
  BY DEF IInv, TypeOK, Cells, Receive, Goto
<1>3. Holding' = Holding
  BY DEF IInv, TypeOK, Cells, Receive, Goto, Holding, Reply
<1>4. BucketStep
  BY <1>3 DEF Receive, BucketStep, Out
<1> QED BY <1>1, <1>2, <1>4

LEMMA LeaveQueueStep ==
  ASSUME IInv, NEW r \in Request, LeaveQueue(r)
  PROVE  Rest' /\ Cells' /\ BucketStep
<1>1. Rest'
  BY DEF IInv, TypeOK, LeaveQueue, Rest, Goto, Phase, Reply
<1>2. Cells'
  BY DEF IInv, TypeOK, Cells, LeaveQueue, Goto
<1>3. CASE reply[r] = "ok"
  <2>1. r \in Holding /\ Holding' = Holding \ {r}
    BY <1>3 DEF IInv, TypeOK, Cells, LeaveQueue, Goto, Holding
  <2> QED BY <1>1, <1>2, <1>3, <2>1, HolderCounts
          DEF IInv, TypeOK, LeaveQueue, BucketStep, Out
<1>4. CASE reply[r] # "ok"
  <2>1. Holding' = Holding
    BY <1>4 DEF IInv, TypeOK, Cells, LeaveQueue, Goto, Holding
  <2> QED BY <1>1, <1>2, <1>4, <2>1 DEF LeaveQueue, BucketStep, Out
<1> QED BY <1>3, <1>4

LEMMA SendStep ==
  ASSUME IInv, NEW r \in Request, Send(r)
  PROVE  Rest' /\ Cells' /\ BucketStep
<1>1. Rest'
  BY DEF IInv, TypeOK, Send, Rest, Goto, Pass, Phase, Hand, Reply
<1>2. Cells'
  BY DEF IInv, TypeOK, Cells, Send, Goto, Pass
<1>3. CASE pc[r] = "queued"
  <2>1. Holding' = Holding
    BY <1>3 DEF IInv, TypeOK, Cells, Send, Pass, Holding
  <2> QED BY <1>1, <1>2, <1>3, <2>1 DEF Send, BucketStep, Out
<1>4. CASE pc[r] # "queued"
  <2>1. r \in Holding /\ Holding' = Holding \ {r}
    BY <1>4 DEF IInv, TypeOK, Cells, Send, Goto, Pass, Holding
  <2> QED BY <1>1, <1>2, <1>4, <2>1, HolderCounts
          DEF IInv, TypeOK, Send, BucketStep, Out
<1> QED BY <1>3, <1>4

LEMMA CheckStep ==
  ASSUME IInv, NEW r \in Request, Check(r)
  PROVE  Rest' /\ Cells' /\ BucketStep
<1>1. Rest'
  BY DEF IInv, TypeOK, Check, Rest, Pass, Hand
<1>2. Cells'
  BY DEF IInv, TypeOK, Cells, Check, Pass
<1>3. CASE HasPermit(bucket)
  <2>1. r \notin Holding /\ Holding' = Holding \cup {r}
    BY <1>3 DEF IInv, TypeOK, Cells, Check, Pass, Holding
  <2> QED BY <1>1, <1>2, <1>3, <2>1, HolderCounts
          DEF IInv, TypeOK, Check, BucketStep, Out
<1>4. CASE ~ HasPermit(bucket)
  <2>1. Holding' = Holding
    BY <1>4 DEF IInv, TypeOK, Cells, Check, Pass, Holding
  <2> QED BY <1>1, <1>2, <1>4, <2>1 DEF Check, BucketStep, Out
<1> QED BY <1>3, <1>4

LEMMA ArriveStep ==
  ASSUME IInv, NEW r \in Request, Arrive(r)
  PROVE  Rest' /\ Cells' /\ BucketStep
<1>1. r \notin Holding /\ hand[r] = "none" /\ \A i \in 1 .. Len(queue) : queue[i] # r
  BY DEF IInv, TypeOK, Cells, Arrive, Holding
<1>2. CASE HasPermit(bucket)
  <2>1. Rest' /\ Cells'
    BY <1>1, <1>2 DEF IInv, TypeOK, Cells, Arrive, Rest, Goto, Phase
  <2>2. Holding' = Holding \cup {r}
    BY <1>1, <1>2 DEF IInv, TypeOK, Arrive, Goto, Holding
  <2> QED BY <1>1, <1>2, <2>1, <2>2, HolderCounts
          DEF IInv, TypeOK, Arrive, BucketStep, Out
<1>3. CASE ~ HasPermit(bucket)
  <2>0. queue' = Append(queue, r) /\ Len(queue) < QueueSize /\ Len(queue) \in Nat
    BY <1>3 DEF IInv, TypeOK, Arrive
  <2>1. /\ queue' \in Seq(Request) /\ Len(queue') = Len(queue) + 1
        /\ queue'[Len(queue) + 1] = r
        /\ \A i \in 1 .. Len(queue) : queue'[i] = queue[i] /\ queue[i] \in Request
    BY <2>0 DEF IInv, TypeOK
  <2>2. Len(queue') <= QueueSize
    BY <2>0, <2>1, AdmissionAssumption
  <2>3. Rest'
    <3>1. /\ pc' \in [Request -> Phase] /\ hand' \in [Request -> Hand]
          /\ woken' = woken /\ reply' = reply /\ retuned' = retuned
          /\ stranded' = stranded
      BY Zenon, <1>3 DEF IInv, TypeOK, Arrive, Goto, Pass, Phase, Hand
    <3> QED BY Zenon, <2>1, <2>2, <3>1 DEF IInv, TypeOK, Rest
  <2>4. Cells'
    <3>1. /\ hand' = [hand EXCEPT ![r] = "queue"] /\ pc' = [pc EXCEPT ![r] = "queued"]
          /\ reply' = reply /\ reply[r] = "none"
      BY <1>3 DEF IInv, TypeOK, Cells, Arrive, Goto, Pass
    <3>2. \A q \in Request :
            /\ hand'[q] # "none" => pc'[q] \in {"queued", "left"} /\ reply'[q] = "none"
            /\ reply'[q] # "none" => pc'[q] = "queued"
      BY <3>1 DEF IInv, TypeOK, Cells
    <3>3. \A i \in 1 .. Len(queue') : hand'[queue'[i]] = "queue"
      BY <2>1, <3>1 DEF IInv, TypeOK, Cells
    <3>4. \A i, j \in 1 .. Len(queue') : queue'[i] = queue'[j] => i = j
      BY <1>1, <2>1 DEF IInv, TypeOK, Cells
    <3> QED BY Zenon, <3>2, <3>3, <3>4 DEF Cells
  <2>5. Holding' = Holding
    BY <1>1, <1>3 DEF IInv, TypeOK, Arrive, Goto, Pass, Holding
  <2> QED BY <1>3, <2>3, <2>4, <2>5 DEF Arrive, BucketStep, Out
<1> QED BY <1>2, <1>3

LEMMA DequeueStep ==
  ASSUME IInv, Dequeue
  PROVE  Rest' /\ Cells' /\ BucketStep
<1> DEFINE h == Head(queue)
<1>1. /\ h \in Request /\ hand[h] = "queue" /\ h \notin Holding
      /\ Len(queue') = Len(queue) - 1 /\ queue' \in Seq(Request)
      /\ \A i \in 1 .. Len(queue') : queue'[i] = queue[i + 1] /\ queue'[i] # h
  BY DEF IInv, TypeOK, Cells, Dequeue, Holding
<1>2. Rest'
  BY <1>1, AdmissionAssumption DEF IInv, TypeOK, Dequeue, Rest, Pass, Hand
<1>3. Cells'
  BY <1>1 DEF IInv, TypeOK, Cells, Dequeue, Pass
<1>4. CASE HasPermit(bucket)
  <2>1. Holding' = Holding \cup {h}
    BY <1>1, <1>4 DEF IInv, TypeOK, Dequeue, Pass, Holding
  <2> QED BY <1>1, <1>2, <1>3, <1>4, <2>1, HolderCounts
          DEF IInv, TypeOK, Dequeue, BucketStep, Out
<1>5. CASE ~ HasPermit(bucket)
  <2>1. Holding' = Holding
    BY <1>1, <1>5 DEF IInv, TypeOK, Dequeue, Pass, Holding
  <2> QED BY <1>2, <1>3, <1>5, <2>1 DEF Dequeue, BucketStep, Out
<1> QED BY <1>4, <1>5

LEMMA RetuneStep ==
  ASSUME IInv, NEW c \in Ceilings, SetAdmission(c)
  PROVE  Rest' /\ Cells' /\ BucketStep
<1>1. c \in Nat
  BY AdmissionAssumption
<1>2. Rest' /\ Cells' /\ Holding' = Holding
  BY <1>1 DEF IInv, TypeOK, Cells, SetAdmission, Rest, Holding, Bucket
<1> QED BY <1>1, <1>2 DEF SetAdmission, BucketStep, Out

LEMMA NotifyRetunedStep ==
  ASSUME IInv, NotifyRetuned
  PROVE  Rest' /\ Cells' /\ BucketStep
<1>1. Rest' /\ Cells' /\ Holding' = Holding
  BY ZenonT(30) DEF IInv, TypeOK, Cells, NotifyRetuned, Rest, Holding, WokenNow
<1> QED BY <1>1 DEF NotifyRetuned, BucketStep, Out

-----------------------------------------------------------------------------
LEMMA NextIInv ==
  ASSUME IInv, [Next]_vars
  PROVE  IInv' /\ [Ceiling!Next]_<<bucket.capacity, Out>>
<1>1. Rest' /\ Cells' /\ BucketStep
  <2>1. CASE UNCHANGED vars
    BY ZenonT(30), <2>1 DEF vars, IInv, TypeOK, Rest, Cells, BucketStep, Out, Holding
  <2>2. ASSUME NEW r \in Request,
               \/ Arrive(r) \/ Respond(r) \/ Finish(r) \/ LeaveQueue(r)
               \/ Serve(r) \/ Expire(r)
        PROVE  Rest' /\ Cells' /\ BucketStep
    BY <2>2, ArriveStep, RespondStep, FinishStep, LeaveQueueStep, ReceiveStep,
       SendStep, RegisterStep, CheckStep, SleepStep, NotifyStep, ExpireStep
       DEF Serve
  <2>3. ASSUME NEW c \in Ceilings, SetAdmission(c)
        PROVE  Rest' /\ Cells' /\ BucketStep
    BY <2>3, RetuneStep
  <2> QED BY <2>1, <2>2, <2>3, DequeueStep, NotifyRetunedStep DEF Next
<1>2. bucket' \in Bucket /\ PermitsAccounted'
      /\ [Ceiling!Next]_<<bucket.capacity, Out>>
  BY <1>1, BucketTyped
<1> QED BY <1>1, <1>2 DEF IInv, TypeOK, Rest

(* A permit becomes available only through a step that then notifies: a     *)
(* return or a raise of the ceiling.                                        *)
LEMMA PermitAppears ==
  ASSUME IInv, [Next]_vars, HasPermit(bucket)', ~ HasPermit(bucket)
  PROVE  retuned' \/ \E q \in Request : pc'[q] = "notify"
<1>1. bucket \in Bucket
  BY DEF IInv, TypeOK
<1>2. ASSUME NEW b \in Bucket PROVE HasPermit(Acquired(b)) => HasPermit(b)
  BY DEF Bucket, HasPermit, Acquired, Permit
<1>3. bucket' # bucket /\ bucket' # Acquired(bucket)
  BY <1>1, <1>2
<1>4. ASSUME NEW r \in Request, Finish(r) \/ Send(r) PROVE pc'[r] = "notify"
  BY <1>3, <1>4 DEF IInv, TypeOK, Finish, Send, Goto
<1>5. ASSUME NEW c \in Ceilings, SetAdmission(c) PROVE retuned'
  <2> SUFFICES ASSUME ~ (c > bucket.capacity) PROVE FALSE
    BY Zenon, <1>5 DEF SetAdmission
  <2>1. c \in Nat /\ bucket.tokens \in Nat /\ bucket.capacity \in Nat
    BY <1>1, AdmissionAssumption DEF Bucket
  <2>2. bucket'.tokens = bucket.tokens - Lesser(bucket.tokens, bucket.capacity - c)
    BY Zenon, <1>5 DEF SetAdmission, Retuned
  <2> QED BY <2>1, <2>2 DEF HasPermit, Permit, Lesser
<1>6. ASSUME NEW r \in Request,
             \/ Arrive(r) \/ Respond(r) \/ LeaveQueue(r) \/ Receive(r) \/ Register(r)
             \/ Check(r) \/ Sleep(r) \/ Notify(r) \/ Expire(r)
      PROVE  FALSE
  BY Zenon, <1>3, <1>6 DEF Arrive, Respond, LeaveQueue, Receive, Register, Check, Sleep, Notify, Expire
<1>7. ~ Dequeue /\ ~ NotifyRetuned /\ ~ UNCHANGED vars
  BY SMTT(30), <1>3 DEF Dequeue, NotifyRetuned, vars
<1> QED BY <1>4, <1>5, <1>6, <1>7 DEF Next, Serve

(* A task comes to rest unwoken only where it finds no permit, and a        *)
(* notification that is due is not lost before it wakes everyone at rest.   *)
LEMMA WakeupKept ==
  ASSUME IInv, NoLostWakeup, [Next]_vars
  PROVE  NoLostWakeup'
<1> DEFINE Quiet(q) == hand[q] \in {"pending", "asleep"} /\ ~ woken[q]
           Due == retuned \/ \E q \in Request : pc[q] = "notify"
<1>1. ASSUME NEW q \in Request, Quiet(q)', Due, ~ Due' PROVE FALSE
  <2>1. ASSUME NEW r \in Request, Notify(r) PROVE FALSE
    BY ZenonT(30), <1>1, <2>1 DEF Notify, WokenNow, IInv, TypeOK
  <2>2. ~ NotifyRetuned
    BY <1>1 DEF NotifyRetuned, WokenNow, IInv, TypeOK
  <2>3. ASSUME NEW r \in Request,
               \/ Arrive(r) \/ Respond(r) \/ Finish(r) \/ LeaveQueue(r) \/ Receive(r)
               \/ Send(r) \/ Register(r) \/ Check(r) \/ Sleep(r) \/ Expire(r)
        PROVE  FALSE
    <3>1. retuned' = retuned
      BY Zenon, <2>3 DEF Arrive, Respond, Finish, LeaveQueue, Receive, Send, Register, Check, Sleep, Expire
    <3>2. PICK n \in Request : pc[n] = "notify"
      BY Zenon, <1>1, <3>1
    <3>3. pc'[n] = "notify"
      BY ZenonT(30), <2>3, <3>2 DEF Arrive, Respond, Finish, LeaveQueue, Receive, Send, Register, Check,
                        Sleep, Expire, Goto, IInv, TypeOK, Cells
    <3> QED BY Zenon, <1>1, <3>3
  <2>4. ~ Dequeue /\ ~ UNCHANGED vars
    BY Zenon, <1>1 DEF Dequeue, vars
  <2>5. ASSUME NEW c \in Ceilings, SetAdmission(c) PROVE FALSE
    BY <1>1, <2>5 DEF SetAdmission
  <2> QED BY <2>1, <2>2, <2>3, <2>4, <2>5 DEF Next, Serve
<1>2. ASSUME NEW q \in Request, Quiet(q)', ~ Quiet(q) PROVE ~ HasPermit(bucket)'
  <2>1. ASSUME NEW r \in Request,
               \/ Arrive(r) \/ Respond(r) \/ Finish(r) \/ LeaveQueue(r) \/ Receive(r)
               \/ Send(r) \/ Register(r) \/ Sleep(r) \/ Expire(r) \/ Notify(r)
        PROVE  FALSE
    BY Zenon, <1>2, <2>1 DEF Arrive, Respond, Finish, LeaveQueue, Receive, Send, Register, Sleep,
                      Expire, Notify, WokenNow, Pass, IInv, TypeOK
  <2>2. ASSUME NEW r \in Request, Check(r) PROVE ~ HasPermit(bucket)'
    BY <1>2, <2>2 DEF Check, Pass, IInv, TypeOK, HasPermit
  <2>3. ~ NotifyRetuned /\ ~ UNCHANGED vars
    BY <1>2 DEF NotifyRetuned, WokenNow, vars, IInv, TypeOK
  <2>4. ~ Dequeue
    <3>1. ASSUME Dequeue PROVE Head(queue) \in Request
      BY <3>1 DEF Dequeue, IInv, TypeOK
    <3> QED BY <1>2, <3>1 DEF Dequeue, Pass, IInv, TypeOK
  <2>5. ASSUME NEW c \in Ceilings, SetAdmission(c) PROVE FALSE
    BY Zenon, <1>2, <2>5 DEF SetAdmission
  <2> QED BY SMTT(30), <2>1, <2>2, <2>3, <2>4, <2>5 DEF Next, Serve
<1> SUFFICES ASSUME NEW q \in Request, Quiet(q)', HasPermit(bucket)' PROVE Due'
  BY ZenonT(30) DEF NoLostWakeup
<1>3. Quiet(q)
  BY <1>2
<1>4. CASE HasPermit(bucket)
  BY <1>1, <1>3, <1>4 DEF NoLostWakeup
<1>5. CASE ~ HasPermit(bucket)
  BY <1>5, PermitAppears
<1> QED BY Zenon, <1>4, <1>5

(* The state of the admission path stays well formed: the queue within its  *)
(* size, tokens, ceiling and debt never negative.                           *)
THEOREM AdmissionTyped == Spec => []TypeOK
<1>1. IInv => TypeOK
  BY DEF IInv
<1> QED BY InitIInv, NextIInv, <1>1, PTL DEF Spec

(* in_flight() is right in every reachable state: the permits that are out  *)
(* of the bucket are those of the holders and the stranded ones.            *)
THEOREM AdmissionAccounted == Spec => []PermitsAccounted
<1>1. IInv => PermitsAccounted
  BY DEF IInv
<1> QED BY InitIInv, NextIInv, <1>1, PTL DEF Spec

(* acquire of the token bucket loses no wake-up: a task that waits is       *)
(* notified whenever a permit is free, or the notification is about to      *)
(* come, for any number of tasks.                                           *)
THEOREM AdmissionWakes == Spec => []NoLostWakeup
<1>1. Init => NoLostWakeup
  BY DEF Init, NoLostWakeup
<1> QED BY InitIInv, NextIInv, WakeupKept, <1>1, PTL DEF Spec

(* The admission path implements AdmissionCeiling: set_capacity,            *)
(* try_acquire and return_tokens_sync never admit above the live ceiling.   *)
THEOREM AdmissionImplementsCeiling == Spec => CeilingSpec
<1>1. Init => Ceiling!Init
  <2> SUFFICES ASSUME Init PROVE Ceiling!Init
    OBVIOUS
  <2>1. Cardinality(Holding) = 0
    <3>1. Holding = {}
      BY DEF Init, Holding
    <3> QED BY <3>1, FS_EmptySet
  <2> QED BY <2>1, AdmissionAssumption DEF Init, NewBucket, Permit, Ceiling!Init
<1>2. IInv /\ [Next]_vars => [Ceiling!Next]_<<bucket.capacity, Out>>
  BY NextIInv
<1> QED BY <1>1, <1>2, InitIInv, NextIInv, PTL DEF Spec, CeilingSpec, Ceiling!Spec, Out

-----------------------------------------------------------------------------
(* RouterLauncher and its LogSink                                           *)

Batching == {"post", "count", "store", "done"}
Counter == {"exported", "dropped", "pending", "failures"}

SinkTypes ==
  /\ sinkQueue \in Seq(Nat) /\ unfinished \in Nat /\ submitted \in Nat
  /\ sinkSent \in Nat /\ sinkDropped \in Nat /\ failures \in Nat
  /\ thread \in [at : {"loop", "ended"} \cup Batching, batch : Seq(Nat), tries : Nat,
                 delivered : BOOLEAN, read : Nat]
  /\ closing \in {"open", "closed"} \cup Counter
  /\ report \in [exported : Nat, dropped : Nat, pending : Nat, failures : Nat]

(* queue.unfinished_tasks counts what is queued and the rest of the batch.  *)
AllCounted ==
  /\ unfinished = Len(sinkQueue) + Len(thread.batch)
  /\ thread.at \in Batching <=> thread.batch # <<>>

(* As long as no post failed, the thread adds nothing to dropped, so that   *)
(* no addition is lost; and if nothing is dropped either, a record that     *)
(* the collector has not confirmed is queued or about to be posted.         *)
NoneAstray ==
  failures = 0 =>
    /\ thread.at # "store"
    /\ thread.at = "count" => thread.delivered
    /\ sinkDropped = 0 => \A n \in 1 .. submitted :
         \/ n \in accepted \/ n \in Range(sinkQueue)
         \/ thread.at = "post" /\ n \in Range(thread.batch)

(* What the counters read so far say about the counters now. The launcher   *)
(* submits nothing once it closes the sink.                                 *)
ReadInOrder ==
  /\ closing # "open" => launcher \in {"closing", "exited"}
  /\ closing \in {"pending", "failures", "closed"} /\ report.dropped = 0 /\ failures = 0
       => sinkDropped = 0
  /\ closing \in {"failures", "closed"} /\ report.pending = 0 => unfinished = 0
  /\ closing = "closed" /\ report.pending = 0 => report.failures = failures

LInv == SinkTypes /\ AllCounted /\ NoneAstray /\ ReadInOrder

LEMMA EmptyLen == \A q : q = <<>> => Len(q) = 0
OBVIOUS

LEMMA SplitRange ==
  ASSUME NEW q \in Seq(Nat), NEW n \in 0 .. Len(q)
  PROVE  /\ SubSeq(q, 1, n) \in Seq(Nat) /\ Len(SubSeq(q, 1, n)) = n
         /\ SubSeq(q, n + 1, Len(q)) \in Seq(Nat)
         /\ Len(SubSeq(q, n + 1, Len(q))) = Len(q) - n
         /\ Range(q) \subseteq Range(SubSeq(q, 1, n)) \cup Range(SubSeq(q, n + 1, Len(q)))
<1> DEFINE front == SubSeq(q, 1, n)  back == SubSeq(q, n + 1, Len(q))
<1>0. Len(q) \in Nat /\ n \in Nat /\ n <= Len(q) /\ \A i \in 1 .. Len(q) : q[i] \in Nat
  OBVIOUS
<1>1. /\ front \in Seq(Nat) /\ Len(front) = n
      /\ \A i \in 1 .. n : front[i] = q[i]
  <2>1. \A i \in 1 .. n : q[i] \in Nat
    BY <1>0
  <2>2. /\ front \in Seq(Nat) /\ Len(front) = IF 1 <= n THEN n - 1 + 1 ELSE 0
        /\ \A i \in 1 .. n - 1 + 1 : front[i] = q[1 + i - 1]
    BY <1>0, <2>1
  <2> QED BY <1>0, <2>2
<1>2. /\ back \in Seq(Nat) /\ Len(back) = Len(q) - n
      /\ \A i \in 1 .. Len(q) - n : back[i] = q[n + i]
  <2>1. \A i \in n + 1 .. Len(q) : q[i] \in Nat
    BY <1>0
  <2>2. /\ back \in Seq(Nat)
        /\ Len(back) = IF n + 1 <= Len(q) THEN Len(q) - (n + 1) + 1 ELSE 0
        /\ \A i \in 1 .. Len(q) - (n + 1) + 1 : back[i] = q[n + 1 + i - 1]
    BY <1>0, <2>1
  <2> QED BY <1>0, <2>2
<1> HIDE DEF front, back
<1>3. ASSUME NEW x \in Range(q) PROVE x \in Range(front) \cup Range(back)
  <2>1. PICK i \in 1 .. Len(q) : x = q[i]
    BY <1>3 DEF Range
  <2>2. CASE i <= n
    <3>1. i \in 1 .. Len(front) /\ front[i] = x
      BY <1>0, <1>1, <2>1, <2>2
    <3>2. i \in DOMAIN front
      BY <1>1, <3>1
    <3> QED BY <3>1, <3>2 DEF Range
  <2>3. CASE n < i
    <3>1. i - n \in 1 .. Len(back) /\ back[i - n] = x
      <4>1. i - n \in 1 .. Len(q) - n /\ n + (i - n) = i
        BY <1>0, <2>1, <2>3
      <4> QED BY Zenon, <1>2, <2>1, <4>1
    <3>2. i - n \in DOMAIN back
      BY <1>2, <3>1
    <3> QED BY <3>1, <3>2 DEF Range
  <2> QED BY <1>0, <2>1, <2>2, <2>3
<1> QED BY Zenon, <1>1, <1>2, <1>3 DEF front, back

LEMMA AppendRange ==
  ASSUME NEW q \in Seq(Nat), NEW x \in Nat
  PROVE  /\ Append(q, x) \in Seq(Nat) /\ Len(Append(q, x)) = Len(q) + 1
         /\ Range(q) \cup {x} \subseteq Range(Append(q, x))
<1> DEFINE r == Append(q, x)
<1>1. /\ r \in Seq(Nat) /\ Len(r) = Len(q) + 1 /\ r[Len(q) + 1] = x
      /\ \A i \in 1 .. Len(q) : r[i] = q[i]
  OBVIOUS
<1> HIDE DEF r
<1>2. Len(q) \in Nat /\ DOMAIN r = 1 .. Len(q) + 1 /\ DOMAIN q = 1 .. Len(q)
  BY <1>1
<1>3. x \in Range(r)
  BY <1>1, <1>2 DEF Range
<1>4. Range(q) \subseteq Range(r)
  <2>1. 1 .. Len(q) \subseteq 1 .. Len(q) + 1
    BY <1>2
  <2> QED BY <1>1, <1>2, <2>1 DEF Range
<1> QED BY <1>1, <1>3, <1>4 DEF r

LEMMA InitLInv == LaunchInit => LInv
<1> SUFFICES ASSUME LaunchInit PROVE LInv
  OBVIOUS
<1> USE DEF LaunchInit, SinkInit, Resting, NoReport
<1>1. SinkTypes
  BY DEF SinkTypes
<1>2. AllCounted
  BY DEF AllCounted, Batching
<1>3. NoneAstray
  BY DEF NoneAstray
<1>4. ReadInOrder
  BY Zenon DEF ReadInOrder
<1> QED BY Zenon, <1>1, <1>2, <1>3, <1>4 DEF LInv

(* Nothing of the sink changes; the launcher moves on.                      *)
LEMMA SinkUntouched ==
  ASSUME LInv, UNCHANGED sinkVars, closing # "open" => launcher' \in {"closing", "exited"}
  PROVE  LInv'
BY ZenonT(30) DEF LInv, sinkVars, SinkTypes, AllCounted, NoneAstray, ReadInOrder

(* submit, by a launcher that has not called close.                         *)
LEMMA SubmitKeeps ==
  ASSUME LInv, closing = "open", NEW large \in BOOLEAN, Submit(large)
  PROVE  LInv'
<1> USE DEF LInv
<1>0. submitted + 1 \in Nat /\ submitted' = submitted + 1
  BY DEF Submit, SinkTypes
<1>1. UNCHANGED <<sinkSent, failures, sinkStop, thread, accepted, closing, report>>
  BY DEF Submit
<1>2. ReadInOrder'
  BY <1>1 DEF ReadInOrder
<1>3. CASE sinkDropped' = sinkDropped + 1 /\ UNCHANGED <<sinkQueue, unfinished>>
  <2>1. SinkTypes' /\ sinkDropped' # 0
    BY <1>0, <1>1, <1>3 DEF SinkTypes
  <2>2. AllCounted' /\ NoneAstray'
    BY Zenon, <1>1, <1>3, <2>1 DEF AllCounted, NoneAstray
  <2> QED BY <1>2, <2>1, <2>2
<1>4. CASE /\ sinkQueue' = Append(sinkQueue, submitted + 1) /\ unfinished' = unfinished + 1
           /\ UNCHANGED sinkDropped
  <2>1. /\ sinkQueue' \in Seq(Nat) /\ Len(sinkQueue') = Len(sinkQueue) + 1
        /\ Range(sinkQueue) \cup {submitted + 1} \subseteq Range(sinkQueue')
    BY Zenon, <1>0, <1>4, AppendRange DEF SinkTypes
  <2>2. SinkTypes'
    BY <1>0, <1>1, <1>4, <2>1 DEF SinkTypes
  <2>3. AllCounted'
    <3>1. Len(sinkQueue) \in Nat /\ Len(thread.batch) \in Nat
      BY DEF SinkTypes
    <3>2. unfinished = Len(sinkQueue) + Len(thread.batch)
      BY DEF AllCounted
    <3>3. unfinished' = Len(sinkQueue') + Len(thread'.batch)
      <4>1. unfinished' = unfinished + 1 /\ Len(sinkQueue') = Len(sinkQueue) + 1
        BY <1>4, <2>1
      <4>2. Len(thread'.batch) = Len(thread.batch)
        BY <1>1
      <4>3. \A a, b \in Nat : (a + b) + 1 = (a + 1) + b
        OBVIOUS
      <4>4. (Len(sinkQueue) + Len(thread.batch)) + 1 = (Len(sinkQueue) + 1) + Len(thread.batch)
        BY Zenon, <3>1, <4>3
      <4> QED BY <3>2, <4>1, <4>2, <4>4, Zenon
    <3> QED BY <1>1, <3>3 DEF AllCounted
  <2>4. NoneAstray'
    <3>1. \A n \in 1 .. submitted' : n \in 1 .. submitted \/ n = submitted + 1
      BY <1>0 DEF SinkTypes
    <3> QED BY <1>1, <1>4, <2>1, <3>1 DEF NoneAstray
  <2> QED BY <1>2, <2>2, <2>3, <2>4
<1> QED BY <1>3, <1>4 DEF Submit

LEMMA CollectKeeps ==
  ASSUME LInv, UNCHANGED launcher, Collect
  PROVE  LInv'
<1> USE DEF LInv
<1> DEFINE n == IF Len(sinkQueue) < SinkBatch THEN Len(sinkQueue) ELSE SinkBatch
<1>1. n \in 1 .. Len(sinkQueue)
  <2>1. Len(sinkQueue) \in Nat /\ sinkQueue \in Seq(Nat) /\ sinkQueue # <<>>
    BY DEF SinkTypes, Collect
  <2>2. Len(sinkQueue) # 0
    BY <2>1
  <2> QED BY <2>1, <2>2, SinkAssumption
<1>2. /\ thread.at = "loop" /\ thread.batch = <<>>
      /\ thread' = [Resting EXCEPT !.at = "post", !.batch = SubSeq(sinkQueue, 1, n)]
      /\ sinkQueue' = SubSeq(sinkQueue, n + 1, Len(sinkQueue))
      /\ UNCHANGED <<unfinished, sinkSent, sinkDropped, failures, sinkStop, submitted, accepted,
                     closing, report>>
  BY DEF Collect, AllCounted, Batching
<1> HIDE DEF n
<1>3. /\ thread'.at = "post" /\ thread'.batch = SubSeq(sinkQueue, 1, n)
      /\ thread'.batch \in Seq(Nat) => thread' \in [at : {"loop", "ended"} \cup Batching,
           batch : Seq(Nat), tries : Nat, delivered : BOOLEAN, read : Nat]
  BY Zenon, <1>2 DEF Resting, Batching
<1>4. /\ thread'.batch \in Seq(Nat) /\ Len(thread'.batch) = n
      /\ sinkQueue' \in Seq(Nat) /\ Len(sinkQueue') = Len(sinkQueue) - n
      /\ Range(sinkQueue) \subseteq Range(thread'.batch) \cup Range(sinkQueue')
  <2>1. sinkQueue \in Seq(Nat) /\ n \in 0 .. Len(sinkQueue)
    BY <1>1 DEF SinkTypes
  <2> QED BY ZenonT(30), <1>2, <1>3, <2>1, SplitRange
<1>5. SinkTypes'
  BY Zenon, <1>2, <1>3, <1>4 DEF SinkTypes
<1>6. AllCounted'
  <2>1. Len(sinkQueue) \in Nat /\ Len(thread.batch) = 0
    BY <1>2 DEF SinkTypes
  <2>2. unfinished' = Len(sinkQueue') + Len(thread'.batch)
    <3>1. unfinished = Len(sinkQueue) + Len(thread.batch)
      BY DEF AllCounted
    <3> QED BY <1>1, <1>2, <1>4, <2>1, <3>1
  <2>3. thread'.batch # <<>>
    BY <1>1, <1>4
  <2> QED BY <1>3, <2>2, <2>3 DEF AllCounted, Batching
<1>7. NoneAstray'
  BY <1>2, <1>3, <1>4 DEF NoneAstray
<1>8. ReadInOrder'
  BY <1>2 DEF ReadInOrder
<1> QED BY <1>5, <1>6, <1>7, <1>8

LEMMA PostKeeps ==
  ASSUME LInv, UNCHANGED launcher,
         NEW answer \in {"confirmed", "refused", "garbled", "error"}, Post(answer)
  PROVE  LInv'
<1> USE DEF LInv
<1>1. PICK delivered, over :
        /\ delivered \in BOOLEAN /\ over \in BOOLEAN
        /\ answer = "confirmed" => delivered /\ over
        /\ thread' = [thread EXCEPT !.delivered = delivered, !.tries = @ + 1,
                        !.at = IF over THEN "count" ELSE "post"]
  <2> DEFINE delivered == CASE answer \in {"confirmed", "garbled"} -> TRUE
                            [] answer = "refused" -> FALSE
                            [] OTHER -> thread.delivered
             over == answer = "confirmed" \/ thread.tries = 1
  <2>1. delivered \in BOOLEAN /\ (answer = "confirmed" => delivered = TRUE)
    BY Zenon DEF SinkTypes
  <2>2. over \in BOOLEAN /\ (answer = "confirmed" => over = TRUE)
    OBVIOUS
  <2>3. thread' = [thread EXCEPT !.delivered = delivered, !.tries = @ + 1,
                     !.at = IF over THEN "count" ELSE "post"]
    BY DEF Post
  <2> HIDE DEF delivered, over
  <2> QED BY Zenon, <2>1, <2>2, <2>3
<1>2. /\ thread.at = "post" /\ thread.batch # <<>>
      /\ UNCHANGED <<sinkQueue, unfinished, sinkSent, sinkDropped, sinkStop, submitted, closing,
                     report>>
      /\ failures' = IF answer = "confirmed" THEN failures ELSE failures + 1
      /\ accepted' = IF answer = "confirmed" THEN accepted \cup Range(thread.batch) ELSE accepted
  BY DEF Post, AllCounted, Batching
<1>3. /\ thread'.batch = thread.batch /\ thread'.at \in {"count", "post"}
      /\ answer = "confirmed" => thread'.at = "count" /\ thread'.delivered
  BY <1>1 DEF SinkTypes
<1>4. SinkTypes'
  <2>1. thread' \in [at : {"loop", "ended"} \cup Batching, batch : Seq(Nat), tries : Nat,
                     delivered : BOOLEAN, read : Nat]
    <3>1. thread.tries + 1 \in Nat /\ (IF over THEN "count" ELSE "post") \in Batching
      BY DEF SinkTypes, Batching
    <3> QED BY Zenon, <1>1, <3>1 DEF SinkTypes
  <2>2. failures' \in Nat
    BY <1>2 DEF SinkTypes
  <2> QED BY Zenon, <1>2, <2>1, <2>2 DEF SinkTypes
<1>5. AllCounted'
  BY Zenon, <1>2, <1>3 DEF AllCounted, Batching
<1>6. NoneAstray'
  <2>1. CASE answer = "confirmed"
    BY Zenon, <1>2, <1>3, <2>1 DEF NoneAstray
  <2>2. CASE answer # "confirmed"
    <3>1. failures' # 0
      BY <1>2, <2>2 DEF SinkTypes
    <3> QED BY <3>1 DEF NoneAstray
  <2> QED BY <2>1, <2>2
<1>7. ReadInOrder'
  <2>1. unfinished # 0
    <3>1. Len(thread.batch) \in Nat /\ Len(sinkQueue) \in Nat /\ Len(thread.batch) # 0
      BY <1>2 DEF SinkTypes
    <3> QED BY <3>1 DEF AllCounted
  <2>2. failures' = 0 => failures = 0
    BY <1>2 DEF SinkTypes
  <2> QED BY Zenon, <1>2, <2>1, <2>2 DEF ReadInOrder
<1> QED BY SMTT(30), <1>4, <1>5, <1>6, <1>7

(* The steps of the thread that move no record.                             *)
LEMMA CountKeeps ==
  ASSUME LInv, UNCHANGED launcher, SinkEnds \/ CountSent \/ CountDropped
  PROVE  LInv'
<1> USE DEF LInv
<1>0. UNCHANGED <<sinkQueue, unfinished, failures, submitted, accepted, closing, report>>
  BY DEF SinkEnds, CountSent, CountDropped
<1>1. CASE SinkEnds
  BY Zenon, <1>0, <1>1 DEF SinkEnds, SinkTypes, AllCounted, NoneAstray, ReadInOrder, Batching
<1>2. CASE CountSent
  <2>1. /\ thread.at = "count" /\ thread' = [thread EXCEPT !.at = "done"]
        /\ sinkDropped' = sinkDropped /\ sinkSent' \in Nat
    BY <1>2 DEF CountSent, SinkTypes
  <2> QED BY Zenon, <1>0, <2>1 DEF SinkTypes, AllCounted, NoneAstray, ReadInOrder, Batching
<1>3. ASSUME thread.at = "count", ~thread.delivered, sinkDropped' = sinkDropped, sinkSent' = sinkSent,
             thread' = [thread EXCEPT !.at = "store", !.read = sinkDropped]
      PROVE  LInv'
  <2>1. failures # 0
    BY <1>3 DEF NoneAstray
  <2> QED BY Zenon, <1>0, <1>3, <2>1 DEF SinkTypes, AllCounted, NoneAstray, ReadInOrder, Batching
<1>4. ASSUME thread.at = "store", sinkDropped' = thread.read + Len(thread.batch), sinkSent' = sinkSent,
             thread' = [thread EXCEPT !.at = "done"]
      PROVE  LInv'
  <2>1. failures # 0
    BY <1>4 DEF NoneAstray
  <2>2. sinkDropped' \in Nat
    BY <1>4 DEF SinkTypes
  <2> QED BY Zenon, <1>0, <1>4, <2>1, <2>2 DEF SinkTypes, AllCounted, NoneAstray, ReadInOrder, Batching
<1> QED BY <1>1, <1>2, <1>3, <1>4 DEF CountDropped

LEMMA TaskDoneKeeps ==
  ASSUME LInv, UNCHANGED launcher, TaskDone
  PROVE  LInv'
<1> USE DEF LInv
<1>1. /\ thread.at = "done" /\ thread.batch # <<>> /\ unfinished' = unfinished - 1
      /\ thread' = IF Len(thread.batch) = 1 THEN Resting ELSE [thread EXCEPT !.batch = Tail(@)]
      /\ UNCHANGED <<sinkQueue, sinkSent, sinkDropped, failures, sinkStop, submitted, accepted,
                     closing, report>>
  BY DEF TaskDone, AllCounted, Batching
<1>2. /\ Tail(thread.batch) \in Seq(Nat) /\ Len(Tail(thread.batch)) = Len(thread.batch) - 1
      /\ Len(thread.batch) \in Nat \ {0} /\ Len(sinkQueue) \in Nat
  BY SMTT(30), <1>1 DEF SinkTypes
<1>3. /\ thread' \in [at : {"loop", "ended"} \cup Batching, batch : Seq(Nat), tries : Nat,
                      delivered : BOOLEAN, read : Nat]
      /\ Len(thread'.batch) = Len(thread.batch) - 1 /\ thread'.at \in {"loop", "done"}
      /\ thread'.at = "done" <=> thread'.batch # <<>>
  <2>1. CASE Len(thread.batch) = 1
    BY <1>1, <2>1 DEF Resting
  <2>2. CASE Len(thread.batch) # 1
    <3>1. Len(Tail(thread.batch)) # 0
      BY <1>2, <2>2
    <3>2. Tail(thread.batch) # <<>>
      BY Zenon, <3>1, EmptyLen
    <3> QED BY Zenon, <1>1, <1>2, <2>2, <3>2 DEF SinkTypes
  <2> QED BY <2>1, <2>2
<1>4. /\ unfinished \in Nat \ {0} /\ unfinished' \in Nat
      /\ unfinished' = Len(sinkQueue) + Len(thread'.batch)
  <2>1. unfinished = Len(sinkQueue) + Len(thread.batch)
    BY DEF AllCounted
  <2>2. /\ unfinished' = unfinished - 1 /\ Len(thread'.batch) = Len(thread.batch) - 1
        /\ Len(thread.batch) \in Nat \ {0} /\ Len(sinkQueue) \in Nat
    BY <1>1, <1>2, <1>3
  <2> QED BY <2>1, <2>2
<1>5. SinkTypes' /\ AllCounted'
  BY ZenonT(30), <1>1, <1>3, <1>4 DEF SinkTypes, AllCounted, Batching
<1>6. NoneAstray' /\ ReadInOrder'
  BY Zenon, <1>1, <1>3, <1>4 DEF NoneAstray, ReadInOrder
<1> QED BY <1>5, <1>6

(* close: the stop event, and the four counters one by one.                 *)
LEMMA CloseKeeps ==
  ASSUME LInv, UNCHANGED launcher, launcher = "closing", CloseStop \/ CloseRead
  PROVE  LInv'
<1> USE DEF LInv
<1>0. UNCHANGED <<sinkQueue, unfinished, sinkSent, sinkDropped, failures, thread, submitted, accepted>>
  BY DEF CloseStop, CloseRead
<1>1. AllCounted' /\ NoneAstray'
  BY Zenon, <1>0 DEF AllCounted, NoneAstray
<1>2. CASE CloseStop
  BY Zenon, <1>0, <1>1, <1>2 DEF CloseStop, SinkTypes, ReadInOrder, Counter
<1>3. CASE CloseRead
  <2>1. \/ closing = "exported" /\ closing' = "dropped"
           /\ report' = [report EXCEPT !.exported = sinkSent]
        \/ closing = "dropped" /\ closing' = "pending"
           /\ report' = [report EXCEPT !.dropped = sinkDropped]
        \/ closing = "pending" /\ closing' = "failures"
           /\ report' = [report EXCEPT !.pending = unfinished]
        \/ closing = "failures" /\ closing' = "closed" /\ report' = [report EXCEPT !.failures = failures]
    <3>1. PICK i \in 1 .. 4 :
            /\ closing = CloseOrder[i] /\ closing' = CloseOrder[i + 1]
            /\ report' = [report EXCEPT ![closing] =
                 CASE closing = "exported" -> sinkSent
                   [] closing = "dropped" -> sinkDropped
                   [] closing = "pending" -> unfinished
                   [] OTHER -> failures]
      BY <1>3 DEF CloseRead
    <3>2. /\ CloseOrder[1] = "exported" /\ CloseOrder[2] = "dropped" /\ CloseOrder[3] = "pending"
          /\ CloseOrder[4] = "failures" /\ CloseOrder[5] = "closed"
      BY DEF CloseOrder
    <3>3. \/ closing = "exported" /\ closing' = "dropped"
          \/ closing = "dropped" /\ closing' = "pending"
          \/ closing = "pending" /\ closing' = "failures"
          \/ closing = "failures" /\ closing' = "closed"
      <4>1. i = 1 \/ i = 2 \/ i = 3 \/ i = 4
        OBVIOUS
      <4> QED BY <3>1, <3>2, <4>1
    <3> QED BY Zenon, <3>1, <3>3
  <2>2. SinkTypes'
    BY Zenon, <1>0, <2>1 DEF SinkTypes, Counter
  <2>3. ReadInOrder'
    BY Zenon, <1>0, <2>1 DEF SinkTypes, ReadInOrder
  <2> QED BY <1>1, <2>2, <2>3
<1> QED BY <1>2, <1>3

LEMMA NextLInv == LInv /\ [LaunchNext]_launchVars => LInv'
<1> SUFFICES ASSUME LInv, [LaunchNext]_launchVars PROVE LInv'
  OBVIOUS
<1>0. launcher \notin {"closing", "exited"} => closing = "open"
  BY DEF LInv, ReadInOrder
<1>1. ASSUME NEW endpoint, LaunchMain(endpoint) PROVE LInv'
  BY <1>0, <1>1, SinkUntouched DEF LaunchMain
<1>2. CASE SpawnRouter \/ InstallStop \/ EndOfOutput \/ FinallyKill
  BY Zenon, <1>0, <1>2, SinkUntouched DEF SpawnRouter, InstallStop, EndOfOutput, FinallyKill
<1>3. CASE Exit
  BY <1>3, SinkUntouched DEF Exit
<1>4. CASE CloseSink
  BY <1>4, CloseKeeps DEF CloseSink
<1>5. ASSUME launcher \notin {"closing", "exited"}, NEW large \in BOOLEAN, emit(large)
      PROVE  LInv'
  BY <1>0, <1>5, SubmitKeeps, SinkUntouched DEF emit
<1>6. CASE RejectLaunch
  BY Zenon, <1>5, <1>6 DEF RejectLaunch
<1>7. ASSUME NEW kind, NEW large \in BOOLEAN, ReadLine(kind, large) PROVE LInv'
  <2>1. launcher = "reading" /\ (emit(large) \/ UNCHANGED sinkVars)
    BY <1>7 DEF ReadLine
  <2> QED BY <1>0, <1>5, <2>1, SinkUntouched
<1>8. ASSUME NEW failed \in BOOLEAN, WaitRouter(failed) PROVE LInv'
  <2>1. launcher = "waiting" /\ (emit(FALSE) \/ UNCHANGED sinkVars)
    BY Zenon, <1>8 DEF WaitRouter
  <2> QED BY Zenon, <1>0, <1>5, <2>1, SinkUntouched
<1>9. CASE SinkStep
  BY <1>9, CollectKeeps, PostKeeps, CountKeeps, TaskDoneKeeps DEF SinkStep, SinkThread
<1>10. CASE Stop \/ TimerFires \/ UNCHANGED launchVars
  <2>1. UNCHANGED sinkVars /\ launcher' = launcher
    BY <1>10 DEF Stop, TimerFires, launchVars
  <2>2. closing # "open" => launcher' \in {"closing", "exited"}
    BY <1>0, <2>1
  <2> QED BY <2>1, <2>2, SinkUntouched
<1>11. ASSUME NEW p, NEW state, Prints(p) \/ Becomes(p, state) PROVE LInv'
  <2>1. UNCHANGED sinkVars /\ launcher' = launcher
    BY <1>11 DEF Prints, Becomes
  <2>2. closing # "open" => launcher' \in {"closing", "exited"}
    BY <1>0, <2>1
  <2> QED BY <2>1, <2>2, SinkUntouched
<1> QED BY Zenon, <1>1, <1>2, <1>3, <1>4, <1>6, <1>7, <1>8, <1>9, <1>10, <1>11 DEF LaunchNext, LaunchStep

(* When close() of the sink reports nothing dropped, pending or failed, the *)
(* collector has confirmed every record the launcher submitted: for every   *)
(* capacity and batch size, and however the thread's posts, its counts and  *)
(* the reads of close() interleave.                                         *)
THEOREM SilentCloseDelivered == LaunchSpec => []SilenceMeansDelivered
<1>1. ASSUME LInv PROVE SilenceMeansDelivered
  <2> SUFFICES ASSUME closing = "closed", report.dropped = 0, report.pending = 0, report.failures = 0
               PROVE  1 .. submitted \subseteq accepted
    BY DEF SilenceMeansDelivered, Failed
  <2>1. failures = 0 /\ unfinished = 0 /\ sinkDropped = 0
    BY <1>1 DEF LInv, ReadInOrder
  <2>2. sinkQueue = <<>> /\ thread.batch = <<>>
    <3>1. Len(sinkQueue) \in Nat /\ Len(thread.batch) \in Nat
      BY <1>1 DEF LInv, SinkTypes
    <3>2. Len(sinkQueue) = 0 /\ Len(thread.batch) = 0
      BY <1>1, <2>1, <3>1 DEF LInv, AllCounted
    <3> QED BY <1>1, <3>2 DEF LInv, SinkTypes
  <2>3. Range(<<>>) = {}
    BY DEF Range
  <2> QED BY Zenon, <1>1, <2>1, <2>2, <2>3 DEF LInv, NoneAstray
<1> QED BY InitLInv, NextLInv, <1>1, PTL DEF LaunchSpec
=============================================================================
