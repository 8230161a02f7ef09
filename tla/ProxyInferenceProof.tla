------------------------ MODULE ProxyInferenceProof ------------------------
(* The gateway's inference permits are conserved, no execution slot idles   *)
(* beside a waiter, and every usage event tells the truth, for any number   *)
(* of requests and keys and any limits.                                     *)
EXTENDS ProxyInference, FiniteSetTheorems, SequenceTheorems, TLAPS

(* What a call that ends may have left to drop.                             *)
DropList ==
  {<< >>, <<"key">>, <<"admission", "key">>, <<"execution", "admission", "key">>,
   <<"execution">>, <<"admission", "execution">>, <<"key", "admission", "execution">>}

SlotTypes ==
  /\ stage \in [Request -> Stage]
  /\ key \in [Request -> Key \cup {NoKey}]
  /\ drops \in [Request -> DropList]
  /\ key_slots \in [Key -> Nat]
  /\ inference_admission \in Nat
  /\ inference_slots \in Nat
  /\ waiters \in Seq(Request)

(* The FIFO holds the calls that wait, each once.                           *)
Queued ==
  /\ \A i \in 1..Len(waiters) : stage[waiters[i]] = "waiting"
  /\ \A r \in Request : stage[r] = "waiting" => \E i \in 1..Len(waiters) : waiters[i] = r
  /\ \A i, j \in 1..Len(waiters) : waiters[i] = waiters[j] => i = j

(* A call has its key until it ended, and permits to drop only when it ends. *)
Calls ==
  \A r \in Request :
    /\ stage[r] # "out" => key[r] \in Key
    /\ drops[r] # << >> => stage[r] \in {"refused", "dropping"}

Slots == SlotTypes /\ Queued /\ Calls

KeyHolders(k) == {r \in Holders("key") : key[r] = k}

(* The steps of InferenceSlots.                                             *)
SlotsStep(r) ==
  \/ \E k \in Key : AcquireKey(r, k)
  \/ AcquireAdmission(r) \/ AcquireExecution(r) \/ Wake(r) \/ QueueTimeout(r)
  \/ CancelWaiting(r) \/ EndExecution(r) \/ DropNext(r) \/ Ended(r)

(* The handler of a request at its awaits: the key it authenticated with,   *)
(* the outcome its usage guard would record, and what it relayed so far.    *)
Fresh(r) == kind[r] = NoValue /\ ended[r] = NoValue /\ ~ stream_done[r]
Relaying(r) ==
  /\ kind[r] \in Kind /\ ended[r] = NoValue
  /\ stream_done[r] => kind[r] = "event_stream"
  /\ usage[r] = IF stream_done[r] THEN "completed" ELSE "cancelled"
Relayed(r) ==
  /\ kind[r] \in Kind
  /\ stream_done[r] => kind[r] = "event_stream"
  /\ \/ ended[r] \in {"failed", "invalid"} /\ usage[r] = "interrupted"
     \/ /\ ended[r] = "eof"
        /\ usage[r] = IF kind[r] = "event_stream" /\ ~ stream_done[r] THEN "interrupted"
                      ELSE IF kind[r] = "error_status" THEN "failed" ELSE "completed"

Handled(r) ==
  /\ phase[r] \in {"body", "call"} => key_id[r] \in Key
  /\ phase[r] # "done" => events[r] = << >>
  /\ phase[r] \in {"new", "body"} => Fresh(r)
  /\ phase[r] \in {"call", "gone", "upstream"} => Fresh(r) /\ usage[r] = "cancelled"
  /\ phase[r] = "stream" => Relaying(r)
  /\ phase[r] = "closing" => \/ Fresh(r) /\ usage[r] \in {"failed", "cancelled"}
                             \/ Relaying(r)
                             \/ Relayed(r)

HandlerTypes ==
  /\ phase \in [Request -> Phase]
  /\ key_id \in [Request -> Key \cup {NoKey}]
  /\ usage \in [Request -> Outcome \cup {NoValue}]
  /\ events \in [Request -> Seq(Outcome \cup {NoValue})]
  /\ kind \in [Request -> Kind \cup {NoValue}]
  /\ stream_done \in [Request -> BOOLEAN]
  /\ ended \in [Request -> {NoValue, "failed", "invalid", "eof"}]

Handlers == HandlerTypes /\ \A r \in Request : Handled(r)

-----------------------------------------------------------------------------
(* The permits in a drop list, and what dropping the first of them leaves.  *)
LEMMA DropListSets ==
  /\ Range(<< >>) = {} /\ Range(<<"key">>) = {"key"}
  /\ Range(<<"execution">>) = {"execution"}
  /\ Range(<<"admission", "key">>) = {"admission", "key"}
  /\ Range(<<"admission", "execution">>) = {"admission", "execution"}
  /\ Range(<<"execution", "admission", "key">>) = Permit
  /\ Range(<<"key", "admission", "execution">>) = Permit
  /\ << >> \in DropList /\ <<"key">> \in DropList /\ <<"admission", "key">> \in DropList
  /\ <<"execution", "admission", "key">> \in DropList
  /\ <<"key", "admission", "execution">> \in DropList
BY DEF Range, Permit, DropList

LEMMA DropListTail ==
  ASSUME NEW d \in DropList, d # << >>
  PROVE  /\ Head(d) \in Range(d) /\ Head(d) \in Permit
         /\ Tail(d) \in DropList
         /\ Range(Tail(d)) = Range(d) \ {Head(d)}
<1>1. CASE d = <<"key">>
  BY <1>1, DropListSets DEF DropList, Permit
<1>2. CASE d = <<"execution">>
  BY <1>2, DropListSets DEF DropList, Permit
<1>3. CASE d = <<"admission", "key">>
  BY <1>3, DropListSets DEF DropList, Permit
<1>4. CASE d = <<"admission", "execution">>
  BY <1>4, DropListSets DEF DropList, Permit
<1>5. CASE d = <<"execution", "admission", "key">>
  BY <1>5, DropListSets DEF DropList, Permit
<1>6. CASE d = <<"key", "admission", "execution">>
  BY <1>6, DropListSets DEF DropList, Permit
<1> QED BY <1>1, <1>2, <1>3, <1>4, <1>5, <1>6 DEF DropList

(* One call more or less in a set of calls.                                 *)
LEMMA CallCounts ==
  ASSUME NEW S, S \subseteq Request, NEW r \in Request
  PROVE  /\ Cardinality(S) \in Nat
         /\ r \notin S => Cardinality(S \cup {r}) = Cardinality(S) + 1
         /\ r \in S => Cardinality(S \ {r}) = Cardinality(S) - 1
<1>1. IsFiniteSet(S) /\ Cardinality(S) \in Nat
  BY SlotsAssumption, FS_Subset, FS_CardinalityType
<1>2. r \notin S => Cardinality(S \cup {r}) = Cardinality(S) + 1
  BY Zenon, <1>1, FS_AddElement
<1>3. r \in S => Cardinality(S \ {r}) = Cardinality(S) - 1
  BY Zenon, <1>1, FS_RemoveElement
<1> QED BY <1>1, <1>2, <1>3

(* A sequence without its element at a.                                     *)
RemoveAt(s, a) == SubSeq(s, 1, a - 1) \o SubSeq(s, a + 1, Len(s))

LEMMA RemoveAtRest ==
  ASSUME NEW S, NEW s \in Seq(S), NEW a \in 1..Len(s)
  PROVE  /\ RemoveAt(s, a) \in Seq(S)
         /\ Len(RemoveAt(s, a)) = Len(s) - 1
         /\ \A i \in 1..Len(s) - 1 : RemoveAt(s, a)[i] = s[IF i < a THEN i ELSE i + 1]
<1> DEFINE n == Len(s)
           front == SubSeq(s, 1, a - 1)
           back == SubSeq(s, a + 1, n)
<1>1. n \in Nat /\ a \in 1..n /\ \A i \in 1..n : s[i] \in S
  OBVIOUS
<1>2. /\ front \in Seq(S) /\ Len(front) = a - 1
      /\ \A i \in 1..a - 1 : front[i] = s[i]
  <2>1. \A i \in 1..a - 1 : s[i] \in S
    BY <1>1
  <2>2. /\ front \in Seq(S) /\ Len(front) = IF 1 <= a - 1 THEN a - 1 - 1 + 1 ELSE 0
        /\ \A i \in 1..(a - 1) - 1 + 1 : front[i] = s[1 + i - 1]
    BY <1>1, <2>1, SubSeqProperties
  <2> QED BY <1>1, <2>2
<1>3. /\ back \in Seq(S) /\ Len(back) = n - a
      /\ \A i \in 1..n - a : back[i] = s[a + i]
  <2>1. \A i \in a + 1..n : s[i] \in S
    BY <1>1
  <2>2. /\ back \in Seq(S) /\ Len(back) = IF a + 1 <= n THEN n - (a + 1) + 1 ELSE 0
        /\ \A i \in 1..n - (a + 1) + 1 : back[i] = s[(a + 1) + i - 1]
    BY <1>1, <2>1, SubSeqProperties
  <2> QED BY <1>1, <2>2
<1> DEFINE both == front \o back
<1> HIDE DEF front, back, n
<1>4. /\ both \in Seq(S) /\ Len(both) = Len(front) + Len(back)
      /\ \A i \in 1..Len(front) + Len(back) :
           both[i] = IF i <= Len(front) THEN front[i] ELSE back[i - Len(front)]
  BY Zenon, <1>2, <1>3, ConcatProperties
<1>5. RemoveAt(s, a) = both
  BY DEF RemoveAt, front, back, n
<1> HIDE DEF both
<1>6. ASSUME NEW i \in 1..n - 1 PROVE both[i] = s[IF i < a THEN i ELSE i + 1]
  <2>1. CASE i < a
    BY <1>1, <1>2, <1>3, <1>4, <2>1
  <2>2. CASE ~ (i < a)
    <3>1. i - Len(front) \in 1..n - a /\ a + (i - Len(front)) = i + 1
      BY <1>1, <1>2, <2>2
    <3>2. both[i] = back[i - Len(front)]
      BY <1>1, <1>2, <1>3, <1>4, <2>2
    <3> QED BY <1>3, <2>2, <3>1, <3>2
  <2> QED BY <2>1, <2>2
<1>7. Len(both) = n - 1
  BY <1>1, <1>2, <1>3, <1>4
<1> QED BY <1>4, <1>5, <1>6, <1>7 DEF n

(* A call that gives up leaves the others queued, in their order.           *)
LEMMA UnqueuedRest ==
  ASSUME Slots, NEW r \in Request, stage[r] = "waiting"
  PROVE  /\ Unqueued(r) \in Seq(Request)
         /\ \A i \in 1..Len(Unqueued(r)) :
              \E j \in 1..Len(waiters) : Unqueued(r)[i] = waiters[j] /\ waiters[j] # r
         /\ \A q \in Request \ {r} : stage[q] = "waiting" =>
              \E i \in 1..Len(Unqueued(r)) : Unqueued(r)[i] = q
         /\ \A i, j \in 1..Len(Unqueued(r)) : Unqueued(r)[i] = Unqueued(r)[j] => i = j
<1> DEFINE at == CHOOSE i \in DOMAIN waiters : waiters[i] = r
           n == Len(waiters)
           rest == RemoveAt(waiters, at)
<1>1. n \in Nat /\ DOMAIN waiters = 1..n /\ waiters \in Seq(Request)
  BY DEF Slots, SlotTypes
<1>2. at \in 1..n /\ waiters[at] = r
  <2>1. \E i \in DOMAIN waiters : waiters[i] = r
    BY <1>1 DEF Slots, Queued
  <2> QED BY <1>1, <2>1
<1> HIDE DEF at
<1>3. Unqueued(r) = rest
  BY DEF Unqueued, RemoveAt, at
<1>4. /\ rest \in Seq(Request) /\ Len(rest) = n - 1
      /\ \A i \in 1..n - 1 : rest[i] = waiters[IF i < at THEN i ELSE i + 1]
  BY Zenon, <1>1, <1>2, RemoveAtRest
<1> HIDE DEF rest
<1>5. ASSUME NEW i \in 1..n - 1
      PROVE  /\ (IF i < at THEN i ELSE i + 1) \in 1..n
             /\ waiters[IF i < at THEN i ELSE i + 1] # r
  BY <1>1, <1>2 DEF Slots, Queued
<1>6. ASSUME NEW q \in Request \ {r}, stage[q] = "waiting"
      PROVE  \E i \in 1..n - 1 : rest[i] = q
  <2>1. PICK j \in 1..n : waiters[j] = q
    BY <1>6 DEF Slots, Queued
  <2>2. CASE j < at
    BY <1>1, <1>2, <1>4, <2>1, <2>2
  <2>3. CASE j > at
    <3>1. j - 1 \in 1..n - 1 /\ rest[j - 1] = q
      BY <1>1, <1>2, <1>4, <2>1, <2>3
    <3> QED BY <3>1
  <2> QED BY <1>1, <1>2, <1>6, <2>1, <2>2, <2>3
<1>7. ASSUME NEW i \in 1..n - 1, NEW j \in 1..n - 1, rest[i] = rest[j] PROVE i = j
  <2> DEFINE place(k) == IF k < at THEN k ELSE k + 1
  <2>1. \A k, l \in 1..n : waiters[k] = waiters[l] => k = l
    BY DEF Slots, Queued
  <2>2. place(i) \in 1..n /\ place(j) \in 1..n
    BY <1>5
  <2>3. waiters[place(i)] = waiters[place(j)]
    BY <1>4, <1>7
  <2>4. place(i) = place(j)
    BY <2>1, <2>2, <2>3
  <2> QED BY <1>1, <1>2, <2>4
<1>8. Len(rest) = n - 1 /\ rest \in Seq(Request)
  BY <1>4
<1>9. ASSUME NEW i \in 1..n - 1
      PROVE  \E j \in 1..n : rest[i] = waiters[j] /\ waiters[j] # r
  BY <1>4, <1>5
<1> QED BY Zenon, <1>3, <1>6, <1>7, <1>8, <1>9

(* So the FIFO holds the calls that still wait.                             *)
LEMMA UnqueuedLeaves ==
  ASSUME Slots, NEW r \in Request, stage[r] = "waiting", NEW t, t # "waiting",
         stage' = [stage EXCEPT ![r] = t], waiters' = Unqueued(r)
  PROVE  Queued'
<1> DEFINE rest == Unqueued(r)
<1>1. stage \in [Request -> Stage] /\ \A j \in 1..Len(waiters) : waiters[j] \in Request
  BY DEF Slots, SlotTypes
<1>2. /\ \A i \in 1..Len(rest) :
           \E j \in 1..Len(waiters) : rest[i] = waiters[j] /\ waiters[j] # r
      /\ \A q \in Request \ {r} : stage[q] = "waiting" => \E i \in 1..Len(rest) : rest[i] = q
      /\ \A i, j \in 1..Len(rest) : rest[i] = rest[j] => i = j
  BY Zenon, UnqueuedRest
<1> HIDE DEF rest
<1>3. \A i \in 1..Len(rest) : rest[i] \in Request \ {r} /\ stage[rest[i]] = "waiting"
  BY <1>1, <1>2 DEF Slots, Queued
<1>4. waiters' = rest
  BY DEF rest
<1>5. \A q \in Request : stage'[q] = IF q = r THEN t ELSE stage[q]
  BY <1>1
<1>6. \A i \in 1..Len(rest) : stage'[rest[i]] = "waiting"
  BY <1>3, <1>5
<1>7. \A q \in Request : stage'[q] = "waiting" => \E i \in 1..Len(rest) : rest[i] = q
  BY <1>2, <1>5
<1> QED BY <1>2, <1>4, <1>6, <1>7 DEF Queued

-----------------------------------------------------------------------------
(* What a step keeps: permits move between a semaphore and its holders.     *)
ExecutionBalanced ==
  inference_slots' + Cardinality(Holders("execution")')
    = inference_slots + Cardinality(Holders("execution"))
AdmissionBalanced ==
  inference_admission' + Cardinality(Holders("admission")')
    = inference_admission + Cardinality(Holders("admission"))
KeysBalanced ==
  \A k \in Key : key_slots'[k] + Cardinality(KeyHolders(k)')
                  = key_slots[k] + Cardinality(KeyHolders(k))
Balanced == ExecutionBalanced /\ AdmissionBalanced /\ KeysBalanced

LEMMA AcquireKeyStep ==
  ASSUME Slots, NEW r \in Request, NEW k \in Key, AcquireKey(r, k)
  PROVE  Slots' /\ Balanced
<1> USE DEF Slots
<1>1. SlotTypes'
  BY SMTT(30) DEF AcquireKey, SlotTypes, Stage
<1>2. Queued'
  BY DEF AcquireKey, SlotTypes, Queued
<1>3. Calls'
  BY DEF AcquireKey, SlotTypes, Calls
<1>4. drops[r] = << >> /\ \A p \in Permit : p \notin Range(drops[r])
  BY DropListSets DEF AcquireKey, Calls, Permit
<1>5. ExecutionBalanced
  <2>1. Holders("execution")' = Holders("execution")
    BY <1>4 DEF AcquireKey, SlotTypes, Holders, Holds, Permit
  <2> QED BY <2>1 DEF AcquireKey, ExecutionBalanced
<1>6. AdmissionBalanced
  <2>1. Holders("admission")' = Holders("admission")
    BY <1>4 DEF AcquireKey, SlotTypes, Holders, Holds, Permit
  <2> QED BY <2>1 DEF AcquireKey, AdmissionBalanced
<1>7. ASSUME NEW q \in Key
      PROVE  key_slots'[q] + Cardinality(KeyHolders(q)') = key_slots[q] + Cardinality(KeyHolders(q))
  <2>1. KeyHolders(q) \subseteq Request /\ r \notin KeyHolders(q)
    BY <1>4 DEF AcquireKey, SlotTypes, KeyHolders, Holders, Holds, Permit
  <2>2. CASE q = k /\ key_slots[k] > 0
    <3>1. KeyHolders(q)' = KeyHolders(q) \cup {r}
      BY <1>4, <2>2 DEF AcquireKey, SlotTypes, KeyHolders, Holders, Holds, Permit
    <3>2. key_slots'[q] = key_slots[q] - 1 /\ key_slots[q] \in Nat
      BY <2>2 DEF AcquireKey, SlotTypes
    <3> QED BY <2>1, <3>1, <3>2, CallCounts
  <2>3. CASE ~ (q = k /\ key_slots[k] > 0)
    <3>1. KeyHolders(q)' = KeyHolders(q)
      BY <1>4, <2>3 DEF AcquireKey, SlotTypes, KeyHolders, Holders, Holds, Permit
    <3>2. key_slots'[q] = key_slots[q]
      BY <2>3 DEF AcquireKey, SlotTypes
    <3> QED BY <3>1, <3>2
  <2> QED BY <2>2, <2>3
<1> QED BY <1>1, <1>2, <1>3, <1>5, <1>6, <1>7 DEF Balanced, KeysBalanced

LEMMA AcquireAdmissionStep ==
  ASSUME Slots, NEW r \in Request, AcquireAdmission(r)
  PROVE  Slots' /\ Balanced
<1> USE DEF Slots
<1>1. SlotTypes'
  <2>1. CASE inference_admission > 0
    BY <2>1 DEF AcquireAdmission, SlotTypes, Stage
  <2>2. CASE ~ (inference_admission > 0)
    BY ZenonT(30), <2>2, DropListSets DEF AcquireAdmission, SlotTypes, Stage
  <2> QED BY <2>1, <2>2
<1>2. Queued'
  BY DEF AcquireAdmission, SlotTypes, Queued
<1>3. Calls'
  BY DEF AcquireAdmission, SlotTypes, Calls
<1>4. drops[r] = << >>
  BY DEF AcquireAdmission, Calls
<1>5. ExecutionBalanced
  <2>1. Holders("execution")' = Holders("execution")
    BY <1>4, DropListSets DEF AcquireAdmission, SlotTypes, Holders, Holds, Permit
  <2> QED BY <2>1 DEF AcquireAdmission, ExecutionBalanced
<1>6. AdmissionBalanced
  <2>1. Holders("admission") \subseteq Request /\ r \notin Holders("admission")
    BY <1>4, DropListSets DEF AcquireAdmission, SlotTypes, Holders, Holds, Permit
  <2>2. CASE inference_admission > 0
    <3>1. Holders("admission")' = Holders("admission") \cup {r}
      BY <2>2 DEF AcquireAdmission, SlotTypes, Holders, Holds, Permit
    <3>2. inference_admission' = inference_admission - 1 /\ inference_admission \in Nat
      BY <2>2 DEF AcquireAdmission, SlotTypes
    <3> QED BY <2>1, <3>1, <3>2, CallCounts DEF AdmissionBalanced
  <2>3. CASE ~ (inference_admission > 0)
    <3>1. Holders("admission")' = Holders("admission")
      BY Zenon, <1>4, <2>3, DropListSets DEF AcquireAdmission, SlotTypes, Holders, Holds, Permit
    <3> QED BY <2>3, <3>1 DEF AcquireAdmission, AdmissionBalanced
  <2> QED BY <2>2, <2>3
<1>7. KeysBalanced
  <2>1. \A k \in Key : KeyHolders(k)' = KeyHolders(k)
    BY <1>4, DropListSets DEF AcquireAdmission, KeyHolders, SlotTypes, Holders, Holds, Permit
  <2> QED BY <2>1 DEF AcquireAdmission, KeysBalanced
<1> QED BY <1>1, <1>2, <1>3, <1>5, <1>6, <1>7 DEF Balanced

LEMMA AcquireExecutionStep ==
  ASSUME Slots, NEW r \in Request, AcquireExecution(r)
  PROVE  Slots' /\ Balanced
<1> USE DEF Slots
<1>1. SlotTypes'
  <2>1. CASE inference_slots > 0
    BY <2>1 DEF AcquireExecution, SlotTypes, Stage
  <2>2. CASE ~ (inference_slots > 0)
    <3>0. waiters' = Append(waiters, r) /\ waiters \in Seq(Request)
      BY <2>2 DEF AcquireExecution, SlotTypes
    <3>1. waiters' \in Seq(Request)
      BY <3>0, AppendProperties
    <3> QED BY <2>2, <3>1 DEF AcquireExecution, SlotTypes, Stage
  <2> QED BY <2>1, <2>2
<1>2. Queued'
  <2>1. CASE inference_slots > 0
    BY <2>1 DEF AcquireExecution, SlotTypes, Queued
  <2>2. CASE ~ (inference_slots > 0)
    <3> DEFINE n == Len(waiters)
    <3>1. /\ n \in Nat /\ Len(waiters') = n + 1 /\ waiters'[n + 1] = r
          /\ \A i \in 1..n : waiters'[i] = waiters[i] /\ waiters[i] \in Request
      BY <2>2, AppendProperties DEF AcquireExecution, SlotTypes
    <3>2. stage' = [stage EXCEPT ![r] = "waiting"] /\ stage \in [Request -> Stage]
      BY <2>2 DEF AcquireExecution, SlotTypes
    <3>3. /\ \A i \in 1..n : stage[waiters[i]] = "waiting" /\ waiters[i] # r
          /\ \A q \in Request : stage[q] = "waiting" => \E i \in 1..n : waiters[i] = q
          /\ \A i, j \in 1..n : waiters[i] = waiters[j] => i = j
      BY DEF AcquireExecution, Queued
    <3> HIDE DEF n
    <3>4. \A i \in 1..n + 1 : stage'[waiters'[i]] = "waiting"
      BY <3>1, <3>2, <3>3
    <3>5. \A q \in Request : stage'[q] = "waiting" => \E i \in 1..n + 1 : waiters'[i] = q
      BY <3>1, <3>2, <3>3
    <3>6. \A i, j \in 1..n + 1 : waiters'[i] = waiters'[j] => i = j
      BY <3>1, <3>3
    <3> QED BY <3>1, <3>4, <3>5, <3>6 DEF Queued
  <2> QED BY <2>1, <2>2
<1>3. Calls'
  BY DEF AcquireExecution, SlotTypes, Calls
<1>4. drops[r] = << >>
  BY DEF AcquireExecution, Calls
<1>5. ExecutionBalanced
  <2>1. Holders("execution") \subseteq Request /\ r \notin Holders("execution")
    BY <1>4, DropListSets DEF AcquireExecution, SlotTypes, Holders, Holds, Permit
  <2>2. CASE inference_slots > 0
    <3>1. Holders("execution")' = Holders("execution") \cup {r}
      BY <2>2 DEF AcquireExecution, SlotTypes, Holders, Holds, Permit
    <3>2. inference_slots' = inference_slots - 1 /\ inference_slots \in Nat
      BY <2>2 DEF AcquireExecution, SlotTypes
    <3> QED BY <2>1, <3>1, <3>2, CallCounts DEF ExecutionBalanced
  <2>3. CASE ~ (inference_slots > 0)
    <3>1. Holders("execution")' = Holders("execution")
      BY <1>4, <2>3, DropListSets DEF AcquireExecution, SlotTypes, Holders, Holds, Permit
    <3> QED BY <2>3, <3>1 DEF AcquireExecution, ExecutionBalanced
  <2> QED BY <2>2, <2>3
<1>6. AdmissionBalanced
  <2>1. Holders("admission")' = Holders("admission")
    BY <1>4, DropListSets DEF AcquireExecution, SlotTypes, Holders, Holds, Permit
  <2> QED BY <2>1 DEF AcquireExecution, AdmissionBalanced
<1>7. KeysBalanced
  <2>1. \A k \in Key : KeyHolders(k)' = KeyHolders(k)
    BY <1>4, DropListSets DEF AcquireExecution, KeyHolders, SlotTypes, Holders, Holds, Permit
  <2> QED BY <2>1 DEF AcquireExecution, KeysBalanced
<1> QED BY <1>1, <1>2, <1>3, <1>5, <1>6, <1>7 DEF Balanced

LEMMA WakeStep ==
  ASSUME Slots, NEW r \in Request, Wake(r)
  PROVE  Slots' /\ Balanced
<1> USE DEF Slots
<1>1. SlotTypes'
  BY DEF Wake, SlotTypes, Stage
<1>2. Queued'
  BY DEF Wake, SlotTypes, Queued
<1>3. Calls'
  BY DEF Wake, SlotTypes, Calls
<1>5. ExecutionBalanced
  <2>1. Holders("execution")' = Holders("execution")
    BY DropListSets DEF Wake, SlotTypes, Holders, Holds, Permit
  <2> QED BY <2>1 DEF Wake, ExecutionBalanced
<1>6. AdmissionBalanced
  <2>1. Holders("admission")' = Holders("admission")
    BY DropListSets DEF Wake, SlotTypes, Holders, Holds, Permit
  <2> QED BY <2>1 DEF Wake, AdmissionBalanced
<1>7. KeysBalanced
  <2>1. \A k \in Key : KeyHolders(k)' = KeyHolders(k)
    BY DropListSets DEF Wake, KeyHolders, SlotTypes, Holders, Holds, Permit
  <2> QED BY <2>1 DEF Wake, KeysBalanced
<1> QED BY <1>1, <1>2, <1>3, <1>5, <1>6, <1>7 DEF Balanced

LEMMA QueueTimeoutStep ==
  ASSUME Slots, NEW r \in Request, QueueTimeout(r)
  PROVE  Slots' /\ Balanced
<1> USE DEF Slots
<1>0. drops[r] = << >> /\ stage[r] = "waiting" /\ waiters' = Unqueued(r)
  BY DEF QueueTimeout, Calls
<1>1. SlotTypes'
  BY <1>0, UnqueuedRest, DropListSets DEF QueueTimeout, SlotTypes, Stage
<1>2. Queued'
  <2>1. stage' = [stage EXCEPT ![r] = "refused"] /\ stage \in [Request -> Stage]
    BY DEF QueueTimeout, SlotTypes
  <2> QED BY Zenon, <1>0, <2>1, UnqueuedLeaves
<1>3. Calls'
  BY DEF QueueTimeout, SlotTypes, Calls
<1>5. ExecutionBalanced
  <2>1. Holders("execution")' = Holders("execution")
    BY Zenon, <1>0, DropListSets DEF QueueTimeout, SlotTypes, Holders, Holds, Permit
  <2> QED BY <2>1 DEF QueueTimeout, ExecutionBalanced
<1>6. AdmissionBalanced
  <2>1. Holders("admission")' = Holders("admission")
    BY <1>0, DropListSets DEF QueueTimeout, SlotTypes, Holders, Holds, Permit
  <2> QED BY <2>1 DEF QueueTimeout, AdmissionBalanced
<1>7. KeysBalanced
  <2>1. \A k \in Key : KeyHolders(k)' = KeyHolders(k)
    BY <1>0, DropListSets DEF QueueTimeout, KeyHolders, SlotTypes, Holders, Holds, Permit
  <2> QED BY <2>1 DEF QueueTimeout, KeysBalanced
<1> QED BY <1>1, <1>2, <1>3, <1>5, <1>6, <1>7 DEF Balanced

LEMMA CancelWaitingStep ==
  ASSUME Slots, NEW r \in Request, CancelWaiting(r)
  PROVE  Slots' /\ Balanced
<1> USE DEF Slots
<1>0. drops[r] = << >>
  BY DEF CancelWaiting, Calls
<1>1. waiters' \in Seq(Request) /\ Queued'
  <2>1. CASE stage[r] = "waiting"
    <3>1. /\ stage' = [stage EXCEPT ![r] = "dropping"] /\ stage \in [Request -> Stage]
          /\ waiters' = Unqueued(r)
      BY DEF CancelWaiting, SlotTypes
    <3> QED BY Zenon, <2>1, <3>1, UnqueuedRest, UnqueuedLeaves
  <2>2. CASE stage[r] = "assigned"
    BY <2>2 DEF CancelWaiting, Unqueued, SlotTypes, Queued
  <2> QED BY <2>1, <2>2 DEF CancelWaiting
<1>2. SlotTypes'
  BY <1>1, DropListSets DEF CancelWaiting, SlotTypes, Stage
<1>3. Calls'
  BY DEF CancelWaiting, SlotTypes, Calls
<1>5. ExecutionBalanced
  <2>1. Holders("execution")' = Holders("execution")
    BY <1>0, DropListSets DEF CancelWaiting, SlotTypes, Holders, Holds, Permit
  <2> QED BY <2>1 DEF CancelWaiting, ExecutionBalanced
<1>6. AdmissionBalanced
  <2>1. Holders("admission")' = Holders("admission")
    BY <1>0, DropListSets DEF CancelWaiting, SlotTypes, Holders, Holds, Permit
  <2> QED BY <2>1 DEF CancelWaiting, AdmissionBalanced
<1>7. KeysBalanced
  <2>1. \A k \in Key : KeyHolders(k)' = KeyHolders(k)
    BY <1>0, DropListSets DEF CancelWaiting, KeyHolders, SlotTypes, Holders, Holds, Permit
  <2> QED BY <2>1 DEF CancelWaiting, KeysBalanced
<1> QED BY <1>1, <1>2, <1>3, <1>5, <1>6, <1>7 DEF Balanced

LEMMA EndExecutionStep ==
  ASSUME Slots, NEW r \in Request, EndExecution(r)
  PROVE  Slots' /\ Balanced
<1> USE DEF Slots
<1>0. drops[r] = << >>
  BY DEF EndExecution, Calls
<1>1. SlotTypes'
  BY DropListSets DEF EndExecution, SlotTypes, Stage
<1>2. Queued'
  BY DEF EndExecution, SlotTypes, Queued
<1>3. Calls'
  BY DEF EndExecution, SlotTypes, Calls
<1>5. ExecutionBalanced
  <2>1. Holders("execution")' = Holders("execution")
    BY <1>0, DropListSets DEF EndExecution, SlotTypes, Holders, Holds, Permit
  <2> QED BY <2>1 DEF EndExecution, ExecutionBalanced
<1>6. AdmissionBalanced
  <2>1. Holders("admission")' = Holders("admission")
    BY <1>0, DropListSets DEF EndExecution, SlotTypes, Holders, Holds, Permit
  <2> QED BY <2>1 DEF EndExecution, AdmissionBalanced
<1>7. KeysBalanced
  <2>1. \A k \in Key : KeyHolders(k)' = KeyHolders(k)
    BY <1>0, DropListSets DEF EndExecution, KeyHolders, SlotTypes, Holders, Holds, Permit
  <2> QED BY <2>1 DEF EndExecution, KeysBalanced
<1> QED BY <1>1, <1>2, <1>3, <1>5, <1>6, <1>7 DEF Balanced

LEMMA EndedStep ==
  ASSUME Slots, NEW r \in Request, Ended(r)
  PROVE  Slots' /\ Balanced
<1> USE DEF Slots
<1>1. SlotTypes'
  BY DEF Ended, SlotTypes, Stage
<1>2. Queued'
  BY DEF Ended, SlotTypes, Queued
<1>3. Calls'
  BY DEF Ended, SlotTypes, Calls
<1>5. ExecutionBalanced
  <2>1. Holders("execution")' = Holders("execution")
    BY DropListSets DEF Ended, SlotTypes, Holders, Holds, Permit
  <2> QED BY <2>1 DEF Ended, ExecutionBalanced
<1>6. AdmissionBalanced
  <2>1. Holders("admission")' = Holders("admission")
    BY DropListSets DEF Ended, SlotTypes, Holders, Holds, Permit
  <2> QED BY <2>1 DEF Ended, AdmissionBalanced
<1>7. KeysBalanced
  <2>1. \A k \in Key : KeyHolders(k)' = KeyHolders(k)
    BY DropListSets DEF Ended, KeyHolders, SlotTypes, Holders, Holds, Permit
  <2> QED BY <2>1 DEF Ended, KeysBalanced
<1> QED BY <1>1, <1>2, <1>3, <1>5, <1>6, <1>7 DEF Balanced

LEMMA DropNextStep ==
  ASSUME Slots, NEW r \in Request, DropNext(r)
  PROVE  Slots' /\ Balanced
<1> USE DEF Slots
<1> DEFINE p == Head(drops[r])
<1>0. /\ stage[r] \in {"refused", "dropping"} /\ drops' = [drops EXCEPT ![r] = Tail(@)]
      /\ p \in Range(drops[r]) /\ p \in Permit /\ Tail(drops[r]) \in DropList
      /\ Range(drops'[r]) = Range(drops[r]) \ {p}
      /\ key' = key
  BY DropListTail DEF DropNext, SlotTypes
<1> HIDE DEF p
<1>1. CASE p = "key"
  <2>0. /\ key[r] \in Key /\ key_slots' = [key_slots EXCEPT ![key[r]] = @ + 1]
        /\ UNCHANGED <<stage, inference_admission, inference_slots, waiters>>
    BY <1>0, <1>1 DEF DropNext, p, Calls
  <2>1. SlotTypes' /\ Queued' /\ Calls'
    BY <1>0, <2>0 DEF SlotTypes, Queued, Calls
  <2>2. ExecutionBalanced /\ AdmissionBalanced
    <3>1. Holders("execution")' = Holders("execution") /\ Holders("admission")' = Holders("admission")
      BY <1>0, <1>1, <2>0 DEF SlotTypes, Holders, Holds, Permit
    <3> QED BY <2>0, <3>1 DEF ExecutionBalanced, AdmissionBalanced
  <2>3. ASSUME NEW k \in Key
        PROVE  key_slots'[k] + Cardinality(KeyHolders(k)') = key_slots[k] + Cardinality(KeyHolders(k))
    <3>1. CASE k = key[r]
      <4>1. /\ KeyHolders(k) \subseteq Request /\ r \in KeyHolders(k)
            /\ KeyHolders(k)' = KeyHolders(k) \ {r}
        BY <1>0, <1>1, <2>0, <3>1 DEF KeyHolders, SlotTypes, Holders, Holds, Permit
      <4>2. key_slots'[k] = key_slots[k] + 1 /\ key_slots[k] \in Nat
        BY <2>0, <3>1 DEF SlotTypes
      <4> QED BY <4>1, <4>2, CallCounts
    <3>2. CASE k # key[r]
      <4>1. KeyHolders(k)' = KeyHolders(k) /\ key_slots'[k] = key_slots[k]
        BY <1>0, <2>0, <3>2 DEF KeyHolders, SlotTypes, Holders, Holds, Permit
      <4> QED BY <4>1
    <3> QED BY <3>1, <3>2
  <2> QED BY <2>1, <2>2, <2>3 DEF Balanced, KeysBalanced
<1>2. CASE p = "admission"
  <2>0. /\ inference_admission' = inference_admission + 1
        /\ UNCHANGED <<stage, key_slots, inference_slots, waiters>>
    BY <1>0, <1>2 DEF DropNext, p
  <2>1. SlotTypes' /\ Queued' /\ Calls'
    BY <1>0, <2>0 DEF SlotTypes, Queued, Calls
  <2>2. ExecutionBalanced /\ KeysBalanced
    <3>1. Holders("execution")' = Holders("execution")
      BY <1>0, <1>2, <2>0 DEF SlotTypes, Holders, Holds, Permit
    <3>2. \A k \in Key : KeyHolders(k)' = KeyHolders(k)
      BY <1>0, <1>2, <2>0 DEF KeyHolders, SlotTypes, Holders, Holds, Permit
    <3> QED BY <2>0, <3>1, <3>2 DEF ExecutionBalanced, KeysBalanced
  <2>3. /\ Holders("admission") \subseteq Request /\ r \in Holders("admission")
        /\ Holders("admission")' = Holders("admission") \ {r}
    BY <1>0, <1>2, <2>0 DEF SlotTypes, Holders, Holds, Permit
  <2>4. AdmissionBalanced
    <3>1. inference_admission \in Nat
      BY DEF SlotTypes
    <3> QED BY <2>0, <2>3, <3>1, CallCounts DEF AdmissionBalanced
  <2> QED BY <2>1, <2>2, <2>4 DEF Balanced
<1>3. CASE p = "execution"
  <2>0. ReleaseExecution /\ UNCHANGED <<key_slots, inference_admission>>
    BY <1>0, <1>3 DEF DropNext, p
  <2>1. Holders("execution") \subseteq Request /\ r \in Holders("execution")
    BY <1>0, <1>3 DEF SlotTypes, Holders, Holds, Permit
  <2>2. CASE waiters = << >>
    <3>0. inference_slots' = inference_slots + 1 /\ UNCHANGED <<stage, waiters>>
      BY <2>0, <2>2 DEF ReleaseExecution
    <3>1. SlotTypes' /\ Queued' /\ Calls'
      BY <1>0, <2>0, <3>0 DEF SlotTypes, Queued, Calls
    <3>2. /\ Holders("admission")' = Holders("admission")
          /\ Holders("execution")' = Holders("execution") \ {r}
      BY <1>0, <1>3, <3>0 DEF SlotTypes, Holders, Holds, Permit
    <3>3. \A k \in Key : KeyHolders(k)' = KeyHolders(k)
      BY <1>0, <1>3, <3>0 DEF KeyHolders, SlotTypes, Holders, Holds, Permit
    <3>4. ExecutionBalanced
      <4>1. inference_slots \in Nat
        BY DEF SlotTypes
      <4> QED BY <2>1, <3>0, <3>2, <4>1, CallCounts DEF ExecutionBalanced
    <3> QED BY <2>0, <3>1, <3>2, <3>3, <3>4 DEF Balanced, AdmissionBalanced, KeysBalanced
  <2>3. CASE waiters # << >>
    <3> DEFINE h == Head(waiters)
    <3>0. /\ stage' = [stage EXCEPT ![h] = "assigned"] /\ waiters' = Tail(waiters)
          /\ inference_slots' = inference_slots
      BY <2>0, <2>3 DEF ReleaseExecution
    <3>1. /\ h \in Request /\ waiters' \in Seq(Request) /\ Len(waiters') = Len(waiters) - 1
          /\ Len(waiters) \in Nat \ {0} /\ h = waiters[1]
          /\ \A i \in 1..Len(waiters') : waiters'[i] = waiters[i + 1]
      BY SMTT(30), <2>3, <3>0, HeadTailProperties DEF SlotTypes
    <3> HIDE DEF h
    <3>2. h # r /\ stage[h] = "waiting" /\ drops[h] = << >>
      BY <1>0, <3>1 DEF Queued, Calls
    <3>3. SlotTypes'
      BY Zenon, <1>0, <2>0, <3>0, <3>1 DEF SlotTypes, Stage
    <3>4. Queued'
      <4>1. ASSUME NEW i \in 1..Len(waiters') PROVE stage'[waiters'[i]] = "waiting"
        BY <3>0, <3>1 DEF Queued, SlotTypes
      <4>2. ASSUME NEW q \in Request, stage'[q] = "waiting"
            PROVE  \E i \in 1..Len(waiters') : waiters'[i] = q
        <5>1. PICK j \in 1..Len(waiters) : waiters[j] = q
          BY <3>0, <4>2 DEF Queued, SlotTypes
        <5>2. j # 1
          BY <3>0, <3>1, <4>2, <5>1 DEF SlotTypes
        <5>3. j - 1 \in 1..Len(waiters') /\ waiters'[j - 1] = q
          BY <3>1, <5>1, <5>2
        <5> QED BY <5>3
      <4>3. \A i, j \in 1..Len(waiters') : waiters'[i] = waiters'[j] => i = j
        BY <3>1 DEF Queued
      <4> QED BY ZenonT(30), <4>1, <4>2, <4>3 DEF Queued
    <3>5. Calls'
      BY <1>0, <3>0, <3>2 DEF SlotTypes, Calls
    <3>6. /\ Holders("admission")' = Holders("admission")
          /\ h \notin Holders("execution")
          /\ Holders("execution")' = (Holders("execution") \ {r}) \cup {h}
      BY <1>0, <1>3, <3>0, <3>1, <3>2, DropListSets DEF SlotTypes, Holders, Holds, Permit
    <3>7. \A k \in Key : KeyHolders(k)' = KeyHolders(k)
      BY <1>0, <1>3, <3>0, <3>1, <3>2, DropListSets DEF KeyHolders, SlotTypes, Holders, Holds, Permit
    <3>8. ExecutionBalanced
      <4>1. Cardinality(Holders("execution") \ {r}) = Cardinality(Holders("execution")) - 1
        BY <2>1, CallCounts
      <4>2. Cardinality(Holders("execution")') = Cardinality(Holders("execution") \ {r}) + 1
        <5>1. Holders("execution") \ {r} \subseteq Request /\ h \notin Holders("execution") \ {r}
          BY <2>1, <3>6
        <5> QED BY <3>1, <3>6, <5>1, CallCounts
      <4>3. Cardinality(Holders("execution")) \in Nat
        BY Zenon, <2>1, CallCounts
      <4> QED BY <3>0, <4>1, <4>2, <4>3 DEF SlotTypes, ExecutionBalanced
    <3> QED BY <2>0, <3>3, <3>4, <3>5, <3>6, <3>7, <3>8 DEF Balanced, AdmissionBalanced, KeysBalanced
  <2> QED BY <2>2, <2>3
<1> QED BY <1>0, <1>1, <1>2, <1>3 DEF Permit

-----------------------------------------------------------------------------
LEMMA SlotsStepKeeps ==
  ASSUME Slots, NEW r \in Request, SlotsStep(r)
  PROVE  Slots' /\ Balanced
BY AcquireKeyStep, AcquireAdmissionStep, AcquireExecutionStep, WakeStep, QueueTimeoutStep,
   CancelWaitingStep, EndExecutionStep, DropNextStep, EndedStep DEF SlotsStep

(* Only inference_permits and the drops of its permits touch the            *)
(* semaphores, and the handler calls it with the key it authenticated.      *)
LEMMA HandlerStepsSlots ==
  ASSUME Handlers, Next
  PROVE  UNCHANGED slotVars \/ \E r \in Request : SlotsStep(r)
<1>1. ASSUME NEW r \in Request, RequestPermits(r) PROVE SlotsStep(r)
  <2>1. key_id[r] \in Key
    BY Zenon, <1>1 DEF RequestPermits, Handlers, Handled
  <2> QED BY Zenon, <1>1, <2>1 DEF RequestPermits, SlotsStep
<1>2. ASSUME NEW r \in Request, Refuse(r) \/ Close(r) PROVE SlotsStep(r)
  BY Zenon, <1>2 DEF Refuse, Close, SlotsStep
<1>3. ASSUME NEW r \in Request, DropPermits(r) PROVE SlotsStep(r)
  BY <1>3 DEF DropPermits, SlotsStep
<1>4. ASSUME NEW r \in Request, Unavailable(r) \/ BreakStream(r) \/ CompleteStream(r)
      PROVE  SlotsStep(r)
  BY Zenon, <1>4 DEF Unavailable, BreakStream, CompleteStream, EndStream, SlotsStep
<1>5. ASSUME NEW r \in Request, ClientGone(r) PROVE UNCHANGED slotVars \/ SlotsStep(r)
  BY <1>5 DEF ClientGone, SlotsStep
<1>6. ASSUME NEW r \in Request,
             \/ Authenticate(r) \/ ReadBody(r) \/ Forward(r) \/ Respond(r) \/ DoneChunk(r)
      PROVE  UNCHANGED slotVars
  BY Zenon, <1>6 DEF Authenticate, ReadBody, Forward, Respond, DoneChunk
<1>7. Done => UNCHANGED slotVars
  BY DEF Done, vars
<1> QED BY <1>1, <1>2, <1>3, <1>4, <1>5, <1>6, <1>7 DEF Next, Step

-----------------------------------------------------------------------------
(* A handler that a step leaves alone stays as it is.                       *)
OthersKept(r) ==
  \A q \in Request \ {r} :
    /\ phase'[q] = phase[q] /\ key_id'[q] = key_id[q] /\ usage'[q] = usage[q]
    /\ events'[q] = events[q] /\ kind'[q] = kind[q] /\ stream_done'[q] = stream_done[q]
    /\ ended'[q] = ended[q]

LEMMA HandledAlone ==
  ASSUME Handlers, NEW r \in Request, OthersKept(r), HandlerTypes', Handled(r)'
  PROVE  Handlers'
<1> SUFFICES ASSUME NEW q \in Request \ {r} PROVE Handled(q)'
  BY DEF Handlers
<1> QED BY ZenonT(30) DEF Handlers, Handled, OthersKept, Fresh, Relaying, Relayed

LEMMA AuthenticateHandled ==
  ASSUME Handlers, NEW r \in Request, Authenticate(r)
  PROVE  Handlers'
<1>1. HandlerTypes'
  BY Zenon DEF Authenticate, Goto, Handlers, HandlerTypes, Phase, Outcome, Kind, NoValue
<1>2. OthersKept(r)
  BY DEF Authenticate, Goto, Handlers, HandlerTypes, OthersKept
<1>3. Handled(r)'
  BY Zenon DEF Authenticate, Goto, Handlers, Handled, HandlerTypes, Fresh, Relaying,
         Relayed, Kind, Rewritten, NoValue
<1> QED BY <1>1, <1>2, <1>3, HandledAlone

LEMMA ReadBodyHandled ==
  ASSUME Handlers, NEW r \in Request, ReadBody(r)
  PROVE  Handlers'
<1>1. HandlerTypes'
  BY Zenon DEF ReadBody, Goto, Finish, Handlers, HandlerTypes, Phase, Outcome, Kind, NoValue
<1>2. OthersKept(r)
  BY DEF ReadBody, Goto, Finish, Handlers, HandlerTypes, OthersKept
<1>3. Handled(r)'
  BY Zenon DEF ReadBody, Goto, Finish, Handlers, Handled, HandlerTypes, Fresh,
         Relaying, Relayed, Kind, Rewritten, NoValue
<1> QED BY <1>1, <1>2, <1>3, HandledAlone

LEMMA RefuseHandled ==
  ASSUME Handlers, NEW r \in Request, Refuse(r)
  PROVE  Handlers'
<1>1. HandlerTypes'
  BY DEF Refuse, Goto, DropUsage, Over, Handlers, HandlerTypes, Phase, Outcome, Kind, NoValue
<1>2. OthersKept(r)
  BY DEF Refuse, Goto, DropUsage, Over, Handlers, HandlerTypes, OthersKept
<1>3. Handled(r)'
  BY Zenon DEF Refuse, Goto, DropUsage, Over, Handlers, Handled, HandlerTypes, Fresh,
         Relaying, Relayed, Kind, Rewritten, NoValue
<1> QED BY <1>1, <1>2, <1>3, HandledAlone

LEMMA ForwardHandled ==
  ASSUME Handlers, NEW r \in Request, Forward(r)
  PROVE  Handlers'
<1>1. HandlerTypes'
  BY DEF Forward, Goto, Handlers, HandlerTypes, Phase, Outcome, Kind, NoValue
<1>2. OthersKept(r)
  BY DEF Forward, Goto, Handlers, HandlerTypes, OthersKept
<1>3. Handled(r)'
  BY Zenon DEF Forward, Goto, Handlers, Handled, HandlerTypes, Fresh, Relaying,
         Relayed, Kind, Rewritten, NoValue
<1> QED BY <1>1, <1>2, <1>3, HandledAlone

LEMMA UnavailableHandled ==
  ASSUME Handlers, NEW r \in Request, Unavailable(r)
  PROVE  Handlers'
<1>1. HandlerTypes'
  BY Zenon DEF Unavailable, Goto, Finish, Handlers, HandlerTypes, Phase, Outcome, Kind, NoValue
<1>2. OthersKept(r)
  BY Zenon DEF Unavailable, Goto, Finish, Handlers, HandlerTypes, OthersKept
<1>3. Handled(r)'
  BY Zenon DEF Unavailable, Goto, Finish, Handlers, Handled, HandlerTypes, Fresh,
         Relaying, Relayed, Kind, Rewritten, NoValue
<1> QED BY <1>1, <1>2, <1>3, HandledAlone

LEMMA RespondHandled ==
  ASSUME Handlers, NEW r \in Request, Respond(r)
  PROVE  Handlers'
<1>1. HandlerTypes'
  BY DEF Respond, Goto, Handlers, HandlerTypes, Phase, Outcome, Kind, NoValue
<1>2. OthersKept(r)
  BY DEF Respond, Goto, Handlers, HandlerTypes, OthersKept
<1>3. Handled(r)'
  BY Zenon DEF Respond, Goto, Handlers, Handled, HandlerTypes, Fresh, Relaying,
         Relayed, Kind, Rewritten, NoValue
<1> QED BY <1>1, <1>2, <1>3, HandledAlone

LEMMA DoneChunkHandled ==
  ASSUME Handlers, NEW r \in Request, DoneChunk(r)
  PROVE  Handlers'
<1>1. HandlerTypes'
  BY DEF DoneChunk, Goto, Finish, Handlers, HandlerTypes, Phase, Outcome, Kind, NoValue
<1>2. OthersKept(r)
  BY DEF DoneChunk, Goto, Finish, Handlers, HandlerTypes, OthersKept
<1>3. Handled(r)'
  BY Zenon DEF DoneChunk, Goto, Finish, Handlers, Handled, HandlerTypes, Fresh,
         Relaying, Relayed, Kind, Rewritten, NoValue
<1> QED BY <1>1, <1>2, <1>3, HandledAlone

LEMMA BreakStreamHandled ==
  ASSUME Handlers, NEW r \in Request, BreakStream(r)
  PROVE  Handlers'
<1>1. HandlerTypes'
  BY Zenon DEF BreakStream, Goto, Finish, EndStream, Handlers, HandlerTypes, Phase, Outcome, Kind, NoValue
<1>2. OthersKept(r)
  BY Zenon DEF BreakStream, Goto, Finish, EndStream, Handlers, HandlerTypes, OthersKept
<1>3. Handled(r)'
  BY DEF BreakStream, Goto, Finish, EndStream, Handlers, Handled, HandlerTypes,
         Fresh, Relaying, Relayed, Kind, Rewritten, NoValue
<1> QED BY <1>1, <1>2, <1>3, HandledAlone

LEMMA CompleteStreamHandled ==
  ASSUME Handlers, NEW r \in Request, CompleteStream(r)
  PROVE  Handlers'
<1>1. HandlerTypes'
  BY Zenon DEF CompleteStream, Goto, Finish, EndStream, Handlers, HandlerTypes, Phase, Outcome, Kind, NoValue
<1>2. OthersKept(r)
  BY Zenon DEF CompleteStream, Goto, Finish, EndStream, Handlers, HandlerTypes, OthersKept
<1>3. Handled(r)'
  BY Zenon DEF CompleteStream, Goto, Finish, EndStream, Handlers, Handled,
         HandlerTypes, Fresh, Relaying, Relayed, Kind, Rewritten, NoValue
<1> QED BY <1>1, <1>2, <1>3, HandledAlone

LEMMA ClientGoneHandled ==
  ASSUME Handlers, NEW r \in Request, ClientGone(r)
  PROVE  Handlers'
<1>1. HandlerTypes'
  BY Zenon DEF ClientGone, Goto, Handlers, HandlerTypes, Phase, Outcome, Kind, NoValue
<1>2. OthersKept(r)
  BY Zenon DEF ClientGone, Goto, Handlers, HandlerTypes, OthersKept
<1>3. Handled(r)'
  BY ZenonT(30) DEF ClientGone, Goto, Handlers, Handled, HandlerTypes, Fresh, Relaying,
         Relayed, Kind, Rewritten, NoValue
<1> QED BY <1>1, <1>2, <1>3, HandledAlone

LEMMA CloseHandled ==
  ASSUME Handlers, NEW r \in Request, Close(r)
  PROVE  Handlers'
<1>1. HandlerTypes'
  BY DEF Close, Goto, DropUsage, Over, Handlers, HandlerTypes, Phase, Outcome, Kind, NoValue
<1>2. OthersKept(r)
  BY Zenon DEF Close, Goto, DropUsage, Over, Handlers, HandlerTypes, OthersKept
<1>3. Handled(r)'
  BY Zenon DEF Close, Goto, DropUsage, Over, Handlers, Handled, HandlerTypes, Fresh,
         Relaying, Relayed, Kind, Rewritten, NoValue
<1> QED BY <1>1, <1>2, <1>3, HandledAlone

LEMMA HandlersKept ==
  ASSUME Handlers, [Next]_vars
  PROVE  Handlers'
<1>1. CASE UNCHANGED reqVars
  BY ZenonT(30), <1>1 DEF Handlers, HandlerTypes, Handled, Fresh, Relaying, Relayed, reqVars
<1>2. ASSUME NEW r \in Request, RequestPermits(r) \/ DropPermits(r) PROVE UNCHANGED reqVars
  BY Zenon, <1>2 DEF RequestPermits, DropPermits
<1>3. Done \/ UNCHANGED vars => UNCHANGED reqVars
  BY DEF Done, vars
<1> QED BY SMTT(30), <1>1, <1>2, <1>3, AuthenticateHandled, ReadBodyHandled, RefuseHandled, ForwardHandled,
           UnavailableHandled, RespondHandled, DoneChunkHandled, BreakStreamHandled,
           CompleteStreamHandled, ClientGoneHandled, CloseHandled DEF Next, Step

-----------------------------------------------------------------------------
IInv == Slots /\ Handlers /\ SlotsConserved

LEMMA InitIInv == Init => IInv
<1> SUFFICES ASSUME Init PROVE IInv
  OBVIOUS
<1>1. SlotTypes
  BY DropListSets, SlotsAssumption DEF Init, SlotsInit, SlotTypes, Stage
<1>2. Queued /\ Calls
  BY DEF Init, SlotsInit, Queued, Calls
<1>3. Handlers
  BY DEF Init, Handlers, HandlerTypes, Handled, Fresh, Phase, NoValue
<1>4. /\ Holders("execution") = {} /\ Holders("admission") = {}
      /\ \A k \in Key : {r \in Holders("key") : key[r] = k} = {}
  BY DropListSets DEF Init, SlotsInit, Holders, Holds
<1>5. SlotsConserved
  <2>1. /\ Cardinality(Holders("execution")) = 0 /\ Cardinality(Holders("admission")) = 0
        /\ \A k \in Key : Cardinality({r \in Holders("key") : key[r] = k}) = 0
    BY <1>4, FS_EmptySet
  <2>2. /\ inference_slots = InferenceConcurrency
        /\ inference_admission = InferenceConcurrency + InferenceQueue
        /\ \A k \in Key : key_slots[k] = PerKeyConcurrency
    BY DEF Init, SlotsInit
  <2> QED BY <2>1, <2>2, SlotsAssumption DEF SlotsConserved
<1> QED BY <1>1, <1>2, <1>3, <1>5 DEF IInv, Slots

LEMMA NextIInv == IInv /\ [Next]_vars => IInv'
<1> SUFFICES ASSUME IInv, [Next]_vars PROVE IInv'
  OBVIOUS
<1>1. Handlers'
  BY HandlersKept DEF IInv
<1>2. CASE UNCHANGED slotVars
  <2>1. Slots'
    BY Zenon, <1>2 DEF IInv, Slots, SlotTypes, Queued, Calls, slotVars
  <2>2. Holders("execution")' = Holders("execution") /\ Holders("admission")' = Holders("admission")
    BY <1>2 DEF Holders, Holds, slotVars
  <2>3. \A k \in Key : {r \in Holders("key")' : key'[r] = k} = {r \in Holders("key") : key[r] = k}
    BY <1>2 DEF Holders, Holds, slotVars
  <2>4. SlotsConserved'
    BY Zenon, <1>2, <2>2, <2>3 DEF IInv, SlotsConserved, slotVars
  <2> QED BY <1>1, <2>1, <2>4 DEF IInv
<1>3. CASE \E r \in Request : SlotsStep(r)
  <2>1. Slots' /\ Balanced
    BY SMTT(30), <1>3, SlotsStepKeeps DEF IInv
  <2>2. SlotsConserved'
    BY Zenon, <2>1 DEF IInv, SlotsConserved, Balanced, ExecutionBalanced, AdmissionBalanced,
                KeysBalanced, KeyHolders
  <2> QED BY <1>1, <2>1, <2>2 DEF IInv
<1>4. UNCHANGED vars => UNCHANGED slotVars
  BY DEF vars
<1> QED BY <1>2, <1>3, <1>4, HandlerStepsSlots DEF IInv

(* No refusal, queue timeout, departure or end of a stream loses a permit   *)
(* of inference_permits or makes one up.                                    *)
THEOREM InferencePermitsConserved == Spec => []SlotsConserved
<1>1. IInv => SlotsConserved
  BY DEF IInv
<1> QED BY InitIInv, NextIInv, <1>1, PTL DEF Spec

(* inference_concurrency bounds the calls that run, and inference_queue     *)
(* those that run or wait, per_key_concurrency those of one key.            *)
InferenceLimits ==
  /\ Cardinality({r \in Request : stage[r] = "executing"}) <= InferenceConcurrency
  /\ Cardinality({r \in Request : stage[r] \in {"waiting", "assigned", "executing"}})
       <= InferenceConcurrency + InferenceQueue
  /\ \A k \in Key :
       Cardinality({r \in Request : stage[r] = "executing" /\ key[r] = k}) <= PerKeyConcurrency

LEMMA HeldWithin ==
  ASSUME NEW S, NEW T, S \subseteq T, T \subseteq Request, NEW n \in Nat, NEW m \in Nat,
         n + Cardinality(T) = m
  PROVE  Cardinality(S) <= m
<1>1. IsFiniteSet(T) /\ Cardinality(T) \in Nat /\ Cardinality(S) \in Nat /\ Cardinality(S) <= Cardinality(T)
  BY SlotsAssumption, FS_Subset, FS_CardinalityType
<1> QED BY <1>1

(* However requests are refused, queued, cancelled or relayed, none of      *)
(* these limits is ever exceeded.                                           *)
THEOREM InferenceLimitsHold == Spec => []InferenceLimits
<1>1. ASSUME IInv PROVE InferenceLimits
  <2>1. /\ inference_slots \in Nat /\ inference_admission \in Nat
        /\ \A k \in Key : key_slots[k] \in Nat
        /\ InferenceConcurrency \in Nat /\ PerKeyConcurrency \in Nat
        /\ InferenceConcurrency + InferenceQueue \in Nat
    BY <1>1, SlotsAssumption DEF IInv, Slots, SlotTypes
  <2>2. /\ {r \in Request : stage[r] = "executing"} \subseteq Holders("execution")
        /\ Holders("execution") \subseteq Request
    BY DEF Holders, Holds
  <2>3. /\ {r \in Request : stage[r] \in {"waiting", "assigned", "executing"}} \subseteq Holders("admission")
        /\ Holders("admission") \subseteq Request
    BY DEF Holders, Holds
  <2>4. ASSUME NEW k \in Key
        PROVE  /\ {r \in Request : stage[r] = "executing" /\ key[r] = k}
                    \subseteq {r \in Holders("key") : key[r] = k}
               /\ {r \in Holders("key") : key[r] = k} \subseteq Request
    BY DEF Holders, Holds
  <2>5. Cardinality({r \in Request : stage[r] = "executing"}) <= InferenceConcurrency
    BY Zenon, <1>1, <2>1, <2>2, HeldWithin DEF IInv, SlotsConserved
  <2>6. Cardinality({r \in Request : stage[r] \in {"waiting", "assigned", "executing"}})
          <= InferenceConcurrency + InferenceQueue
    BY <1>1, <2>1, <2>3, HeldWithin DEF IInv, SlotsConserved
  <2>7. ASSUME NEW k \in Key
        PROVE  Cardinality({r \in Request : stage[r] = "executing" /\ key[r] = k})
                 <= PerKeyConcurrency
    BY Zenon, <1>1, <2>1, <2>4, HeldWithin DEF IInv, SlotsConserved
  <2> QED BY <2>5, <2>6, <2>7 DEF InferenceLimits
<1> QED BY InitIInv, NextIInv, <1>1, PTL DEF Spec

LEMMA NoIdleKept ==
  ASSUME Slots, NoIdleSlotWhileWaiting, NEW r \in Request, SlotsStep(r)
  PROVE  NoIdleSlotWhileWaiting'
<1> USE DEF NoIdleSlotWhileWaiting
<1>1. ASSUME NEW k \in Key, AcquireKey(r, k) PROVE NoIdleSlotWhileWaiting'
  BY <1>1 DEF AcquireKey
<1>2. CASE AcquireExecution(r)
  BY <1>2 DEF AcquireExecution, Slots, SlotTypes
<1>3. CASE QueueTimeout(r) \/ CancelWaiting(r)
  <2>1. stage[r] \in {"waiting", "assigned"} /\ waiters' = Unqueued(r) /\ inference_slots' = inference_slots
    BY <1>3 DEF QueueTimeout, CancelWaiting
  <2>2. CASE stage[r] = "waiting"
    <3>1. waiters # << >>
      BY <2>2 DEF Slots, Queued
    <3> QED BY <2>1, <3>1
  <2>3. CASE stage[r] = "assigned"
    BY <2>1, <2>3 DEF Unqueued
  <2> QED BY <2>1, <2>2, <2>3
<1>4. CASE DropNext(r)
  BY <1>4 DEF DropNext, ReleaseExecution
<1>5. CASE AcquireAdmission(r) \/ Wake(r) \/ EndExecution(r) \/ Ended(r)
  BY <1>5 DEF AcquireAdmission, Wake, EndExecution, Ended
<1> QED BY <1>1, <1>2, <1>3, <1>4, <1>5 DEF SlotsStep

(* acquire_owned gives a released permit to a waiter whenever there is one, *)
(* also the permit of a waiter that was cancelled after it was assigned.    *)
THEOREM NoSlotIdles == Spec => []NoIdleSlotWhileWaiting
<1>1. Init => NoIdleSlotWhileWaiting
  BY DEF Init, SlotsInit, NoIdleSlotWhileWaiting
<1>2. IInv /\ NoIdleSlotWhileWaiting /\ [Next]_vars => NoIdleSlotWhileWaiting'
  <2>1. UNCHANGED vars \/ UNCHANGED slotVars => (NoIdleSlotWhileWaiting => NoIdleSlotWhileWaiting')
    BY DEF vars, slotVars, NoIdleSlotWhileWaiting
  <2> QED BY <2>1, NoIdleKept, HandlerStepsSlots DEF IInv
<1> QED BY InitIInv, NextIInv, <1>1, <1>2, PTL DEF Spec

(* What TruthfulOutcome says of one request in a step.                      *)
Truthful(r) ==
  events'[r] # events[r] =>
    LET outcome == events'[r][Len(events'[r])] IN
      /\ events[r] = << >>
      /\ outcome = "completed" <=> RelayedWhole(r)
      /\ outcome = "interrupted" <=>
           kind[r] # NoValue /\ ended[r] # NoValue /\ ~ RelayedWhole(r)
             /\ ~ (kind[r] = "error_status" /\ ended[r] = "eof")
      /\ outcome = "cancelled" => ended[r] = NoValue /\ phase[r] # "call"

LEMMA DropUsageTruthful ==
  ASSUME Handlers, NEW r \in Request, NEW o, DropUsage(r, o),
         \/ phase[r] = "call" /\ o = "failed"
         \/ phase[r] \in {"gone", "closing"} /\ o = usage[r]
  PROVE  \A q \in Request : Truthful(q)
<1>1. events[r] = << >> /\ events'[r] = Append(<< >>, o)
  BY Zenon DEF DropUsage, Handlers, HandlerTypes, Handled
<1>2. events'[r][Len(events'[r])] = o
  BY <1>1
<1>3. Truthful(r)
  BY Zenon, <1>1, <1>2 DEF Truthful, RelayedWhole, Handlers, HandlerTypes, Handled, Fresh, Relaying,
                    Relayed, Kind, NoValue
<1>4. ASSUME NEW q \in Request \ {r} PROVE events'[q] = events[q]
  BY DEF DropUsage, Handlers, HandlerTypes
<1> QED BY Zenon, <1>3, <1>4 DEF Truthful

(* The usage event of a request is pushed once, and tells how the response  *)
(* of that request really ended, whatever the order of end markers, errors, *)
(* timeouts and departures.                                                 *)
THEOREM UsageTruthful == Spec => TruthfulOutcome
<1>1. ASSUME IInv, [Next]_vars PROVE \A r \in Request : Truthful(r)
  <2>1. CASE UNCHANGED events
    BY Zenon, <2>1 DEF Truthful
  <2>2. ASSUME NEW r \in Request, Refuse(r) \/ Close(r) PROVE \A q \in Request : Truthful(q)
    <3>1. Handlers
      BY <1>1 DEF IInv
    <3>2. CASE Refuse(r)
      BY ZenonT(30), <3>1, <3>2, DropUsageTruthful DEF Refuse
    <3>3. CASE Close(r)
      BY SMTT(30), <3>1, <3>3, DropUsageTruthful DEF Close
    <3> QED BY <2>2, <3>2, <3>3
  <2>3. ASSUME NEW r \in Request,
               \/ Authenticate(r) \/ ReadBody(r) \/ RequestPermits(r) \/ Forward(r)
               \/ Unavailable(r) \/ Respond(r) \/ BreakStream(r) \/ CompleteStream(r)
               \/ DropPermits(r) \/ DoneChunk(r) \/ ClientGone(r)
        PROVE  UNCHANGED events
    BY Zenon, <2>3 DEF Authenticate, ReadBody, RequestPermits, Forward, Unavailable, Respond, BreakStream,
                CompleteStream, EndStream, DropPermits, DoneChunk, ClientGone, reqVars
  <2>4. Done \/ UNCHANGED vars => UNCHANGED events
    BY DEF Done, vars, reqVars
  <2> QED BY <1>1, <2>1, <2>2, <2>3, <2>4 DEF Next, Step
<1>2. IInv /\ [Next]_vars =>
      [\A r \in Request : events'[r] # events[r] =>
         LET outcome == events'[r][Len(events'[r])] IN
           /\ events[r] = << >>
           /\ outcome = "completed" <=> RelayedWhole(r)
           /\ outcome = "interrupted" <=>
                kind[r] # NoValue /\ ended[r] # NoValue /\ ~ RelayedWhole(r)
                  /\ ~ (kind[r] = "error_status" /\ ended[r] = "eof")
           /\ outcome = "cancelled" => ended[r] = NoValue /\ phase[r] # "call"]_vars
  BY Zenon, <1>1 DEF Truthful
<1> QED BY InitIInv, NextIInv, <1>2, PTL DEF Spec, TruthfulOutcome
=============================================================================
