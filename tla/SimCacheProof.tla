---------------------------- MODULE SimCacheProof ---------------------------
(***************************************************************************)
(* What is proved of the simulator's cache (SimCache): the host indices of *)
(* a prefetch are given back once.                                         *)
(***************************************************************************)
EXTENDS SimCache, WellFoundedInduction, TLAPS

(* Numbers of tokens of whole pages, up to all the pages of p.             *)
WholePages(p) == {PageSize * k : k \in 0..Len(Pages[p])}

(* A queue holds an operation once.                                        *)
Lines == {s \in Seq(Prefetch) : IsInjective(s)}
Where(q) == Range(queues[q])

CacheTypes ==
  /\ flavour \in {"off", "legacy", "unified"}
  /\ queues \in [prefetch : Lines, hits : Lines, ready : Lines, buffer : Lines,
                 revoked : Lines, backup : Seq(Prefetch), chunk : Prefetch \cup {NoOp}]
  /\ op \in [Prefetch -> [at : {"off", "live"}, len : Nat, hit : Nat, done : Nat,
                          terminated : BOOLEAN, taken : BOOLEAN]]
  /\ pass \in [at : {"idle", "query", "feed", "transfer", "events"}, round : {1, 2},
               dur : Nat, remain : Nat]

(* An operation is in one queue, or the chunked one, or in no hand.        *)
QueuesApart ==
  /\ \A q \in QueueNames : queues.chunk \notin Where(q)
  /\ \A q, r \in QueueNames : q # r => Where(q) \cap Where(r) = {}

(* What an operation looks like where it is.                               *)
OpOk(p) ==
  /\ op[p].len \in WholePages(p) /\ op[p].hit \in WholePages(p) /\ op[p].done <= 2 * op[p].len
  /\ op[p].at = "off" => op[p] = FreshOp /\ ~InHand(p)
  /\ flavour = "off" => op[p].at = "off"
  /\ op[p].taken => op[p].terminated
  /\ (op[p].at = "live" /\ ~InHand(p)) => op[p].terminated
  /\ (\E q \in QueueNames : p \in Where(q)) => op[p].done = 0
  /\ p \in Where("prefetch") => op[p].len = IF flavour = "legacy" THEN Want(p) ELSE 0
  /\ p \in Where("hits") \cup Where("revoked") => op[p].len = 0
  /\ p \in Where("hits") \cup Where("revoked") \cup Where("ready") => flavour = "unified"
  /\ p = queues.chunk => op[p].hit = op[p].len

(* While there is time left for transfers, no operation is chunked.        *)
PassOk == (pass.at \in {"feed", "transfer"} /\ pass.remain > 0) => queues.chunk = NoOp

(* Who gave back the i-th index: the scheduler what is complete, the query *)
(* of the legacy cache what is not stored, the controller the rest when it *)
(* lets go of the operation.                                               *)
Given(o, f, out, i) ==
  \/ o.taken /\ i <= o.done \div 2
  \/ f = "legacy" /\ i > o.len
  \/ out /\ o.done \div 2 < i /\ i <= o.len
GivenOk(p) ==
  given[p] = [i \in 1..Want(p) |-> IF op[p].at = "live" /\ Given(op[p], flavour, ~InHand(p), i) THEN 1 ELSE 0]

CacheInv ==
  /\ CacheTypes /\ QueuesApart /\ PassOk
  /\ given = [p \in Prefetch |-> given[p]]
  /\ \A p \in Prefetch : OpOk(p) /\ GivenOk(p)
-----------------------------------------------------------------------------
(* A set of naturals has a least element, a bounded one a greatest.        *)
LEMMA LeastNat ==
  ASSUME NEW T \in SUBSET Nat, T # {}
  PROVE  \E x \in T : \A y \in T : x <= y
<1>1. PICK R : R = {ss \in Nat \X Nat : ss[1] < ss[2]} /\ IsWellFoundedOn(R, Nat)
  BY NatLessThanWellFounded DEF OpToRel
<1>2. PICK x \in T : \A y \in T : ~ (<<y, x>> \in R)
  BY Zenon, <1>1, WFMin
<1>3. \A y \in T : ~(y < x)
  BY Zenon, <1>1, <1>2
<1> QED BY <1>3

LEMMA MinMember ==
  ASSUME NEW T \in SUBSET Nat, T # {}
  PROVE  Min(T) \in T /\ \A y \in T : Min(T) <= y
BY Zenon, LeastNat DEF Min

LEMMA MaxMember ==
  ASSUME NEW n \in Nat, NEW T \in SUBSET (0..n), T # {}
  PROVE  Max(T) \in T /\ \A y \in T : y <= Max(T)
<1>1. PICK U : U = {n - y : y \in T}
  BY Zenon
<1>2. U \in SUBSET Nat
  BY <1>1
<1>3. U # {}
  BY Zenon, <1>1
<1>4. PICK u \in U : \A v \in U : u <= v
  BY Zenon, <1>2, <1>3, LeastNat
<1>5. PICK x \in T : u = n - x
  BY Zenon, <1>1, <1>4
<1>6. \A y \in T : n - y \in U
  BY Zenon, <1>1
<1>7. \A y \in T : x >= y
  BY <1>4, <1>5, <1>6
<1> QED BY Zenon, <1>7 DEF Max

(* Whole pages.                                                            *)
LEMMA PageFacts ==
  ASSUME NEW p \in Prefetch
  PROVE  /\ Want(p) \in WholePages(p) /\ 0 \in WholePages(p)
         /\ \A n \in WholePages(p) : n \in Nat /\ n <= Want(p) /\ (n \div PageSize) * PageSize = n
<1>1. PageSize \in Nat \ {0} /\ Len(Pages[p]) \in Nat
  BY CacheAssumption DEF CacheAssumption
<1>2. \A k, m \in Nat : k <= m => PageSize * k \in Nat /\ PageSize * k <= PageSize * m
  BY <1>1
<1>3. \A k \in Nat : ((PageSize * k) \div PageSize) * PageSize = PageSize * k
  BY <1>1
<1> QED BY <1>1, <1>2, <1>3 DEF WholePages, Want

(* The storage is asked for whole pages of the operation.                  *)
LEMMA PrefixType ==
  ASSUME NEW p \in Prefetch
  PROVE  batch_exists(Pages[p]) \in 0..Len(Pages[p])
<1>1. Len(Pages[p]) \in Nat
  BY CacheAssumption DEF CacheAssumption
<1> DEFINE T == {n \in 0..Len(Pages[p]) : \A i \in 1..n : HasComponent(Pages[p], i, "kv")}
<1>2. 0 \in T
  BY <1>1
<1>3. Max(T) \in T
  BY Zenon, <1>1, <1>2, MaxMember
<1> QED BY Zenon, <1>3 DEF batch_exists

LEMMA BoundaryType ==
  ASSUME NEW p \in Prefetch, NEW pool, NEW policy
  PROVE  PoolBoundary(Pages[p], pool, policy) \in 0..Len(Pages[p])
<1>1. Len(Pages[p]) \in Nat
  BY CacheAssumption DEF CacheAssumption
<1>2. PICK n \in 0..Len(Pages[p]) : n = batch_exists(Pages[p])
  BY Zenon, PrefixType
<1> DEFINE T == {m \in 0..n : \A i \in 1..m : HasComponent(Pages[p], i, pool)}
           U == {0} \cup {m \in 1..n : HasComponent(Pages[p], m, pool)}
<1>3. n \in Nat /\ 0 \in T /\ T \in SUBSET (0..n) /\ 0 \in U /\ U \in SUBSET (0..n)
  BY <1>1, <1>2
<1>4. Max(T) \in 0..n /\ Max(U) \in 0..n
  BY Zenon, <1>3, MaxMember
<1>5. PoolBoundary(Pages[p], pool, policy) \in 0..n
  BY Zenon, <1>2, <1>4 DEF PoolBoundary
<1> QED BY <1>1, <1>2, <1>5

LEMMA HitType ==
  ASSUME NEW p \in Prefetch
  PROVE  storage_hit_query(p) \in WholePages(p)
<1>1. Len(Pages[p]) \in Nat
  BY CacheAssumption DEF CacheAssumption
<1> DEFINE T == {batch_exists(Pages[p])} \cup {PoolBoundary(Pages[p], t[1], t[2]) : t \in ExtraPools}
<1>2. T \in SUBSET (0..Len(Pages[p])) /\ T # {}
  BY Zenon, PrefixType, BoundaryType
<1>3. T \in SUBSET Nat
  <2>1. 0..Len(Pages[p]) \in SUBSET Nat
    BY <1>1
  <2> QED BY Zenon, <1>2, <2>1
<1>4. Min(T) \in T
  BY Zenon, <1>2, <1>3, MinMember
<1>5. batch_exists_v2(Pages[p]) \in 0..Len(Pages[p])
  BY Zenon, <1>2, <1>4 DEF batch_exists_v2
<1> QED BY Zenon, <1>5, PrefixType DEF storage_hit_query, WholePages

(* Queues.                                                                 *)
LEMMA InRange ==
  ASSUME NEW s, NEW i \in DOMAIN s
  PROVE  s[i] \in Range(s)
BY Zenon DEF Range

LEMMA TailLine ==
  ASSUME NEW s \in Lines, s # <<>>
  PROVE  /\ Head(s) \in Prefetch /\ Head(s) \in Range(s)
         /\ Tail(s) \in Lines /\ Range(Tail(s)) = Range(s) \ {Head(s)}
<1>1. s \in Seq(Prefetch) /\ Len(s) \in Nat \ {0} /\ \A i, j \in 1..Len(s) : s[i] = s[j] => i = j
  BY DEF Lines, IsInjective
<1>2. Head(s) = s[1] /\ s[1] \in Prefetch
  BY <1>1
<1>3. Tail(s) \in Seq(Prefetch) /\ Len(Tail(s)) = Len(s) - 1 /\ \A i \in 1..(Len(s) - 1) : Tail(s)[i] = s[i + 1]
  BY <1>1
<1>4. IsInjective(Tail(s))
  BY <1>1, <1>3 DEF IsInjective
<1>5. \A x \in Range(Tail(s)) : x \in Range(s) \ {s[1]}
  BY <1>1, <1>3 DEF Range
<1>6. \A x \in Range(s) \ {s[1]} : x \in Range(Tail(s))
  <2> SUFFICES ASSUME NEW i \in 1..Len(s), s[i] # s[1] PROVE s[i] \in Range(Tail(s))
    BY <1>1 DEF Range
  <2>1. i - 1 \in 1..(Len(s) - 1) /\ Tail(s)[i - 1] = s[i]
    BY <1>1, <1>3
  <2>2. i - 1 \in DOMAIN Tail(s)
    BY <1>3, <2>1
  <2> QED BY Zenon, <2>1, <2>2, InRange
<1>7. s[1] \in Range(s)
  BY <1>1 DEF Range
<1> QED BY Zenon, <1>2, <1>3, <1>4, <1>5, <1>6, <1>7 DEF Lines

LEMMA AppendLine ==
  ASSUME NEW s \in Lines, NEW p \in Prefetch, p \notin Range(s)
  PROVE  Append(s, p) \in Lines /\ Range(Append(s, p)) = Range(s) \cup {p}
<1>1. s \in Seq(Prefetch) /\ Len(s) \in Nat /\ \A i, j \in 1..Len(s) : s[i] = s[j] => i = j
  BY DEF Lines, IsInjective
<1>2. \A i \in 1..Len(s) : s[i] # p
  BY <1>1 DEF Range
<1>3. /\ Append(s, p) \in Seq(Prefetch) /\ Len(Append(s, p)) = Len(s) + 1
      /\ \A i \in 1..Len(s) : Append(s, p)[i] = s[i]
      /\ Append(s, p)[Len(s) + 1] = p
  BY <1>1
<1>4. IsInjective(Append(s, p))
  BY <1>1, <1>2, <1>3 DEF IsInjective
<1>5. Range(Append(s, p)) = Range(s) \cup {p}
  BY <1>1, <1>3 DEF Range
<1> QED BY Zenon, <1>3, <1>4, <1>5 DEF Lines

LEMMA ConcatLine ==
  ASSUME NEW s \in Lines, NEW t \in Lines, Range(s) \cap Range(t) = {}
  PROVE  s \o t \in Lines /\ Range(s \o t) = Range(s) \cup Range(t)
<1>1. /\ s \in Seq(Prefetch) /\ Len(s) \in Nat /\ \A i, j \in 1..Len(s) : s[i] = s[j] => i = j
      /\ t \in Seq(Prefetch) /\ Len(t) \in Nat /\ \A i, j \in 1..Len(t) : t[i] = t[j] => i = j
  BY DEF Lines, IsInjective
<1>2. \A i \in 1..Len(s), j \in 1..Len(t) : s[i] # t[j]
  BY <1>1 DEF Range
<1>3. /\ s \o t \in Seq(Prefetch) /\ Len(s \o t) = Len(s) + Len(t)
      /\ \A i \in 1..Len(s) : (s \o t)[i] = s[i]
      /\ \A i \in 1..(Len(s) + Len(t)) : i > Len(s) => (s \o t)[i] = t[i - Len(s)]
  BY <1>1
<1>4. IsInjective(s \o t)
  <2> SUFFICES ASSUME NEW i \in 1..(Len(s) + Len(t)), NEW j \in 1..(Len(s) + Len(t)), (s \o t)[i] = (s \o t)[j]
               PROVE  i = j
    BY <1>1, <1>3 DEF IsInjective
  <2> QED BY <1>1, <1>2, <1>3
<1>5. \A x \in Range(s \o t) : x \in Range(s) \cup Range(t)
  BY <1>1, <1>3 DEF Range
<1>6. /\ \A i \in DOMAIN s : i \in DOMAIN (s \o t) /\ s[i] = (s \o t)[i]
      /\ \A j \in DOMAIN t : Len(s) + j \in DOMAIN (s \o t) /\ t[j] = (s \o t)[Len(s) + j]
  BY <1>1, <1>3
<1>7. /\ \A i \in DOMAIN s : s[i] \in Range(s \o t)
      /\ \A j \in DOMAIN t : t[j] \in Range(s \o t)
  BY Zenon, <1>6, InRange
<1>8. Range(s) \cup Range(t) \subseteq Range(s \o t)
  BY Zenon, <1>7 DEF Range
<1> QED BY Zenon, <1>3, <1>4, <1>5, <1>8 DEF Lines


-----------------------------------------------------------------------------
(* A step that takes p out of where it is and puts it into b: a queue, the *)
(* chunked operation ("chunk") or nowhere ("out").                         *)
MovedTo(p, b) ==
  /\ \A q \in QueueNames : Range(queues'[q]) = IF q = b THEN Where(q) \cup {p} ELSE Where(q) \ {p}
  /\ queues'.chunk = IF b = "chunk" THEN p ELSE IF queues.chunk = p THEN NoOp ELSE queues.chunk

(* Operations that are where they were, and unchanged, are still all right. *)
LEMMA Unmoved ==
  ASSUME NEW r \in Prefetch, OpOk(r), GivenOk(r), op'[r] = op[r], given'[r] = given[r], flavour' = flavour,
         r = queues'.chunk <=> r = queues.chunk,
         \A q \in QueueNames : r \in Range(queues'[q]) <=> r \in Range(queues[q])
  PROVE  OpOk(r)' /\ GivenOk(r)'
<1>1. InHand(r)' <=> InHand(r)
  BY Zenon DEF InHand
<1>2. \A q \in QueueNames : r \in Where(q)' <=> r \in Where(q)
  BY Zenon DEF Where
<1>3. OpOk(r)'
  BY Zenon, <1>1, <1>2 DEF OpOk, QueueNames, WholePages, Want
<1>4. \A i : Given(op'[r], flavour', ~InHand(r)', i) <=> Given(op[r], flavour, ~InHand(r), i)
  BY Zenon, <1>1 DEF Given
<1>5. GivenOk(r)'
  BY Zenon, <1>4 DEF GivenOk, Want
<1> QED BY Zenon, <1>3, <1>5


LEMMA MovedWhere ==
  ASSUME NEW p \in Prefetch, NEW b \in QueueNames \cup {"chunk", "out"}, MovedTo(p, b)
  PROVE  /\ InHand(p)' <=> b # "out"
         /\ \A q \in QueueNames : p \in Where(q)' <=> q = b
         /\ p = queues'.chunk <=> b = "chunk"
<1>1. NoOp # p
  BY Zenon, CacheAssumption DEF CacheAssumption
<1>2. p = queues'.chunk <=> b = "chunk"
  BY Zenon, <1>1 DEF MovedTo
<1>3. \A q \in QueueNames : p \in Range(queues'[q]) <=> q = b
  BY Zenon DEF MovedTo
<1>4. "out" \notin QueueNames /\ "chunk" \notin QueueNames
  BY Zenon DEF QueueNames
<1>5. InHand(p)' <=> p = queues'.chunk \/ \E q \in QueueNames : p \in Range(queues'[q])
  BY Zenon DEF InHand
<1>6. InHand(p)' <=> b # "out"
  BY Zenon, <1>2, <1>3, <1>4, <1>5
<1> QED BY Zenon, <1>2, <1>3, <1>6 DEF Where

(* A move keeps the queues apart, and the other operations as they are.    *)
LEMMA MoveKeeps ==
  ASSUME CacheInv, NEW p \in Prefetch, NEW b \in QueueNames \cup {"chunk", "out"}, MovedTo(p, b),
         b = "chunk" => queues.chunk \in {NoOp, p},
         \A r \in Prefetch : r # p => op'[r] = op[r] /\ given'[r] = given[r],
         flavour' = flavour, OpOk(p)', GivenOk(p)', CacheTypes', PassOk',
         given' = [r \in Prefetch |-> given'[r]]
  PROVE  CacheInv'
<1>1. NoOp \notin Prefetch
  BY Zenon, CacheAssumption DEF CacheAssumption
<1>2. \A q \in QueueNames : Where(q)' = IF q = b THEN Where(q) \cup {p} ELSE Where(q) \ {p}
  BY Zenon DEF MovedTo, Where
<1>3. \A q, r \in QueueNames : q # r => Where(q)' \cap Where(r)' = {}
  <2> SUFFICES ASSUME NEW q \in QueueNames, NEW r \in QueueNames, q # r, NEW x, x \in Where(q)', x \in Where(r)'
               PROVE  FALSE
    BY Zenon
  <2>1. Where(q) \cap Where(r) = {}
    BY Zenon DEF CacheInv, QueuesApart
  <2>2. x # p
    BY <1>2
  <2>3. x \in Where(q) /\ x \in Where(r)
    BY <1>2, <2>2
  <2> QED BY Zenon, <2>1, <2>3
<1>4. \A q \in QueueNames : Where(q) \subseteq Prefetch
  <2> TAKE q \in QueueNames
  <2>1. queues[q] \in Seq(Prefetch)
    BY Zenon DEF CacheInv, CacheTypes, QueueNames, Lines
  <2> QED BY <2>1 DEF Where, Range
<1>5. \A q \in QueueNames : queues'.chunk \notin Where(q)'
  <2> TAKE q \in QueueNames
  <2>1. q # "chunk"
    BY Zenon DEF QueueNames
  <2>2. CASE b = "chunk"
    BY Zenon, <1>2, <2>1, <2>2 DEF MovedTo
  <2>3. CASE b # "chunk"
    <3>1. queues'.chunk # p /\ queues'.chunk \in {NoOp, queues.chunk}
      BY Zenon, <1>1, <2>3 DEF MovedTo
    <3>2. queues'.chunk \notin Where(q)
      BY Zenon, <1>1, <1>4, <3>1 DEF CacheInv, QueuesApart
    <3> QED BY Zenon, <1>2, <3>1, <3>2
  <2> QED BY Zenon, <2>2, <2>3
<1>6. \A r \in Prefetch : OpOk(r)' /\ GivenOk(r)'
  <2> SUFFICES ASSUME NEW r \in Prefetch, r # p PROVE OpOk(r)' /\ GivenOk(r)'
    BY Zenon
  <2>1. r = queues'.chunk <=> r = queues.chunk
    BY Zenon, <1>1 DEF MovedTo
  <2>2. \A q \in QueueNames : r \in Range(queues'[q]) <=> r \in Range(queues[q])
    <3> TAKE q \in QueueNames
    <3>1. Range(queues'[q]) = IF q = b THEN Range(queues[q]) \cup {p} ELSE Range(queues[q]) \ {p}
      BY Zenon DEF MovedTo, Where
    <3> QED BY <3>1
  <2>3. OpOk(r) /\ GivenOk(r)
    BY Zenon DEF CacheInv
  <2> QED BY Zenon, <2>1, <2>2, <2>3, Unmoved
<1>7. QueuesApart'
  BY Zenon, <1>3, <1>5 DEF QueuesApart
<1> QED BY Zenon, <1>6, <1>7 DEF CacheInv

(* The head of a queue moves.                                              *)
LEMMA HeadMoves ==
  ASSUME CacheTypes, QueuesApart, NEW a \in QueueNames, queues[a] # <<>>,
         NEW b \in QueueNames \cup {"chunk", "out"}, a # b,
         queues'.chunk = IF b = "chunk" THEN Head(queues[a]) ELSE queues.chunk,
         \A q \in QueueNames : queues'[q] = IF q = a THEN Tail(queues[q])
                                           ELSE IF q = b THEN Append(queues[q], Head(queues[a])) ELSE queues[q]
  PROVE  /\ Head(queues[a]) \in Prefetch /\ Head(queues[a]) \in Where(a) /\ MovedTo(Head(queues[a]), b)
         /\ \A q \in QueueNames : queues'[q] \in Lines
<1> DEFINE p == Head(queues[a])
<1>1. \A q \in QueueNames : queues[q] \in Lines
  BY DEF CacheTypes, QueueNames
<1>2. p \in Prefetch /\ p \in Where(a) /\ Tail(queues[a]) \in Lines /\ Range(Tail(queues[a])) = Where(a) \ {p}
  BY Zenon, <1>1, TailLine DEF Where
<1>3. p # queues.chunk /\ \A q \in QueueNames : q # a => p \notin Where(q)
  BY Zenon, <1>2 DEF QueuesApart
<1>4. b \in QueueNames => Append(queues[b], p) \in Lines /\ Range(Append(queues[b], p)) = Where(b) \cup {p}
  BY Zenon, <1>1, <1>2, <1>3, AppendLine DEF Where
<1>5. \A q \in QueueNames : queues'[q] \in Lines
  BY Zenon, <1>1, <1>2, <1>4
<1>6. \A q \in QueueNames : Range(queues'[q]) = IF q = b THEN Where(q) \cup {p} ELSE Where(q) \ {p}
  <2> TAKE q \in QueueNames
  <2>1. CASE q = a
    BY Zenon, <1>2, <2>1
  <2>2. CASE q = b
    BY Zenon, <1>4, <2>2
  <2>3. CASE q # a /\ q # b
    <3>1. Range(queues'[q]) = Where(q)
      BY Zenon, <2>3 DEF Where
    <3> QED BY Zenon, <1>3, <2>3, <3>1
  <2> QED BY Zenon, <2>1, <2>2, <2>3
<1>7. MovedTo(p, b)
  BY Zenon, <1>3, <1>6 DEF MovedTo
<1> QED BY Zenon, <1>2, <1>5, <1>7


(* What remains to be shown of the operation that moves.                   *)
LEMMA MovedOp ==
  ASSUME NEW p \in Prefetch, NEW b \in QueueNames \cup {"chunk", "out"}, MovedTo(p, b),
         op'[p].len \in WholePages(p), op'[p].hit \in WholePages(p), op'[p].done <= 2 * op'[p].len,
         op'[p].at = "live", flavour' # "off", op'[p].taken => op'[p].terminated,
         b = "out" => op'[p].terminated, b \in QueueNames => op'[p].done = 0,
         b = "prefetch" => op'[p].len = IF flavour' = "legacy" THEN Want(p) ELSE 0,
         b \in {"hits", "revoked"} => op'[p].len = 0, b \in {"hits", "revoked", "ready"} => flavour' = "unified",
         b = "chunk" => op'[p].hit = op'[p].len
  PROVE  OpOk(p)'
<1>1. /\ InHand(p)' <=> b # "out"
      /\ \A q \in QueueNames : p \in Where(q)' <=> q = b
      /\ p = queues'.chunk <=> b = "chunk"
  BY Zenon, MovedWhere
<1>2. WholePages(p)' = WholePages(p) /\ Want(p)' = Want(p)
  BY Zenon DEF WholePages, Want
<1>3. /\ p \in Where("prefetch")' <=> b = "prefetch"
      /\ p \in Where("hits")' <=> b = "hits"
      /\ p \in Where("revoked")' <=> b = "revoked"
      /\ p \in Where("ready")' <=> b = "ready"
  BY Zenon, <1>1 DEF QueueNames
<1>4. /\ op'[p].at # "off"
      /\ (\E q \in QueueNames : p \in Where(q)') => b \in QueueNames
  BY Zenon, <1>1
<1> QED BY Zenon, <1>1, <1>2, <1>3, <1>4 DEF OpOk

LEMMA MovedGiven ==
  ASSUME NEW p \in Prefetch, NEW b \in QueueNames \cup {"chunk", "out"}, MovedTo(p, b), op'[p].at = "live",
         given'[p] = [i \in 1..Want(p) |-> IF Given(op'[p], flavour', b = "out", i) THEN 1 ELSE 0]
  PROVE  GivenOk(p)'
<1>1. InHand(p)' <=> b # "out"
  BY Zenon, MovedWhere
<1>2. \A i : Given(op'[p], flavour', ~InHand(p)', i) <=> Given(op'[p], flavour', b = "out", i)
  BY Zenon, <1>1 DEF Given
<1>3. Want(p)' = Want(p)
  BY Zenon DEF Want
<1> QED BY Zenon, <1>2, <1>3 DEF GivenOk

(* What was given back of an operation in hand.                            *)
LEMMA InHandGiven ==
  ASSUME CacheInv, NEW p \in Prefetch, InHand(p)
  PROVE  /\ op[p].at = "live" /\ flavour \in {"legacy", "unified"}
         /\ given[p] = [i \in 1..Want(p) |-> IF Given(op[p], flavour, FALSE, i) THEN 1 ELSE 0]
<1>1. OpOk(p) /\ GivenOk(p) /\ op[p].at \in {"off", "live"} /\ flavour \in {"off", "legacy", "unified"}
  <2>1. OpOk(p) /\ GivenOk(p) /\ CacheTypes
    BY Zenon DEF CacheInv
  <2>2. op[p].at \in {"off", "live"}
    BY <2>1 DEF CacheTypes
  <2> QED BY Zenon, <2>1, <2>2 DEF CacheTypes
<1>2. op[p].at = "live"
  BY Zenon, <1>1 DEF OpOk
<1>3. \A i : Given(op[p], flavour, ~InHand(p), i) <=> Given(op[p], flavour, FALSE, i)
  BY Zenon DEF Given
<1>4. flavour \in {"legacy", "unified"}
  BY Zenon, <1>1, <1>2 DEF OpOk
<1> QED BY Zenon, <1>1, <1>2, <1>3, <1>4 DEF GivenOk


(* What a release adds to it.                                              *)
LEMMA Released ==
  ASSUME CacheInv, NEW p \in Prefetch, NEW out \in BOOLEAN, NEW from \in Nat, NEW to \in Nat, GiveBack(p, from, to),
         given[p] = [i \in 1..Want(p) |-> IF Given(op[p], flavour, out, i) THEN 1 ELSE 0]
  PROVE  /\ given'[p] = [i \in 1..Want(p) |-> IF Given(op[p], flavour, out, i)
                                             THEN IF from < i /\ i <= to THEN 2 ELSE 1
                                             ELSE IF from < i /\ i <= to THEN 1 ELSE 0]
         /\ \A r \in Prefetch : r # p => given'[r] = given[r]
         /\ given' = [r \in Prefetch |-> given'[r]]
<1>1. given[p] = [i \in 1..Want(p) |-> IF Given(op[p], flavour, out, i) THEN 1 ELSE 0]
  OBVIOUS
<1>2. given = [r \in Prefetch |-> given[r]]
  BY Zenon DEF CacheInv
<1> DEFINE new == [i \in DOMAIN given[p] |-> IF i \in (from + 1)..to THEN given[p][i] + 1 ELSE given[p][i]]
<1>3. given' = [given EXCEPT ![p] = new]
  BY Zenon DEF GiveBack
<1>4. given'[p] = new /\ \A r \in Prefetch : r # p => given'[r] = given[r]
  <2> HIDE DEF new
  <2> QED BY <1>2, <1>3
<1>5. given' = [r \in Prefetch |-> given'[r]]
  <2> HIDE DEF new
  <2> QED BY <1>2, <1>3
<1>6. DOMAIN given[p] = 1..Want(p)
  BY Zenon, <1>1
<1>7. Want(p) \in Nat
  BY PageFacts
<1>8. \A i \in 1..Want(p) : new[i] = IF Given(op[p], flavour, out, i)
                                    THEN IF from < i /\ i <= to THEN 2 ELSE 1
                                    ELSE IF from < i /\ i <= to THEN 1 ELSE 0
  <2> SUFFICES ASSUME NEW i \in 1..Want(p)
               PROVE  new[i] = IF Given(op[p], flavour, out, i)
                               THEN IF from < i /\ i <= to THEN 2 ELSE 1
                               ELSE IF from < i /\ i <= to THEN 1 ELSE 0
    BY Zenon
  <2>1. given[p][i] = IF Given(op[p], flavour, out, i) THEN 1 ELSE 0
    BY Zenon, <1>1
  <2>2. i \in (from + 1)..to <=> from < i /\ i <= to
    BY <1>7
  <2>3. new[i] = IF i \in (from + 1)..to THEN given[p][i] + 1 ELSE given[p][i]
    BY Zenon, <1>6
  <2>4. 1 + 1 = 2 /\ 0 + 1 = 1
    OBVIOUS
  <2> HIDE DEF new
  <2>5. CASE Given(op[p], flavour, out, i)
    BY Zenon, <2>1, <2>2, <2>3, <2>4, <2>5
  <2>6. CASE ~Given(op[p], flavour, out, i)
    BY Zenon, <2>1, <2>2, <2>3, <2>4, <2>6
  <2> QED BY Zenon, <2>5, <2>6
<1>9. new = [i \in 1..Want(p) |-> IF Given(op[p], flavour, out, i)
                                 THEN IF from < i /\ i <= to THEN 2 ELSE 1
                                 ELSE IF from < i /\ i <= to THEN 1 ELSE 0]
  <2>1. new = [i \in 1..Want(p) |-> new[i]]
    BY Zenon, <1>6
  <2> HIDE DEF new
  <2> QED BY Zenon, <1>8, <2>1
<1> QED BY Zenon, <1>4, <1>5, <1>9

(* An operation of the prefetch queue.                                     *)
LEMMA AtHead ==
  ASSUME CacheInv, NEW a \in QueueNames, queues[a] # <<>>
  PROVE  /\ Head(queues[a]) \in Prefetch /\ Head(queues[a]) \in Where(a) /\ InHand(Head(queues[a]))
         /\ OpOk(Head(queues[a])) /\ op[Head(queues[a])].done = 0
<1>1. queues[a] \in Lines
  BY DEF CacheInv, CacheTypes, QueueNames
<1>2. Head(queues[a]) \in Prefetch /\ Head(queues[a]) \in Where(a)
  BY Zenon, <1>1, TailLine DEF Where
<1>3. InHand(Head(queues[a])) /\ OpOk(Head(queues[a]))
  BY Zenon, <1>2 DEF InHand, Where, CacheInv
<1> QED BY Zenon, <1>2, <1>3 DEF OpOk


LEMMA ReleasedGiven ==
  ASSUME CacheInv, NEW p \in Prefetch, InHand(p), NEW from \in Nat, NEW to \in Nat, GiveBack(p, from, to),
         NEW b \in QueueNames \cup {"chunk", "out"}, MovedTo(p, b), op'[p].at = "live",
         \A i \in 1..Want(p) :
           /\ ~(Given(op[p], flavour, FALSE, i) /\ from < i /\ i <= to)
           /\ Given(op'[p], flavour', b = "out", i) <=> (Given(op[p], flavour, FALSE, i) \/ (from < i /\ i <= to))
  PROVE  /\ GivenOk(p)' /\ \A r \in Prefetch : r # p => given'[r] = given[r]
         /\ given' = [r \in Prefetch |-> given'[r]]
<1>1. /\ given'[p] = [i \in 1..Want(p) |-> IF Given(op[p], flavour, FALSE, i)
                                          THEN IF from < i /\ i <= to THEN 2 ELSE 1
                                          ELSE IF from < i /\ i <= to THEN 1 ELSE 0]
      /\ \A r \in Prefetch : r # p => given'[r] = given[r]
      /\ given' = [r \in Prefetch |-> given'[r]]
  <2>1. given[p] = [i \in 1..Want(p) |-> IF Given(op[p], flavour, FALSE, i) THEN 1 ELSE 0]
    BY Zenon, InHandGiven
  <2> QED BY Zenon, <2>1, Released
<1>2. \A i \in 1..Want(p) : (IF Given(op[p], flavour, FALSE, i)
                             THEN IF from < i /\ i <= to THEN 2 ELSE 1
                             ELSE IF from < i /\ i <= to THEN 1 ELSE 0)
                            = IF Given(op'[p], flavour', b = "out", i) THEN 1 ELSE 0
  <2> SUFFICES ASSUME NEW i \in 1..Want(p)
               PROVE  (IF Given(op[p], flavour, FALSE, i)
                       THEN IF from < i /\ i <= to THEN 2 ELSE 1
                       ELSE IF from < i /\ i <= to THEN 1 ELSE 0)
                      = IF Given(op'[p], flavour', b = "out", i) THEN 1 ELSE 0
    BY Zenon
  <2>1. CASE Given(op[p], flavour, FALSE, i)
    BY Zenon, <2>1
  <2>2. CASE ~Given(op[p], flavour, FALSE, i)
    <3>1. CASE from < i /\ i <= to
      BY Zenon, <2>2, <3>1
    <3>2. CASE ~(from < i /\ i <= to)
      BY Zenon, <2>2, <3>2
    <3> QED BY Zenon, <3>1, <3>2
  <2> QED BY Zenon, <2>1, <2>2
<1>3. given'[p] = [i \in 1..Want(p) |-> IF Given(op'[p], flavour', b = "out", i) THEN 1 ELSE 0]
  BY Zenon, <1>1, <1>2
<1>4. GivenOk(p)'
  BY Zenon, <1>3, MovedGiven
<1> QED BY Zenon, <1>1, <1>4

LEMMA KeptGiven ==
  ASSUME CacheInv, NEW p \in Prefetch, InHand(p), given' = given,
         NEW b \in QueueNames \cup {"chunk", "out"}, MovedTo(p, b), op'[p].at = "live",
         \A i \in 1..Want(p) : Given(op'[p], flavour', b = "out", i) <=> Given(op[p], flavour, FALSE, i)
  PROVE  /\ GivenOk(p)' /\ \A r \in Prefetch : r # p => given'[r] = given[r]
         /\ given' = [r \in Prefetch |-> given'[r]]
<1>1. given[p] = [i \in 1..Want(p) |-> IF Given(op[p], flavour, FALSE, i) THEN 1 ELSE 0]
  BY Zenon, InHandGiven
<1>2. given'[p] = [i \in 1..Want(p) |-> IF Given(op'[p], flavour', b = "out", i) THEN 1 ELSE 0]
  BY Zenon, <1>1
<1>3. GivenOk(p)'
  BY Zenon, <1>2, MovedGiven
<1>4. given' = [r \in Prefetch |-> given'[r]]
  BY Zenon DEF CacheInv
<1> QED BY Zenon, <1>3, <1>4


QueueTypes == [prefetch : Lines, hits : Lines, ready : Lines, buffer : Lines,
               revoked : Lines, backup : Seq(Prefetch), chunk : Prefetch \cup {NoOp}]

LEMMA Names ==
  /\ "prefetch" \in QueueNames /\ "hits" \in QueueNames /\ "ready" \in QueueNames
  /\ "buffer" \in QueueNames /\ "revoked" \in QueueNames
  /\ "chunk" \notin QueueNames /\ "out" \notin QueueNames
BY Zenon DEF QueueNames

LEMMA QueryKeeps ==
  ASSUME CacheInv, Query
  PROVE  CacheInv'
<1> DEFINE rest == [queues EXCEPT !.prefetch = Tail(@)]
<1>p. PICK p : p = Head(queues.prefetch)
  OBVIOUS
<1>h. PICK hit : hit = storage_hit_query(p)
  OBVIOUS
<1>1. CacheTypes /\ QueuesApart /\ queues.prefetch # <<>> /\ "prefetch" \in QueueNames
  BY Zenon DEF CacheInv, Query, QueueNames
<1>2. p \in Prefetch /\ p \in Where("prefetch") /\ InHand(p) /\ OpOk(p) /\ op[p].done = 0
  BY Zenon, <1>p, <1>1, AtHead
<1>3. /\ op[p].at = "live" /\ flavour \in {"legacy", "unified"}
      /\ op[p] \in [at : {"off", "live"}, len : Nat, hit : Nat, done : Nat, terminated : BOOLEAN, taken : BOOLEAN]
  <2>1. op[p] \in [at : {"off", "live"}, len : Nat, hit : Nat, done : Nat, terminated : BOOLEAN, taken : BOOLEAN]
    BY Zenon, <1>1, <1>2 DEF CacheTypes
  <2> QED BY Zenon, <1>2, <2>1, InHandGiven
<1>4. /\ hit \in WholePages(p) /\ hit \in Nat /\ hit <= Want(p)
      /\ Want(p) \in Nat /\ 0 \in WholePages(p) /\ Want(p) \in WholePages(p)
  BY Zenon, <1>h, <1>2, HitType, PageFacts
<1>5. /\ op[p].len = IF flavour = "legacy" THEN Want(p) ELSE 0
      /\ op[p].len \in WholePages(p) /\ op[p].hit \in WholePages(p) /\ (op[p].taken => op[p].terminated)
  BY Zenon, <1>2 DEF OpOk
<1>6. flavour' = flavour /\ pass' = pass /\ pass.at = "query" /\ QueryOne(p, rest)
  BY Zenon, <1>p DEF Query
<1>7. PassOk'
  BY Zenon, <1>6 DEF PassOk
<1>8. queues \in QueueTypes
  BY Zenon, <1>1 DEF CacheTypes, QueueTypes
<1>9. op \in [Prefetch -> [at : {"off", "live"}, len : Nat, hit : Nat, done : Nat,
                           terminated : BOOLEAN, taken : BOOLEAN]]
  BY Zenon, <1>1 DEF CacheTypes
<1>10. CASE flavour = "unified" /\ queues' = [rest EXCEPT !.revoked = Append(@, p)] /\ op' = op /\ given' = given
  <2>1. /\ queues'.chunk = queues.chunk
        /\ \A q \in QueueNames : queues'[q] = IF q = "prefetch" THEN Tail(queues[q])
                                  ELSE IF q = "revoked" THEN Append(queues[q], p) ELSE queues[q]
    BY <1>8, <1>10 DEF QueueTypes, QueueNames
  <2>2. MovedTo(p, "revoked") /\ \A q \in QueueNames : queues'[q] \in Lines
    BY <1>p, <1>1, <2>1, HeadMoves, Names
  <2>3. queues' \in QueueTypes
    BY Zenon, <1>8, <1>10, <2>2 DEF QueueTypes, QueueNames
  <2>4. CacheTypes'
    BY Zenon, <1>1, <1>6, <1>10, <2>3 DEF CacheTypes, QueueTypes
  <2>5. OpOk(p)'
    BY <1>2, <1>3, <1>4, <1>5, <1>6, <1>10, <2>2, MovedOp, Names
  <2>6. /\ GivenOk(p)' /\ \A r \in Prefetch : r # p => given'[r] = given[r]
        /\ given' = [r \in Prefetch |-> given'[r]]
    <3>1. \A i \in 1..Want(p) : Given(op'[p], flavour', "revoked" = "out", i) <=> Given(op[p], flavour, FALSE, i)
      BY Zenon, <1>6, <1>10 DEF Given
    <3> QED BY Zenon, <1>2, <1>3, <1>10, <2>2, <3>1, KeptGiven, Names
  <2> QED BY Zenon, <1>2, <1>6, <1>7, <1>10, <2>2, <2>4, <2>5, <2>6, MoveKeeps, Names
<1>11. CASE /\ flavour = "legacy" /\ queues' = rest /\ append_host_mem_release(p, 0)
            /\ op' = [op EXCEPT ![p].terminated = TRUE]
  <2>1. /\ queues'.chunk = queues.chunk
        /\ \A q \in QueueNames : queues'[q] = IF q = "prefetch" THEN Tail(queues[q])
                                  ELSE IF q = "out" THEN Append(queues[q], p) ELSE queues[q]
    BY <1>8, <1>11 DEF QueueTypes, QueueNames
  <2>2. MovedTo(p, "out") /\ \A q \in QueueNames : queues'[q] \in Lines
    BY <1>p, <1>1, <2>1, HeadMoves, Names
  <2>3. queues' \in QueueTypes
    BY Zenon, <1>8, <1>11, <2>2 DEF QueueTypes, QueueNames
  <2>4. /\ op'[p].at = "live" /\ op'[p].len = Want(p) /\ op'[p].hit = op[p].hit /\ op'[p].done = 0
        /\ op'[p].terminated /\ op'[p].taken = op[p].taken /\ \A r \in Prefetch : r # p => op'[r] = op[r]
    BY <1>2, <1>3, <1>5, <1>9, <1>11
  <2>5. CacheTypes'
    <3>1. op' \in [Prefetch -> [at : {"off", "live"}, len : Nat, hit : Nat, done : Nat,
                                terminated : BOOLEAN, taken : BOOLEAN]]
      BY Zenon, <1>2, <1>9, <1>11
    <3> QED BY Zenon, <1>1, <1>6, <2>3, <3>1 DEF CacheTypes, QueueTypes
  <2>6. OpOk(p)'
    <3>1. op'[p].done <= 2 * op'[p].len
      BY <1>4, <2>4
    <3> QED BY Zenon, <1>2, <1>4, <1>5, <1>6, <1>11, <2>2, <2>4, <3>1, MovedOp, Names
  <2>7. /\ GivenOk(p)' /\ \A r \in Prefetch : r # p => given'[r] = given[r]
        /\ given' = [r \in Prefetch |-> given'[r]]
    <3>1. \A i \in 1..Want(p) :
           /\ ~(Given(op[p], flavour, FALSE, i) /\ 0 < i /\ i <= Want(p))
           /\ Given(op'[p], flavour', "out" = "out", i) <=> (Given(op[p], flavour, FALSE, i) \/ (0 < i /\ i <= Want(p)))
      BY <1>2, <1>4, <1>5, <1>6, <1>11, <2>4 DEF Given
    <3>2. GiveBack(p, 0, Want(p)) /\ 0 \in Nat
      BY Zenon, <1>5, <1>11 DEF append_host_mem_release
    <3> QED BY Zenon, <1>2, <1>4, <2>2, <2>4, <3>1, <3>2, ReleasedGiven
  <2> QED BY Zenon, <1>2, <1>6, <1>7, <2>2, <2>4, <2>5, <2>6, <2>7, MoveKeeps
<1>12. CASE /\ flavour = "unified" /\ queues' = [rest EXCEPT !.hits = Append(@, p)] /\ given' = given
            /\ op' = [op EXCEPT ![p].hit = hit]
  <2>1. /\ queues'.chunk = queues.chunk
        /\ \A q \in QueueNames : queues'[q] = IF q = "prefetch" THEN Tail(queues[q])
                                  ELSE IF q = "hits" THEN Append(queues[q], p) ELSE queues[q]
    BY <1>8, <1>12 DEF QueueTypes, QueueNames
  <2>2. MovedTo(p, "hits") /\ \A q \in QueueNames : queues'[q] \in Lines
    BY <1>p, <1>1, <2>1, HeadMoves, Names
  <2>3. queues' \in QueueTypes
    BY Zenon, <1>8, <1>12, <2>2 DEF QueueTypes, QueueNames
  <2>4. /\ op'[p].at = "live" /\ op'[p].len = 0 /\ op'[p].hit = hit /\ op'[p].done = 0
        /\ op'[p].terminated = op[p].terminated /\ op'[p].taken = op[p].taken
        /\ \A r \in Prefetch : r # p => op'[r] = op[r]
    BY <1>2, <1>3, <1>5, <1>9, <1>12
  <2>5. CacheTypes'
    <3>1. op' \in [Prefetch -> [at : {"off", "live"}, len : Nat, hit : Nat, done : Nat,
                                terminated : BOOLEAN, taken : BOOLEAN]]
      BY <1>2, <1>4, <1>9, <1>12
    <3> QED BY Zenon, <1>1, <1>6, <2>3, <3>1 DEF CacheTypes, QueueTypes
  <2>6. OpOk(p)'
    <3>1. op'[p].done <= 2 * op'[p].len
      BY <2>4
    <3> QED BY Zenon, <1>2, <1>4, <1>5, <1>6, <1>12, <2>2, <2>4, <3>1, MovedOp, Names
  <2>7. /\ GivenOk(p)' /\ \A r \in Prefetch : r # p => given'[r] = given[r]
        /\ given' = [r \in Prefetch |-> given'[r]]
    <3>1. \A i \in 1..Want(p) : Given(op'[p], flavour', "hits" = "out", i) <=> Given(op[p], flavour, FALSE, i)
      BY Zenon, <1>2, <1>6, <1>12, <2>4 DEF Given
    <3> QED BY Zenon, <1>2, <1>12, <2>2, <2>4, <3>1, KeptGiven, Names
  <2> QED BY Zenon, <1>2, <1>6, <1>7, <2>2, <2>4, <2>5, <2>6, <2>7, MoveKeeps, Names
<1>13. CASE /\ flavour = "legacy" /\ queues' = [rest EXCEPT !.buffer = Append(@, p)] /\ append_host_mem_release(p, hit)
            /\ ~op[p].terminated /\ op' = [op EXCEPT ![p].len = hit]
  <2>1. /\ queues'.chunk = queues.chunk
        /\ \A q \in QueueNames : queues'[q] = IF q = "prefetch" THEN Tail(queues[q])
                                  ELSE IF q = "buffer" THEN Append(queues[q], p) ELSE queues[q]
    BY <1>8, <1>13 DEF QueueTypes, QueueNames
  <2>2. MovedTo(p, "buffer") /\ \A q \in QueueNames : queues'[q] \in Lines
    BY <1>p, <1>1, <2>1, HeadMoves, Names
  <2>3. queues' \in QueueTypes
    BY Zenon, <1>8, <1>13, <2>2 DEF QueueTypes, QueueNames
  <2>4. /\ op'[p].at = "live" /\ op'[p].len = hit /\ op'[p].hit = op[p].hit /\ op'[p].done = 0
        /\ op'[p].terminated = op[p].terminated /\ op'[p].taken = op[p].taken
        /\ \A r \in Prefetch : r # p => op'[r] = op[r]
    BY <1>2, <1>3, <1>9, <1>13
  <2>5. CacheTypes'
    <3>1. op' \in [Prefetch -> [at : {"off", "live"}, len : Nat, hit : Nat, done : Nat,
                                terminated : BOOLEAN, taken : BOOLEAN]]
      BY <1>2, <1>4, <1>9, <1>13
    <3> QED BY Zenon, <1>1, <1>6, <2>3, <3>1 DEF CacheTypes, QueueTypes
  <2>6. OpOk(p)'
    <3>1. op'[p].done <= 2 * op'[p].len
      BY <1>4, <2>4
    <3> QED BY Zenon, <1>2, <1>4, <1>5, <1>6, <1>13, <2>2, <2>4, <3>1, MovedOp, Names
  <2>7. /\ GivenOk(p)' /\ \A r \in Prefetch : r # p => given'[r] = given[r]
        /\ given' = [r \in Prefetch |-> given'[r]]
    <3>1. \A i \in 1..Want(p) :
           /\ ~(Given(op[p], flavour, FALSE, i) /\ hit < i /\ i <= Want(p))
           /\ Given(op'[p], flavour', "buffer" = "out", i) <=> (Given(op[p], flavour, FALSE, i) \/ (hit < i /\ i <= Want(p)))
      BY <1>2, <1>4, <1>5, <1>6, <1>13, <2>4 DEF Given
    <3>2. GiveBack(p, hit, Want(p))
      BY Zenon, <1>5, <1>13 DEF append_host_mem_release
    <3> QED BY Zenon, <1>2, <1>4, <2>2, <2>4, <3>1, <3>2, ReleasedGiven, Names
  <2> QED BY Zenon, <1>2, <1>6, <1>7, <2>2, <2>4, <2>5, <2>6, <2>7, MoveKeeps, Names
<1> QED BY Zenon, <1>h, <1>6, <1>10, <1>11, <1>12, <1>13 DEF QueryOne

(* Steps that leave the operations and their queues alone.                 *)
LEMMA SameKeeps ==
  ASSUME CacheInv, CacheTypes', PassOk', flavour' = flavour, op' = op, given' = given,
         queues'.chunk = queues.chunk, \A q \in QueueNames : queues'[q] = queues[q]
  PROVE  CacheInv'
<1>1. \A q \in QueueNames : Where(q)' = Where(q)
  BY Zenon DEF Where
<1>2. QueuesApart'
  BY Zenon, <1>1 DEF CacheInv, QueuesApart
<1>3. \A r \in Prefetch : OpOk(r)' /\ GivenOk(r)'
  <2> TAKE r \in Prefetch
  <2>1. OpOk(r) /\ GivenOk(r)
    BY Zenon DEF CacheInv
  <2> QED BY Zenon, <2>1, Unmoved
<1> QED BY Zenon, <1>2, <1>3 DEF CacheInv

LEMMA IdleKeeps ==
  ASSUME CacheInv, \/ clear \/ EndHandler \/ RunAgain \/ (\E r \in Prefetch : Backup(r))
                   \/ \E dur \in 0..MaxDur : BeginPass(dur)
  PROVE  CacheInv'
<1>1. CacheTypes /\ PassOk /\ queues \in QueueTypes
  BY Zenon DEF CacheInv, CacheTypes, QueueTypes
<1>2. pass \in [at : {"idle", "query", "feed", "transfer", "events"}, round : {1, 2}, dur : Nat, remain : Nat]
  BY Zenon, <1>1 DEF CacheTypes
<1>3. CASE clear
  <2>1. CacheTypes' /\ PassOk'
    BY Zenon, <1>1, <1>3 DEF clear, CacheTypes, PassOk
  <2> QED BY Zenon, <1>3, <2>1, SameKeeps DEF clear
<1>4. CASE EndHandler
  <2>1. pass' \in [at : {"idle", "query", "feed", "transfer", "events"}, round : {1, 2}, dur : Nat, remain : Nat]
        /\ pass'.at \notin {"feed", "transfer"}
    BY <1>2, <1>4 DEF EndHandler, NoPass
  <2>2. CacheTypes' /\ PassOk'
    BY Zenon, <1>1, <1>4, <2>1 DEF EndHandler, CacheTypes, PassOk
  <2> QED BY Zenon, <1>4, <2>2, SameKeeps DEF EndHandler
<1>5. CASE RunAgain
  <2>1. pass' \in [at : {"idle", "query", "feed", "transfer", "events"}, round : {1, 2}, dur : Nat, remain : Nat]
        /\ pass'.at \notin {"feed", "transfer"}
    BY Zenon, <1>2, <1>5 DEF RunAgain
  <2>2. CacheTypes' /\ PassOk'
    BY Zenon, <1>1, <1>5, <2>1 DEF RunAgain, CacheTypes, PassOk
  <2> QED BY Zenon, <1>5, <2>2, SameKeeps DEF RunAgain
<1>6. CASE \E r \in Prefetch : Backup(r)
  <2>1. PICK r \in Prefetch : Backup(r)
    BY Zenon, <1>6
  <2>2. queues' = [queues EXCEPT !.backup = <<r>>]
    BY Zenon, <2>1 DEF Backup
  <2>3. queues' \in QueueTypes /\ queues'.chunk = queues.chunk /\ \A q \in QueueNames : queues'[q] = queues[q]
    <3>1. <<r>> \in Seq(Prefetch)
      OBVIOUS
    <3>2. PICK x \in Seq(Prefetch) : queues' = [queues EXCEPT !.backup = x]
      BY Zenon, <2>2, <3>1
    <3> QED BY <1>1, <3>2 DEF QueueTypes, QueueNames
  <2>4. CacheTypes' /\ PassOk'
    BY Zenon, <1>1, <2>1, <2>3 DEF Backup, CacheTypes, QueueTypes, PassOk
  <2> QED BY Zenon, <2>1, <2>3, <2>4, SameKeeps DEF Backup
<1>7. CASE \E dur \in 0..MaxDur : BeginPass(dur)
  <2>1. PICK dur \in 0..MaxDur : BeginPass(dur)
    BY Zenon, <1>7
  <2>2. /\ queues' = [queues EXCEPT !.backup = <<>>]
        /\ pass' = [at |-> "query", round |-> 1, dur |-> dur, remain |-> dur]
    BY Zenon, <2>1 DEF BeginPass
  <2>3. queues' \in QueueTypes /\ queues'.chunk = queues.chunk /\ \A q \in QueueNames : queues'[q] = queues[q]
    <3>1. <<>> \in Seq(Prefetch)
      OBVIOUS
    <3>2. PICK x \in Seq(Prefetch) : queues' = [queues EXCEPT !.backup = x]
      BY Zenon, <2>2, <3>1
    <3> QED BY <1>1, <3>2 DEF QueueTypes, QueueNames
  <2>4. pass' \in [at : {"idle", "query", "feed", "transfer", "events"}, round : {1, 2}, dur : Nat, remain : Nat]
        /\ pass'.at \notin {"feed", "transfer"}
    BY <2>2, CacheAssumption DEF CacheAssumption
  <2>5. CacheTypes' /\ PassOk'
    BY Zenon, <1>1, <2>1, <2>3, <2>4 DEF BeginPass, CacheTypes, QueueTypes, PassOk
  <2> QED BY Zenon, <2>1, <2>3, <2>5, SameKeeps DEF BeginPass
<1> QED BY Zenon, <1>3, <1>4, <1>5, <1>6, <1>7


(* The scheduler's steps.                                                  *)
LEMMA IssueKeeps ==
  ASSUME CacheInv, NEW p \in Prefetch, Issue(p)
  PROVE  CacheInv'
<1>1. CacheTypes /\ QueuesApart /\ queues \in QueueTypes /\ OpOk(p) /\ GivenOk(p)
  BY Zenon DEF CacheInv, CacheTypes, QueueTypes
<1>2. /\ op[p].at = "off" /\ op[p] = FreshOp /\ ~InHand(p) /\ pass' = pass /\ pass.at = "idle"
      /\ flavour' = flavour /\ flavour # "off" /\ given' = given
  BY Zenon, <1>1 DEF Issue, Free, OpOk
<1>3. /\ op' = [op EXCEPT ![p].at = "live", ![p].len = IF flavour = "legacy" THEN Want(p) ELSE 0]
      /\ queues' = [queues EXCEPT !.prefetch = Append(@, p)]
  BY Zenon DEF Issue
<1>4. op \in [Prefetch -> [at : {"off", "live"}, len : Nat, hit : Nat, done : Nat,
                           terminated : BOOLEAN, taken : BOOLEAN]]
  BY Zenon, <1>1 DEF CacheTypes
<1>5. Want(p) \in Nat /\ Want(p) \in WholePages(p) /\ 0 \in WholePages(p)
  BY Zenon, PageFacts
<1>6. p # queues.chunk /\ \A q \in QueueNames : p \notin Where(q)
  BY Zenon, <1>2 DEF InHand, Where
<1>7. /\ Append(queues.prefetch, p) \in Lines
      /\ Range(Append(queues.prefetch, p)) = Where("prefetch") \cup {p}
  <2>1. queues.prefetch \in Lines /\ p \notin Range(queues.prefetch)
    BY <1>1, <1>6, Names DEF QueueTypes, Where
  <2> QED BY Zenon, <2>1, AppendLine DEF Where
<1>8. PICK x \in Lines : x = Append(queues.prefetch, p)
  BY Zenon, <1>7
<1>9. /\ queues' \in QueueTypes /\ queues'.chunk = queues.chunk
      /\ \A q \in QueueNames : queues'[q] = IF q = "prefetch" THEN x ELSE queues[q]
  BY Zenon, <1>1, <1>3, <1>8 DEF QueueTypes, QueueNames
<1>10. MovedTo(p, "prefetch")
  <2>1. \A q \in QueueNames : Range(queues'[q]) = IF q = "prefetch" THEN Where(q) \cup {p} ELSE Where(q) \ {p}
    <3> TAKE q \in QueueNames
    <3>1. CASE q = "prefetch"
      BY Zenon, <1>7, <1>8, <1>9, <3>1
    <3>2. CASE q # "prefetch"
      <4>1. Range(queues'[q]) = Where(q)
        BY Zenon, <1>9, <3>2 DEF Where
      <4> QED BY Zenon, <1>6, <3>2, <4>1
    <3> QED BY Zenon, <3>1, <3>2
  <2> QED BY Zenon, <1>6, <1>9, <2>1 DEF MovedTo
<1>11. /\ op'[p].at = "live" /\ op'[p].len = (IF flavour = "legacy" THEN Want(p) ELSE 0) /\ op'[p].hit = 0
       /\ op'[p].done = 0 /\ op'[p].terminated = FALSE /\ op'[p].taken = FALSE
       /\ \A r \in Prefetch : r # p => op'[r] = op[r]
  BY <1>2, <1>3, <1>4 DEF FreshOp
<1>12. CacheTypes' /\ PassOk'
  <2>1. op' \in [Prefetch -> [at : {"off", "live"}, len : Nat, hit : Nat, done : Nat,
                              terminated : BOOLEAN, taken : BOOLEAN]]
    BY ZenonT(30), <1>3, <1>4, <1>5
  <2> QED BY Zenon, <1>1, <1>2, <1>9, <2>1 DEF CacheTypes, QueueTypes, PassOk
<1>13. OpOk(p)'
  <2>1. op'[p].len \in WholePages(p)
    BY Zenon, <1>5, <1>11
  <2>2. op'[p].done <= 2 * op'[p].len
    BY <1>5, <1>11
  <2> QED BY Zenon, <1>2, <1>5, <1>10, <1>11, <2>1, <2>2, MovedOp, Names
<1>14. GivenOk(p)'
  <2>1. given[p] = [i \in 1..Want(p) |-> 0]
    BY Zenon, <1>1, <1>2 DEF GivenOk
  <2>2. \A i \in 1..Want(p) : ~Given(op'[p], flavour', "prefetch" = "out", i)
    BY <1>2, <1>5, <1>11 DEF Given
  <2>3. given'[p] = [i \in 1..Want(p) |-> IF Given(op'[p], flavour', "prefetch" = "out", i) THEN 1 ELSE 0]
    BY Zenon, <1>2, <2>1, <2>2
  <2> QED BY Zenon, <1>10, <1>11, <2>3, MovedGiven, Names
<1>15. given' = [r \in Prefetch |-> given'[r]]
  BY Zenon, <1>2 DEF CacheInv
<1> QED BY Zenon, <1>2, <1>10, <1>11, <1>12, <1>13, <1>14, <1>15, MoveKeeps, Names


LEMMA TerminateKeeps ==
  ASSUME CacheInv, NEW p \in Prefetch, terminate_prefetch(p)
  PROVE  CacheInv'
<1>1. CacheTypes /\ QueuesApart /\ PassOk /\ OpOk(p) /\ GivenOk(p)
  BY Zenon DEF CacheInv
<1>2. /\ op[p].at = "live" /\ ~op[p].taken /\ GiveBack(p, 0, op[p].done \div 2)
      /\ op' = [op EXCEPT ![p].terminated = TRUE, ![p].taken = TRUE]
      /\ flavour' = flavour /\ queues' = queues /\ pass' = pass
  BY Zenon DEF terminate_prefetch
<1>3. op \in [Prefetch -> [at : {"off", "live"}, len : Nat, hit : Nat, done : Nat,
                           terminated : BOOLEAN, taken : BOOLEAN]]
  BY Zenon, <1>1 DEF CacheTypes
<1>4. /\ op'[p].at = "live" /\ op'[p].len = op[p].len /\ op'[p].hit = op[p].hit /\ op'[p].done = op[p].done
      /\ op'[p].terminated = TRUE /\ op'[p].taken = TRUE /\ \A r \in Prefetch : r # p => op'[r] = op[r]
      /\ op[p].done \in Nat /\ op[p].len \in Nat
  BY <1>2, <1>3
<1>5. CacheTypes'
  <2>1. op' \in [Prefetch -> [at : {"off", "live"}, len : Nat, hit : Nat, done : Nat,
                              terminated : BOOLEAN, taken : BOOLEAN]]
    BY <1>2, <1>3
  <2> QED BY Zenon, <1>1, <1>2, <2>1 DEF CacheTypes
<1>6. InHand(p)' <=> InHand(p)
  BY Zenon, <1>2 DEF InHand
<1>7. \A q \in QueueNames : Where(q)' = Where(q)
  BY Zenon, <1>2 DEF Where
<1>8. WholePages(p)' = WholePages(p) /\ Want(p)' = Want(p)
  BY Zenon DEF WholePages, Want
<1>9. OpOk(p)'
  BY Zenon, <1>1, <1>2, <1>4, <1>6, <1>7, <1>8, Names DEF OpOk
<1>10. PICK out \in BOOLEAN : out <=> ~InHand(p)
  <2>1. CASE InHand(p)
    BY Zenon, <2>1, FALSE \in BOOLEAN
  <2>2. CASE ~InHand(p)
    BY Zenon, <2>2, TRUE \in BOOLEAN
  <2> QED BY Zenon, <2>1, <2>2
<1>11. given[p] = [i \in 1..Want(p) |-> IF Given(op[p], flavour, out, i) THEN 1 ELSE 0]
  <2>1. \A i : Given(op[p], flavour, ~InHand(p), i) <=> Given(op[p], flavour, out, i)
    BY Zenon, <1>10 DEF Given
  <2> QED BY Zenon, <1>1, <1>2, <2>1 DEF GivenOk
<1>12. PICK d \in Nat : d = op[p].done \div 2 /\ d <= op[p].len
  <2>1. op[p].done <= 2 * op[p].len
    BY Zenon, <1>1 DEF OpOk
  <2> QED BY <1>4, <2>1
<1>13. /\ given'[p] = [i \in 1..Want(p) |-> IF Given(op[p], flavour, out, i)
                                           THEN IF 0 < i /\ i <= d THEN 2 ELSE 1
                                           ELSE IF 0 < i /\ i <= d THEN 1 ELSE 0]
       /\ \A r \in Prefetch : r # p => given'[r] = given[r]
       /\ given' = [r \in Prefetch |-> given'[r]]
  <2>1. GiveBack(p, 0, d)
    BY Zenon, <1>2, <1>12
  <2>2. 0 \in Nat
    OBVIOUS
  <2> QED BY Zenon, <1>11, <2>1, <2>2, Released
<1>14. ASSUME NEW i \in 1..Want(p)
       PROVE  /\ ~(Given(op[p], flavour, out, i) /\ 0 < i /\ i <= d)
              /\ Given(op'[p], flavour', out, i) <=> (Given(op[p], flavour, out, i) \/ (0 < i /\ i <= d))
  <2>1. i \in Nat /\ 0 < i
    BY PageFacts
  <2>2. Given(op[p], flavour, out, i) <=> (flavour = "legacy" /\ i > op[p].len) \/ (out /\ d < i /\ i <= op[p].len)
    BY Zenon, <1>2, <1>12 DEF Given
  <2>3. Given(op'[p], flavour', out, i) <=>
          i <= d \/ (flavour = "legacy" /\ i > op[p].len) \/ (out /\ d < i /\ i <= op[p].len)
    BY Zenon, <1>2, <1>4, <1>12 DEF Given
  <2>4. i <= d => ~(i > op[p].len) /\ ~(d < i)
    BY <1>4, <1>12, <2>1
  <2> QED BY Zenon, <2>1, <2>2, <2>3, <2>4
<1>15. \A i \in 1..Want(p) : (IF Given(op[p], flavour, out, i)
                              THEN IF 0 < i /\ i <= d THEN 2 ELSE 1
                              ELSE IF 0 < i /\ i <= d THEN 1 ELSE 0)
                             = IF Given(op'[p], flavour', out, i) THEN 1 ELSE 0
  <2> SUFFICES ASSUME NEW i \in 1..Want(p)
               PROVE  (IF Given(op[p], flavour, out, i)
                       THEN IF 0 < i /\ i <= d THEN 2 ELSE 1
                       ELSE IF 0 < i /\ i <= d THEN 1 ELSE 0)
                      = IF Given(op'[p], flavour', out, i) THEN 1 ELSE 0
    BY Zenon
  <2>1. CASE Given(op[p], flavour, out, i)
    BY Zenon, <1>14, <2>1
  <2>2. CASE ~Given(op[p], flavour, out, i)
    <3>1. CASE 0 < i /\ i <= d
      BY Zenon, <1>14, <2>2, <3>1
    <3>2. CASE ~(0 < i /\ i <= d)
      BY Zenon, <1>14, <2>2, <3>2
    <3> QED BY Zenon, <3>1, <3>2
  <2> QED BY Zenon, <2>1, <2>2
<1>16. GivenOk(p)'
  <2>1. given'[p] = [i \in 1..Want(p) |-> IF Given(op'[p], flavour', out, i) THEN 1 ELSE 0]
    BY Zenon, <1>13, <1>15
  <2>2. \A i : Given(op'[p], flavour', ~InHand(p)', i) <=> Given(op'[p], flavour', out, i)
    BY Zenon, <1>6, <1>10 DEF Given
  <2> QED BY Zenon, <1>4, <1>8, <2>1, <2>2 DEF GivenOk
<1>17. \A r \in Prefetch : OpOk(r)' /\ GivenOk(r)'
  <2> SUFFICES ASSUME NEW r \in Prefetch, r # p PROVE OpOk(r)' /\ GivenOk(r)'
    BY Zenon, <1>9, <1>16
  <2>1. OpOk(r) /\ GivenOk(r)
    BY Zenon DEF CacheInv
  <2> QED BY Zenon, <1>2, <1>4, <1>13, <2>1, Unmoved
<1>18. QueuesApart' /\ PassOk'
  BY Zenon, <1>1, <1>2, <1>7 DEF QueuesApart, PassOk
<1> QED BY Zenon, <1>5, <1>13, <1>17, <1>18 DEF CacheInv


(* The controller's transfers.                                             *)
LEMMA CalcFacts ==
  ASSUME NEW required \in Nat, NEW dur \in Nat
  PROVE  /\ calc_prefetch_pages(required, dur)[1] \in Nat
         /\ calc_prefetch_pages(required, dur)[2] \in Nat
         /\ calc_prefetch_pages(required, dur)[2] <= dur
<1>1. {dur, 2} \in SUBSET (0..(dur + 2)) /\ {dur, 2} # {} /\ dur + 2 \in Nat
  OBVIOUS
<1>2. Max({dur, 2}) \in {dur, 2}
  BY Zenon, <1>1, MaxMember
<1>3. Max({dur, 2}) \in Nat
  BY <1>2
<1>4. CASE required > dur
  <2>1. calc_prefetch_pages(required, dur) = <<Max({dur, 2}), dur>>
    BY Zenon, <1>4 DEF calc_prefetch_pages
  <2> QED BY <1>3, <2>1
<1>5. CASE ~(required > dur)
  <2>1. calc_prefetch_pages(required, dur) = <<required, required>>
    BY Zenon, <1>5 DEF calc_prefetch_pages
  <2> QED BY <1>5, <2>1
<1> QED BY Zenon, <1>4, <1>5

LEMMA PassUpdate ==
  ASSUME pass \in [at : {"idle", "query", "feed", "transfer", "events"}, round : {1, 2}, dur : Nat, remain : Nat],
         NEW n \in Nat, pass' = [pass EXCEPT !.at = "feed", !.remain = n]
  PROVE  /\ pass' \in [at : {"idle", "query", "feed", "transfer", "events"}, round : {1, 2}, dur : Nat, remain : Nat]
         /\ pass'.remain = n
BY Zenon

LEMMA ChunkKeeps ==
  ASSUME CacheInv, Chunk
  PROVE  CacheInv'
<1>1. CacheTypes /\ QueuesApart /\ PassOk /\ queues \in QueueTypes /\ flavour' = flavour
  BY Zenon DEF CacheInv, CacheTypes, QueueTypes, Chunk
<1>2. pass \in [at : {"idle", "query", "feed", "transfer", "events"}, round : {1, 2}, dur : Nat, remain : Nat]
  BY Zenon, <1>1 DEF CacheTypes
<1>3. op \in [Prefetch -> [at : {"off", "live"}, len : Nat, hit : Nat, done : Nat,
                              terminated : BOOLEAN, taken : BOOLEAN]]
  BY Zenon, <1>1 DEF CacheTypes
<1>4. CASE queues.chunk = NoOp /\ pass' = [pass EXCEPT !.at = "feed"] /\ UNCHANGED <<queues, op, given>>
  <2>1. pass' \in [at : {"idle", "query", "feed", "transfer", "events"}, round : {1, 2}, dur : Nat, remain : Nat]
    BY <1>2, <1>4
  <2>2. CacheTypes' /\ PassOk'
    BY Zenon, <1>1, <1>4, <2>1 DEF CacheTypes, PassOk
  <2> QED BY Zenon, <1>1, <1>4, <2>2, SameKeeps
<1>5. CASE queues.chunk # NoOp /\ ChunkOne(queues.chunk)
  <2>p. PICK p : p = queues.chunk
    OBVIOUS
  <2>1. p \in Prefetch /\ p # NoOp /\ ChunkOne(p) /\ InHand(p) /\ OpOk(p)
    <3>1. p \in Prefetch
      BY <1>1, <1>5, <2>p DEF QueueTypes
    <3> QED BY Zenon, <1>5, <2>p, <3>1 DEF InHand, CacheInv
  <2>2. /\ op[p].at = "live" /\ flavour \in {"legacy", "unified"} /\ \A q \in QueueNames : p \notin Where(q)
    BY Zenon, <1>1, <2>p, <2>1, InHandGiven DEF QueuesApart
  <2>3. /\ op[p].hit = op[p].len /\ op[p].done <= 2 * op[p].len /\ op[p].len \in WholePages(p)
        /\ op[p].hit \in WholePages(p) /\ (op[p].taken => op[p].terminated)
    BY Zenon, <2>p, <2>1 DEF OpOk
  <2>4. /\ op[p].len \in Nat /\ op[p].done \in Nat /\ pass.remain \in Nat
        /\ op[p].done \div 2 \in Nat /\ op[p].done \div 2 <= op[p].len /\ (2 * op[p].len) \div 2 = op[p].len
    BY <1>2, <1>3, <2>1, <2>3
  <2>5. PICK left \in Nat : left = 2 * op[p].hit - op[p].done
    BY <2>3, <2>4
  <2>6. PICK step : step = calc_prefetch_pages(left, pass.remain)
    OBVIOUS
  <2>7. step[1] \in Nat /\ step[2] \in Nat /\ step[2] <= pass.remain
    BY Zenon, <2>4, <2>5, <2>6, CalcFacts
  <2>8. ASSUME queues' = [queues EXCEPT !.chunk = NoOp]
        PROVE  MovedTo(p, "out") /\ queues' \in QueueTypes /\ queues'.chunk = NoOp
    <3>1. queues' \in QueueTypes /\ queues'.chunk = NoOp /\ \A q \in QueueNames : queues'[q] = queues[q]
      BY <1>1, <2>8 DEF QueueTypes, QueueNames
    <3>2. \A q \in QueueNames : Range(queues'[q]) = Where(q) \ {p}
      BY Zenon, <2>2, <3>1 DEF Where
    <3> QED BY Zenon, <2>p, <3>1, <3>2, Names DEF MovedTo
  <2>9. CASE /\ op[p].terminated /\ queues' = [queues EXCEPT !.chunk = NoOp]
             /\ append_host_mem_release(p, op[p].done \div 2) /\ pass' = [pass EXCEPT !.at = "feed"] /\ op' = op
    <3>1. MovedTo(p, "out") /\ queues' \in QueueTypes /\ queues'.chunk = NoOp
      BY Zenon, <2>8, <2>9
    <3>2. pass' \in [at : {"idle", "query", "feed", "transfer", "events"}, round : {1, 2}, dur : Nat, remain : Nat]
      BY <1>2, <2>9
    <3>3. CacheTypes' /\ PassOk'
      BY Zenon, <1>1, <2>9, <3>1, <3>2 DEF CacheTypes, QueueTypes, PassOk
    <3>4. OpOk(p)'
      BY Zenon, <1>1, <2>1, <2>2, <2>3, <2>9, <3>1, MovedOp, Names
    <3>5. PICK d \in Nat, n \in Nat : d = op[p].done \div 2 /\ n = op[p].len /\ d <= n
      BY Zenon, <2>4
    <3>6. ASSUME NEW i \in 1..Want(p)
          PROVE  /\ ~(Given(op[p], flavour, FALSE, i) /\ d < i /\ i <= n)
                 /\ Given(op'[p], flavour', "out" = "out", i) <=> (Given(op[p], flavour, FALSE, i) \/ (d < i /\ i <= n))
      <4>1. i \in Nat
        BY PageFacts, <2>1
      <4>2. Given(op[p], flavour, FALSE, i) <=> (op[p].taken /\ i <= d) \/ (flavour = "legacy" /\ i > n)
        BY Zenon, <3>5 DEF Given
      <4>3. Given(op'[p], flavour', "out" = "out", i) <=>
              (op[p].taken /\ i <= d) \/ (flavour = "legacy" /\ i > n) \/ (d < i /\ i <= n)
        BY Zenon, <1>1, <2>9, <3>5 DEF Given
      <4>4. (d < i => ~(i <= d)) /\ (i <= n => ~(i > n))
        BY <3>5, <4>1
      <4> QED BY Zenon, <4>2, <4>3, <4>4
    <3>7. GiveBack(p, d, n)
      BY Zenon, <2>9, <3>5 DEF append_host_mem_release
    <3>8. /\ GivenOk(p)' /\ \A r \in Prefetch : r # p => given'[r] = given[r]
          /\ given' = [r \in Prefetch |-> given'[r]]
      BY Zenon, <2>1, <2>2, <2>9, <3>1, <3>6, <3>7, ReleasedGiven
    <3> QED BY Zenon, <1>1, <2>1, <2>9, <3>1, <3>3, <3>4, <3>8, MoveKeeps
  <2>10. CASE /\ ~op[p].terminated /\ step[1] < left /\ UNCHANGED <<queues, given>>
              /\ op' = [op EXCEPT ![p].done = @ + step[1]] /\ pass' = [pass EXCEPT !.at = "feed", !.remain = 0]
    <3>1. MovedTo(p, "chunk")
      <4>1. \A q \in QueueNames : Range(queues'[q]) = Where(q) \ {p}
        BY Zenon, <2>2, <2>10 DEF Where
      <4> QED BY Zenon, <2>p, <2>10, <4>1, Names DEF MovedTo
    <3>2. /\ pass' \in [at : {"idle", "query", "feed", "transfer", "events"}, round : {1, 2}, dur : Nat, remain : Nat]
          /\ ~(pass'.remain > 0)
      <4>1. 0 \in Nat /\ ~(0 > 0)
        OBVIOUS
      <4>2. pass' = [pass EXCEPT !.at = "feed", !.remain = 0]
        BY Zenon, <2>10
      <4> QED BY Zenon, <1>2, <4>1, <4>2, PassUpdate
    <3>3. /\ op' \in [Prefetch -> [at : {"off", "live"}, len : Nat, hit : Nat, done : Nat,
                              terminated : BOOLEAN, taken : BOOLEAN]]
          /\ op'[p].at = "live" /\ op'[p].len = op[p].len /\ op'[p].hit = op[p].hit /\ op'[p].taken = op[p].taken
          /\ op'[p].terminated = op[p].terminated /\ op'[p].done = op[p].done + step[1]
          /\ \A r \in Prefetch : r # p => op'[r] = op[r]
      BY <1>3, <2>1, <2>2, <2>7, <2>10
    <3>4. op'[p].done <= 2 * op'[p].len
      BY <2>3, <2>4, <2>5, <2>7, <2>10, <3>3
    <3>5. CacheTypes' /\ PassOk'
      BY Zenon, <1>1, <2>10, <3>2, <3>3 DEF CacheTypes, PassOk
    <3>6. OpOk(p)'
      BY Zenon, <1>1, <2>1, <2>2, <2>3, <2>10, <3>1, <3>3, <3>4, MovedOp, Names
    <3>7. \A i \in 1..Want(p) : Given(op'[p], flavour', "chunk" = "out", i) <=> Given(op[p], flavour, FALSE, i)
      BY Zenon, <1>1, <2>3, <2>10, <3>3 DEF Given
    <3>8. /\ GivenOk(p)' /\ \A r \in Prefetch : r # p => given'[r] = given[r]
          /\ given' = [r \in Prefetch |-> given'[r]]
      BY Zenon, <2>1, <2>10, <3>1, <3>3, <3>7, KeptGiven
    <3> QED BY Zenon, <1>1, <2>p, <2>1, <3>1, <3>3, <3>5, <3>6, <3>8, MoveKeeps
  <2>11. CASE /\ ~op[p].terminated /\ queues' = [queues EXCEPT !.chunk = NoOp]
              /\ op' = [op EXCEPT ![p].done = 2 * op[p].hit, ![p].terminated = TRUE]
              /\ append_host_mem_release(p, op[p].hit)
              /\ pass' = [pass EXCEPT !.at = "feed", !.remain = @ - step[2]]
    <3>1. MovedTo(p, "out") /\ queues' \in QueueTypes /\ queues'.chunk = NoOp
      BY Zenon, <2>8, <2>11
    <3>2. pass' \in [at : {"idle", "query", "feed", "transfer", "events"}, round : {1, 2}, dur : Nat, remain : Nat]
      <4>1. PICK n \in Nat : n = pass.remain - step[2]
        BY <2>4, <2>7
      <4>2. pass' = [pass EXCEPT !.at = "feed", !.remain = n]
        BY Zenon, <2>11, <4>1
      <4> QED BY Zenon, <1>2, <4>2, PassUpdate
    <3>3. /\ op' \in [Prefetch -> [at : {"off", "live"}, len : Nat, hit : Nat, done : Nat,
                              terminated : BOOLEAN, taken : BOOLEAN]]
          /\ op'[p].at = "live" /\ op'[p].len = op[p].len /\ op'[p].hit = op[p].hit /\ op'[p].taken = op[p].taken
          /\ op'[p].terminated /\ op'[p].done = 2 * op[p].len
          /\ \A r \in Prefetch : r # p => op'[r] = op[r]
      BY <1>3, <2>1, <2>2, <2>3, <2>4, <2>11
    <3>4. op'[p].done <= 2 * op'[p].len
      BY <2>4, <3>3
    <3>5. CacheTypes' /\ PassOk'
      BY Zenon, <1>1, <3>1, <3>2, <3>3 DEF CacheTypes, QueueTypes, PassOk
    <3>6. OpOk(p)'
      BY Zenon, <1>1, <2>1, <2>2, <2>3, <3>1, <3>3, <3>4, MovedOp, Names
    <3>7. PICK n \in Nat : n = op[p].len /\ n = op'[p].done \div 2
      BY Zenon, <2>4, <3>3
    <3>8. ASSUME NEW i \in 1..Want(p)
          PROVE  /\ ~(Given(op[p], flavour, FALSE, i) /\ n < i /\ i <= n)
                 /\ Given(op'[p], flavour', "out" = "out", i) <=> (Given(op[p], flavour, FALSE, i) \/ (n < i /\ i <= n))
      <4>1. i \in Nat
        BY PageFacts, <2>1
      <4>2. ~(n < i /\ i <= n)
        BY <4>1
      <4>3. Given(op[p], flavour, FALSE, i) <=> flavour = "legacy" /\ i > n
        BY Zenon, <2>3, <2>11, <3>7 DEF Given
      <4>4. Given(op'[p], flavour', "out" = "out", i) <=> (flavour = "legacy" /\ i > n) \/ (n < i /\ i <= n)
        BY ZenonT(30), <1>1, <2>3, <2>11, <3>3, <3>7 DEF Given
      <4> QED BY Zenon, <4>2, <4>3, <4>4
    <3>9. GiveBack(p, n, n)
      BY Zenon, <2>3, <2>11, <3>7 DEF append_host_mem_release
    <3>10. /\ GivenOk(p)' /\ \A r \in Prefetch : r # p => given'[r] = given[r]
           /\ given' = [r \in Prefetch |-> given'[r]]
      BY Zenon, <2>1, <3>1, <3>3, <3>8, <3>9, ReleasedGiven
    <3> QED BY Zenon, <1>1, <2>1, <3>1, <3>3, <3>5, <3>6, <3>10, MoveKeeps
  <2> QED BY Zenon, <2>1, <2>5, <2>6, <2>9, <2>10, <2>11 DEF ChunkOne
<1> QED BY Zenon, <1>4, <1>5 DEF Chunk


LEMMA TransferKeeps ==
  ASSUME CacheInv, Transfer
  PROVE  CacheInv'
<1> DEFINE rest == [queues EXCEPT !.buffer = Tail(@)]
<1>p. PICK p : p = Head(queues.buffer)
  OBVIOUS
<1>1. CacheTypes /\ QueuesApart /\ queues \in QueueTypes /\ queues.buffer # <<>> /\ flavour' = flavour /\ queues.chunk = NoOp
  BY Zenon DEF CacheInv, CacheTypes, QueueTypes, Transfer, PassOk
<1>2. p \in Prefetch /\ InHand(p) /\ OpOk(p) /\ op[p].done = 0 /\ TransferOne(p, rest)
  BY Zenon, <1>p, <1>1, AtHead, Names DEF Transfer
<1>3. op[p].at = "live" /\ flavour \in {"legacy", "unified"}
  BY Zenon, <1>2, InHandGiven
<1>4. op \in [Prefetch -> [at : {"off", "live"}, len : Nat, hit : Nat, done : Nat,
                              terminated : BOOLEAN, taken : BOOLEAN]]
  BY Zenon, <1>1 DEF CacheTypes
<1>5. pass \in [at : {"idle", "query", "feed", "transfer", "events"}, round : {1, 2}, dur : Nat, remain : Nat]
  BY Zenon, <1>1 DEF CacheTypes
<1>6. op[p].len \in WholePages(p) /\ op[p].hit \in WholePages(p) /\ (op[p].taken => op[p].terminated)
  BY Zenon, <1>2 DEF OpOk
<1>7. op[p].len \in Nat /\ pass.remain \in Nat /\ (op[p].len \div PageSize) * PageSize = op[p].len
  <2>1. (op[p].len \div PageSize) * PageSize = op[p].len
    BY Zenon, <1>2, <1>6, PageFacts
  <2> QED BY <1>2, <1>4, <1>5, <2>1
<1>8. PICK n \in Nat : n = op[p].len
  BY Zenon, <1>7
<1>9. PICK step : step = calc_prefetch_pages(2 * n, pass.remain)
  OBVIOUS
<1>10. step[1] \in Nat /\ step[2] \in Nat /\ step[2] <= pass.remain
  <2>1. 2 * n \in Nat
    OBVIOUS
  <2> QED BY Zenon, <1>7, <1>9, <2>1, CalcFacts
<1>11. ASSUME queues' = rest
       PROVE  MovedTo(p, "out") /\ queues' \in QueueTypes /\ queues'.chunk = NoOp
  <2>1. /\ queues'.chunk = queues.chunk
        /\ \A q \in QueueNames : queues'[q] = IF q = "buffer" THEN Tail(queues[q])
                                  ELSE IF q = "out" THEN Append(queues[q], p) ELSE queues[q]
    BY <1>1, <1>11 DEF QueueTypes, QueueNames
  <2>2. MovedTo(p, "out") /\ \A q \in QueueNames : queues'[q] \in Lines
    BY <1>p, <1>1, <2>1, HeadMoves, Names
  <2>3. queues' \in QueueTypes
    BY Zenon, <1>1, <1>11, <2>2 DEF QueueTypes, QueueNames
  <2> QED BY Zenon, <1>1, <2>1, <2>2, <2>3
<1>12. CASE /\ op[p].terminated /\ append_host_mem_release(p, op[p].done \div 2)
            /\ queues' = rest /\ op' = op /\ pass' = pass
  <2>1. MovedTo(p, "out") /\ queues' \in QueueTypes /\ queues'.chunk = NoOp
    BY Zenon, <1>11, <1>12
  <2>2. CacheTypes' /\ PassOk'
    BY Zenon, <1>1, <1>12, <2>1 DEF CacheTypes, QueueTypes, PassOk
  <2>3. op[p].done <= 2 * op[p].len /\ op[p].done \div 2 = 0
    BY <1>2, <1>7
  <2>4. OpOk(p)'
    BY Zenon, <1>1, <1>2, <1>3, <1>6, <1>12, <2>1, <2>3, MovedOp, Names
  <2>5. ASSUME NEW i \in 1..Want(p)
        PROVE  /\ ~(Given(op[p], flavour, FALSE, i) /\ 0 < i /\ i <= n)
               /\ Given(op'[p], flavour', "out" = "out", i) <=> (Given(op[p], flavour, FALSE, i) \/ (0 < i /\ i <= n))
    <3>1. i \in Nat
      BY PageFacts, <1>2
    <3>2. Given(op[p], flavour, FALSE, i) <=> (op[p].taken /\ i <= 0) \/ (flavour = "legacy" /\ i > n)
      BY Zenon, <1>8, <2>3 DEF Given
    <3>3. Given(op'[p], flavour', "out" = "out", i) <=>
            (op[p].taken /\ i <= 0) \/ (flavour = "legacy" /\ i > n) \/ (0 < i /\ i <= n)
      BY Zenon, <1>1, <1>8, <1>12, <2>3 DEF Given
    <3>4. (0 < i => ~(i <= 0)) /\ (i <= n => ~(i > n))
      BY <3>1
    <3> QED BY Zenon, <3>2, <3>3, <3>4
  <2>6. GiveBack(p, 0, n) /\ 0 \in Nat
    BY Zenon, <1>8, <1>12, <2>3 DEF append_host_mem_release
  <2>7. /\ GivenOk(p)' /\ \A r \in Prefetch : r # p => given'[r] = given[r]
        /\ given' = [r \in Prefetch |-> given'[r]]
    BY Zenon, <1>2, <1>3, <1>12, <2>1, <2>5, <2>6, ReleasedGiven
  <2> QED BY Zenon, <1>1, <1>2, <1>12, <2>1, <2>2, <2>4, <2>7, MoveKeeps
<1>13. CASE /\ ~op[p].terminated /\ step[1] < 2 * n /\ op' = [op EXCEPT ![p].done = step[1], ![p].hit = n]
            /\ queues' = [rest EXCEPT !.chunk = p] /\ pass' = [pass EXCEPT !.remain = 0] /\ given' = given
  <2>1. /\ queues'.chunk = p
        /\ \A q \in QueueNames : queues'[q] = IF q = "buffer" THEN Tail(queues[q])
                                  ELSE IF q = "chunk" THEN Append(queues[q], p) ELSE queues[q]
    BY <1>1, <1>13 DEF QueueTypes, QueueNames
  <2>2. MovedTo(p, "chunk") /\ \A q \in QueueNames : queues'[q] \in Lines
    BY <1>p, <1>1, <2>1, HeadMoves, Names
  <2>3. queues' \in QueueTypes
    BY Zenon, <1>1, <1>2, <1>13, <2>2 DEF QueueTypes, QueueNames
  <2>4. pass' \in [at : {"idle", "query", "feed", "transfer", "events"}, round : {1, 2}, dur : Nat, remain : Nat] /\ ~(pass'.remain > 0)
    <3>1. pass' = [pass EXCEPT !.remain = 0]
      BY Zenon, <1>13
    <3> QED BY <1>5, <3>1
  <2>5. /\ op' \in [Prefetch -> [at : {"off", "live"}, len : Nat, hit : Nat, done : Nat,
                              terminated : BOOLEAN, taken : BOOLEAN]]
        /\ op'[p].at = "live" /\ op'[p].len = n /\ op'[p].hit = n /\ op'[p].done = step[1]
        /\ op'[p].terminated = op[p].terminated /\ op'[p].taken = op[p].taken
        /\ \A r \in Prefetch : r # p => op'[r] = op[r]
    <3>1. op' = [op EXCEPT ![p].done = step[1], ![p].hit = n]
      BY Zenon, <1>13
    <3> QED BY ZenonT(30), <1>2, <1>3, <1>4, <1>8, <1>10, <3>1
  <2>6. CacheTypes' /\ PassOk'
    BY Zenon, <1>1, <2>3, <2>4, <2>5 DEF CacheTypes, QueueTypes, PassOk
  <2>7. op'[p].done <= 2 * op'[p].len
    <3>1. step[1] < 2 * n
      BY Zenon, <1>13
    <3> QED BY <1>8, <1>10, <2>5, <3>1
  <2>8. OpOk(p)'
    BY Zenon, <1>1, <1>2, <1>3, <1>6, <1>8, <1>13, <2>2, <2>5, <2>7, MovedOp, Names
  <2>9. \A i \in 1..Want(p) : Given(op'[p], flavour', "chunk" = "out", i) <=> Given(op[p], flavour, FALSE, i)
    BY Zenon, <1>1, <1>6, <1>8, <1>13, <2>5 DEF Given
  <2>10. /\ GivenOk(p)' /\ \A r \in Prefetch : r # p => given'[r] = given[r]
         /\ given' = [r \in Prefetch |-> given'[r]]
    BY Zenon, <1>2, <1>13, <2>2, <2>5, <2>9, KeptGiven
  <2> QED BY Zenon, <1>1, <1>2, <2>2, <2>5, <2>6, <2>8, <2>10, MoveKeeps
<1>14. CASE /\ ~op[p].terminated /\ queues' = rest /\ given' = given
            /\ op' = [op EXCEPT ![p].done = 2 * ((n \div PageSize) * PageSize), ![p].terminated = TRUE]
            /\ pass' = [pass EXCEPT !.remain = @ - step[2]]
  <2>1. MovedTo(p, "out") /\ queues' \in QueueTypes /\ queues'.chunk = NoOp
    BY Zenon, <1>11, <1>14
  <2>2. pass' \in [at : {"idle", "query", "feed", "transfer", "events"}, round : {1, 2}, dur : Nat, remain : Nat]
    <3>1. PICK m \in Nat : m = pass.remain - step[2]
      BY <1>7, <1>10
    <3>2. pass' = [pass EXCEPT !.remain = m]
      BY Zenon, <1>14, <3>1
    <3> QED BY <1>5, <3>2
  <2>3. /\ op' \in [Prefetch -> [at : {"off", "live"}, len : Nat, hit : Nat, done : Nat,
                              terminated : BOOLEAN, taken : BOOLEAN]]
        /\ op'[p].at = "live" /\ op'[p].len = n /\ op'[p].hit = op[p].hit /\ op'[p].done = 2 * n
        /\ op'[p].terminated /\ op'[p].taken = op[p].taken
        /\ \A r \in Prefetch : r # p => op'[r] = op[r]
    <3>1. PICK m \in Nat : m = 2 * n
      OBVIOUS
    <3>2. op' = [op EXCEPT ![p].done = m, ![p].terminated = TRUE]
      BY Zenon, <1>7, <1>8, <1>14, <3>1
    <3> QED BY ZenonT(30), <1>2, <1>3, <1>4, <1>8, <3>1, <3>2
  <2>4. CacheTypes' /\ PassOk'
    BY Zenon, <1>1, <2>1, <2>2, <2>3 DEF CacheTypes, QueueTypes, PassOk
  <2>5. op'[p].done <= 2 * op'[p].len /\ op'[p].done \div 2 = n
    BY <2>3
  <2>6. OpOk(p)'
    BY Zenon, <1>1, <1>2, <1>3, <1>6, <1>8, <2>1, <2>3, <2>5, MovedOp, Names
  <2>7. ASSUME NEW i \in 1..Want(p)
        PROVE  Given(op'[p], flavour', "out" = "out", i) <=> Given(op[p], flavour, FALSE, i)
    <3>1. i \in Nat
      BY PageFacts, <1>2
    <3>2. ~(n < i /\ i <= n)
      BY <3>1
    <3>3. Given(op[p], flavour, FALSE, i) <=> flavour = "legacy" /\ i > n
      BY Zenon, <1>6, <1>8, <1>14 DEF Given
    <3>4. Given(op'[p], flavour', "out" = "out", i) <=> (flavour = "legacy" /\ i > n) \/ (n < i /\ i <= n)
      BY Zenon, <1>1, <1>6, <1>14, <2>3, <2>5 DEF Given
    <3> QED BY Zenon, <3>2, <3>3, <3>4
  <2>8. /\ GivenOk(p)' /\ \A r \in Prefetch : r # p => given'[r] = given[r]
        /\ given' = [r \in Prefetch |-> given'[r]]
    BY Zenon, <1>2, <1>14, <2>1, <2>3, <2>7, KeptGiven
  <2> QED BY Zenon, <1>1, <1>2, <2>1, <2>3, <2>4, <2>6, <2>8, MoveKeeps
<1> QED BY Zenon, <1>2, <1>8, <1>9, <1>12, <1>13, <1>14 DEF TransferOne


(* SGLang's own pass: an operation is dropped, or gets its host pages.     *)
LEMMA DropKeeps ==
  ASSUME CacheInv, NEW a \in {"hits", "revoked"}, queues[a] # <<>>, NEW p, p = Head(queues[a]),
         op' = [op EXCEPT ![p].terminated = TRUE], queues' = [queues EXCEPT ![a] = Tail(@)],
         UNCHANGED <<flavour, given, pass>>, pass.at = "events"
  PROVE  CacheInv'
<1>1. CacheTypes /\ QueuesApart /\ queues \in QueueTypes /\ a \in QueueNames
  BY Zenon, Names DEF CacheInv, CacheTypes, QueueTypes
<1>2. p \in Prefetch /\ p \in Where(a) /\ InHand(p) /\ OpOk(p) /\ op[p].done = 0
  BY Zenon, <1>1, AtHead
<1>3. op[p].at = "live" /\ flavour = "unified" /\ op[p].len = 0
  BY Zenon, <1>2, InHandGiven DEF OpOk
<1>4. op \in [Prefetch -> [at : {"off", "live"}, len : Nat, hit : Nat, done : Nat,
                              terminated : BOOLEAN, taken : BOOLEAN]]
  BY Zenon, <1>1 DEF CacheTypes
<1>5. op[p].len \in WholePages(p) /\ op[p].hit \in WholePages(p) /\ op[p].done <= 2 * op[p].len
  BY Zenon, <1>2 DEF OpOk
<1>6. /\ queues'.chunk = queues.chunk
      /\ \A q \in QueueNames : queues'[q] = IF q = a THEN Tail(queues[q])
                                ELSE IF q = "out" THEN Append(queues[q], p) ELSE queues[q]
  BY <1>1 DEF QueueTypes, QueueNames
<1>7. MovedTo(p, "out") /\ \A q \in QueueNames : queues'[q] \in Lines
  BY <1>1, <1>6, HeadMoves, Names
<1>8. queues' \in QueueTypes
  BY Zenon, <1>1, <1>7 DEF QueueTypes, QueueNames
<1>9. /\ op' \in [Prefetch -> [at : {"off", "live"}, len : Nat, hit : Nat, done : Nat,
                              terminated : BOOLEAN, taken : BOOLEAN]]
      /\ op'[p].at = "live" /\ op'[p].len = op[p].len /\ op'[p].hit = op[p].hit /\ op'[p].done = op[p].done
      /\ op'[p].terminated /\ op'[p].taken = op[p].taken /\ \A r \in Prefetch : r # p => op'[r] = op[r]
  BY Zenon, <1>2, <1>3, <1>4
<1>10. CacheTypes' /\ PassOk'
  BY Zenon, <1>1, <1>8, <1>9 DEF CacheTypes, QueueTypes, PassOk
<1>11. OpOk(p)'
  BY Zenon, <1>2, <1>3, <1>5, <1>7, <1>9, MovedOp, Names
<1>12. ASSUME NEW i \in 1..Want(p)
       PROVE  Given(op'[p], flavour', "out" = "out", i) <=> Given(op[p], flavour, FALSE, i)
  <2>1. i \in Nat
    BY PageFacts, <1>2
  <2>2. op[p].done \div 2 = 0 /\ ~(0 < i /\ i <= 0)
    BY <1>2, <2>1
  <2>3. flavour # "legacy" /\ flavour' # "legacy" /\ op[p].len = 0
        /\ op'[p].len = 0 /\ op'[p].done \div 2 = 0 /\ (op'[p].taken <=> op[p].taken)
    BY <1>3, <1>9, <2>2
  <2>4. Given(op[p], flavour, FALSE, i) <=> op[p].taken /\ i <= 0
    BY Zenon, <2>2, <2>3 DEF Given
  <2>5. Given(op'[p], flavour', "out" = "out", i) <=> (op[p].taken /\ i <= 0) \/ (0 < i /\ i <= 0)
    BY Zenon, <2>2, <2>3 DEF Given
  <2> QED BY Zenon, <2>2, <2>4, <2>5
<1>13. /\ GivenOk(p)' /\ \A r \in Prefetch : r # p => given'[r] = given[r]
       /\ given' = [r \in Prefetch |-> given'[r]]
  BY Zenon, <1>2, <1>7, <1>9, <1>12, KeptGiven
<1> QED BY Zenon, <1>2, <1>7, <1>9, <1>10, <1>11, <1>13, MoveKeeps

LEMMA AllocateKeeps ==
  ASSUME CacheInv, NEW room \in BOOLEAN, Allocate(room)
  PROVE  CacheInv'
<1>p. PICK p : p = Head(queues.hits)
  OBVIOUS
<1>1. /\ CacheTypes /\ QueuesApart /\ queues \in QueueTypes /\ queues.hits # <<>>
      /\ pass.at = "events" /\ pass' = pass /\ flavour' = flavour /\ given' = given
      /\ AllocateOne(p, [queues EXCEPT !.hits = Tail(@)], room)
  BY Zenon, <1>p DEF CacheInv, CacheTypes, QueueTypes, Allocate
<1>2. CASE op' = [op EXCEPT ![p].terminated = TRUE] /\ queues' = [queues EXCEPT !.hits = Tail(@)]
  BY Zenon, <1>p, <1>1, <1>2, DropKeeps
<1>3. CASE /\ ~op[p].terminated /\ op' = [op EXCEPT ![p].len = op[p].hit]
           /\ queues' = [[queues EXCEPT !.hits = Tail(@)] EXCEPT !.ready = Append(@, p)]
  <2>1. p \in Prefetch /\ p \in Where("hits") /\ InHand(p) /\ OpOk(p) /\ op[p].done = 0
    BY Zenon, <1>p, <1>1, AtHead, Names
  <2>2. op[p].at = "live" /\ flavour = "unified" /\ op[p].len = 0 /\ (op[p].taken => op[p].terminated)
    BY Zenon, <2>1, InHandGiven DEF OpOk
  <2>3. op \in [Prefetch -> [at : {"off", "live"}, len : Nat, hit : Nat, done : Nat,
                              terminated : BOOLEAN, taken : BOOLEAN]]
    BY Zenon, <1>1 DEF CacheTypes
  <2>4. op[p].hit \in WholePages(p) /\ op[p].hit \in Nat
    BY Zenon, <2>1, PageFacts DEF OpOk
  <2>5. /\ queues'.chunk = queues.chunk
        /\ \A q \in QueueNames : queues'[q] = IF q = "hits" THEN Tail(queues[q])
                                  ELSE IF q = "ready" THEN Append(queues[q], p) ELSE queues[q]
    BY <1>1, <1>3 DEF QueueTypes, QueueNames
  <2>6. MovedTo(p, "ready") /\ \A q \in QueueNames : queues'[q] \in Lines
    BY <1>p, <1>1, <2>5, HeadMoves, Names
  <2>7. queues' \in QueueTypes
    BY Zenon, <1>1, <1>3, <2>6 DEF QueueTypes, QueueNames
  <2>8. /\ op' \in [Prefetch -> [at : {"off", "live"}, len : Nat, hit : Nat, done : Nat,
                              terminated : BOOLEAN, taken : BOOLEAN]]
        /\ op'[p].at = "live" /\ op'[p].len = op[p].hit /\ op'[p].hit = op[p].hit /\ op'[p].done = 0
        /\ op'[p].terminated = op[p].terminated /\ op'[p].taken = op[p].taken
        /\ \A r \in Prefetch : r # p => op'[r] = op[r]
    <3>1. op' = [op EXCEPT ![p].len = op[p].hit]
      BY Zenon, <1>3
    <3> QED BY <2>1, <2>2, <2>3, <2>4, <3>1
  <2>9. CacheTypes' /\ PassOk'
    BY Zenon, <1>1, <2>7, <2>8 DEF CacheTypes, QueueTypes, PassOk
  <2>10. op'[p].done <= 2 * op'[p].len
    BY <2>4, <2>8
  <2>11. OpOk(p)'
    BY Zenon, <1>1, <2>1, <2>2, <2>4, <2>6, <2>8, <2>10, MovedOp, Names
  <2>12. \A i \in 1..Want(p) : Given(op'[p], flavour', "ready" = "out", i) <=> Given(op[p], flavour, FALSE, i)
    BY Zenon, <1>1, <1>3, <2>2, <2>8 DEF Given
  <2>13. /\ GivenOk(p)' /\ \A r \in Prefetch : r # p => given'[r] = given[r]
         /\ given' = [r \in Prefetch |-> given'[r]]
    BY Zenon, <1>1, <2>1, <2>6, <2>8, <2>12, KeptGiven, Names
  <2> QED BY Zenon, <1>1, <2>1, <2>6, <2>8, <2>9, <2>11, <2>13, MoveKeeps, Names
<1> QED BY Zenon, <1>1, <1>2, <1>3 DEF AllocateOne

LEMMA FeedKeeps ==
  ASSUME CacheInv, Feed
  PROVE  CacheInv'
<1>1. /\ CacheTypes /\ QueuesApart /\ PassOk /\ queues \in QueueTypes /\ pass.at = "feed"
      /\ flavour' = flavour /\ op' = op /\ given' = given /\ pass' = [pass EXCEPT !.at = "transfer"]
      /\ queues' = [queues EXCEPT !.buffer = @ \o queues.ready, !.ready = <<>>]
  BY Zenon DEF CacheInv, CacheTypes, QueueTypes, Feed
<1>2. queues.buffer \in Lines /\ queues.ready \in Lines
  BY <1>1 DEF QueueTypes
<1>3. Where("buffer") \cap Where("ready") = {}
  BY Zenon, <1>1, Names DEF QueuesApart
<1>4. PICK x \in Lines : x = queues.buffer \o queues.ready /\ Range(x) = Where("buffer") \cup Where("ready")
  BY Zenon, <1>2, <1>3, ConcatLine DEF Where
<1>5. <<>> \in Lines /\ Range(<<>>) = {}
  BY DEF Lines, IsInjective, Range
<1>6. PICK none \in Lines : none = <<>> /\ Range(none) = {}
  BY Zenon, <1>5
<1>7. queues' = [queues EXCEPT !.buffer = x, !.ready = none]
  BY Zenon, <1>1, <1>4, <1>6
<1>8. /\ queues' \in QueueTypes /\ queues'.chunk = queues.chunk
      /\ \A q \in QueueNames : queues'[q] = IF q = "buffer" THEN x ELSE IF q = "ready" THEN none ELSE queues[q]
  BY Zenon, <1>1, <1>7 DEF QueueTypes, QueueNames
<1>9. /\ pass' \in [at : {"idle", "query", "feed", "transfer", "events"}, round : {1, 2}, dur : Nat, remain : Nat]
      /\ pass'.remain = pass.remain
  <2>1. pass \in [at : {"idle", "query", "feed", "transfer", "events"}, round : {1, 2}, dur : Nat, remain : Nat]
    BY Zenon, <1>1 DEF CacheTypes
  <2> QED BY <1>1, <2>1
<1>10. CacheTypes' /\ PassOk'
  BY Zenon, <1>1, <1>8, <1>9 DEF CacheTypes, QueueTypes, PassOk
<1>11. \A q \in QueueNames : Where(q)' = IF q = "buffer" THEN Where("buffer") \cup Where("ready")
                                        ELSE IF q = "ready" THEN {} ELSE Where(q)
  BY Zenon, <1>4, <1>6, <1>8 DEF Where
<1>12. QueuesApart'
  <2>1. \A q \in QueueNames : queues'.chunk \notin Where(q)'
    BY <1>1, <1>8, <1>11, Names DEF QueuesApart
  <2>2. \A q, r \in QueueNames : q # r => Where(q)' \cap Where(r)' = {}
    BY <1>1, <1>11, Names DEF QueuesApart
  <2> QED BY Zenon, <2>1, <2>2 DEF QueuesApart
<1>13. \A r \in Prefetch : OpOk(r)' /\ GivenOk(r)'
  <2> TAKE r \in Prefetch
  <2>1. OpOk(r) /\ GivenOk(r)
    BY Zenon DEF CacheInv
  <2>2. InHand(r)' <=> InHand(r)
    <3>1. InHand(r) <=> r = queues.chunk \/ \E q \in QueueNames : r \in Where(q)
      BY Zenon DEF InHand, Where
    <3>2. InHand(r)' <=> r = queues'.chunk \/ \E q \in QueueNames : r \in Where(q)'
      BY Zenon DEF InHand, Where
    <3> QED BY <1>8, <1>11, <3>1, <3>2, Names
  <2>3. (\E q \in QueueNames : r \in Where(q)') => \E q \in QueueNames : r \in Where(q)
    BY <1>11, Names
  <2>4. /\ Where("prefetch")' = Where("prefetch") /\ Where("hits")' = Where("hits")
        /\ Where("revoked")' = Where("revoked") /\ Where("ready")' = {}
    BY Zenon, <1>11, Names
  <2>5. OpOk(r)'
    BY Zenon, <1>1, <1>8, <2>1, <2>2, <2>3, <2>4 DEF OpOk, WholePages, Want
  <2>6. \A i : Given(op'[r], flavour', ~InHand(r)', i) <=> Given(op[r], flavour, ~InHand(r), i)
    BY Zenon, <1>1, <2>2 DEF Given
  <2>7. GivenOk(r)'
    BY Zenon, <1>1, <2>1, <2>6 DEF GivenOk, Want
  <2> QED BY Zenon, <2>5, <2>7
<1> QED BY Zenon, <1>1, <1>10, <1>12, <1>13 DEF CacheInv


(* The beginning, and a restart of the process.                            *)
FreshState ==
  /\ queues = FreshQueues /\ op = [p \in Prefetch |-> FreshOp] /\ given = NoneGiven /\ pass.at = "idle"
  /\ pass \in [at : {"idle", "query", "feed", "transfer", "events"}, round : {1, 2}, dur : Nat, remain : Nat]
  /\ flavour \in {"off", "legacy", "unified"}

LEMMA FreshCache == FreshState => CacheInv
<1> SUFFICES ASSUME FreshState PROVE CacheInv
  OBVIOUS
<1> USE DEF FreshState
<1>1. <<>> \in Lines /\ Range(<<>>) = {} /\ <<>> \in Seq(Prefetch)
  BY DEF Lines, IsInjective, Range
<1>2. queues \in QueueTypes /\ \A q \in QueueNames : queues[q] = <<>>
  BY <1>1 DEF QueueTypes, FreshQueues, QueueNames
<1>3. CacheTypes
  <2>1. op \in [Prefetch -> [at : {"off", "live"}, len : Nat, hit : Nat, done : Nat,
                          terminated : BOOLEAN, taken : BOOLEAN]]
    BY DEF FreshOp
  <2> QED BY Zenon, <1>2, <2>1 DEF CacheTypes, QueueTypes
<1>4. \A q \in QueueNames : Where(q) = {}
  BY Zenon, <1>1, <1>2 DEF Where
<1>5. queues.chunk = NoOp /\ pass.at = "idle"
  BY DEF FreshQueues
<1>6. QueuesApart /\ PassOk
  BY Zenon, <1>4, <1>5 DEF QueuesApart, PassOk
<1>7. \A p \in Prefetch : OpOk(p) /\ GivenOk(p)
  <2> TAKE p \in Prefetch
  <2>1. p # queues.chunk /\ ~InHand(p)
    BY Zenon, <1>4, <1>5, CacheAssumption DEF CacheAssumption, InHand, Where
  <2>2. /\ op[p] = FreshOp /\ op[p].at = "off" /\ op[p].len = 0 /\ op[p].hit = 0 /\ op[p].done = 0
        /\ op[p].taken = FALSE /\ op[p].done <= 2 * op[p].len
    BY DEF FreshOp
  <2>3. OpOk(p)
    BY Zenon, <1>4, <2>1, <2>2, PageFacts, Names DEF OpOk
  <2>4. GivenOk(p)
    BY Zenon, <2>2 DEF GivenOk, NoneGiven
  <2> QED BY Zenon, <2>3, <2>4
<1>8. given = [p \in Prefetch |-> given[p]]
  BY Zenon DEF NoneGiven
<1> QED BY Zenon, <1>3, <1>6, <1>7, <1>8 DEF CacheInv

LEMMA StartKeeps ==
  ASSUME CacheInv, NEW f \in {"legacy", "unified"}, CacheStart(f)
  PROVE  CacheInv'
<1>1. /\ CacheTypes /\ QueuesApart /\ PassOk /\ flavour = "off" /\ flavour' = f
      /\ queues' = queues /\ op' = op /\ given' = given /\ pass' = pass
  BY Zenon DEF CacheInv, CacheStart
<1>2. CacheTypes' /\ PassOk'
  BY Zenon, <1>1 DEF CacheTypes, PassOk
<1>3. \A q \in QueueNames : Where(q)' = Where(q)
  BY Zenon, <1>1 DEF Where
<1>4. QueuesApart'
  BY Zenon, <1>1, <1>3 DEF QueuesApart
<1>5. \A p \in Prefetch : OpOk(p)' /\ GivenOk(p)'
  <2> TAKE p \in Prefetch
  <2>1. OpOk(p) /\ GivenOk(p)
    BY Zenon DEF CacheInv
  <2>2. op[p].at = "off" /\ op[p] = FreshOp /\ ~InHand(p)
    BY Zenon, <1>1, <2>1 DEF OpOk
  <2>3. ~InHand(p)' /\ p # queues'.chunk /\ \A q \in QueueNames : p \notin Where(q)'
    BY Zenon, <1>1, <2>2 DEF InHand, Where
  <2>4. OpOk(p)'
    BY Zenon, <1>1, <2>1, <2>2, <2>3, Names DEF OpOk, WholePages
  <2>5. op[p].at # "live"
    BY Zenon, <2>2
  <2>6. GivenOk(p)'
    BY Zenon, <1>1, <2>1, <2>5 DEF GivenOk, Want
  <2> QED BY Zenon, <2>4, <2>6
<1> QED BY Zenon, <1>1, <1>2, <1>4, <1>5 DEF CacheInv

LEMMA CacheStep ==
  ASSUME CacheInv, [CacheNext]_cacheVars
  PROVE  CacheInv'
<1>1. CASE UNCHANGED cacheVars
  <2>1. CacheTypes' /\ PassOk'
    BY Zenon, <1>1 DEF cacheVars, CacheInv, CacheTypes, PassOk
  <2> QED BY Zenon, <1>1, <2>1, SameKeeps DEF cacheVars
<1>2. CASE Restart
  <2>1. /\ queues' = FreshQueues /\ op' = [p \in Prefetch |-> FreshOp] /\ given' = NoneGiven
        /\ flavour' = flavour /\ pass' = pass
    BY Zenon, <1>2 DEF Restart
  <2>2. FreshState'
    BY Zenon, <1>2, <2>1 DEF Restart, Free, FreshState, CacheInv, CacheTypes
  <2> QED BY <2>2, FreshCache, PTL
<1>3. CASE DropRevoked
  <2>1. PICK p : p = Head(queues.revoked)
    OBVIOUS
  <2> QED BY Zenon, <1>3, <2>1, DropKeeps DEF DropRevoked
<1>4. CASE PassStep
  BY Zenon, <1>3, <1>4, QueryKeeps, ChunkKeeps, FeedKeeps, TransferKeeps, IdleKeeps, AllocateKeeps DEF PassStep
<1>5. CASE \E p \in Prefetch : Issue(p) \/ terminate_prefetch(p) \/ Backup(p)
  BY Zenon, <1>5, IssueKeeps, TerminateKeeps, IdleKeeps
<1> QED BY Zenon, <1>1, <1>2, <1>4, <1>5, StartKeeps, IdleKeeps DEF CacheNext

LEMMA CacheInvOnce == CacheInv => HostIndicesOnce
<1> SUFFICES ASSUME CacheInv, NEW p \in Prefetch,
                    NEW held, held = IF flavour = "legacy" THEN Want(p) ELSE op[p].len
             PROVE  /\ \A i \in 1..Want(p) : given[p][i] <= 1
                    /\ (op[p].taken /\ ~InHand(p)) => \A i \in 1..held : given[p][i] = 1
  BY Zenon DEF HostIndicesOnce
<1>1. OpOk(p) /\ GivenOk(p)
  BY Zenon DEF CacheInv
<1>2. /\ Want(p) \in Nat /\ op[p].len \in Nat /\ op[p].len <= Want(p) /\ op[p].done \in Nat
      /\ op[p].done \div 2 \in Nat
  <2>1. op[p].done \in Nat
    BY DEF CacheInv, CacheTypes
  <2> QED BY <1>1, <2>1, PageFacts DEF OpOk
<1>3. held \in Nat /\ held <= Want(p)
  BY <1>2
<1>4. \A i \in 1..Want(p) : given[p][i] = IF op[p].at = "live" /\ Given(op[p], flavour, ~InHand(p), i) THEN 1 ELSE 0
  BY Zenon, <1>1 DEF GivenOk
<1>5. \A i \in 1..Want(p) : given[p][i] \in {0, 1}
  BY Zenon, <1>4
<1>6. ASSUME op[p].taken, ~InHand(p), NEW i \in 1..held
      PROVE  given[p][i] = 1
  <2>1. i \in 1..Want(p)
    BY <1>2, <1>3
  <2>2. op[p].at = "live"
    <3>1. op[p].at \in {"off", "live"}
      BY DEF CacheInv, CacheTypes
    <3>2. ~FreshOp.taken
      BY DEF FreshOp
    <3> QED BY Zenon, <1>1, <1>6, <3>1, <3>2 DEF OpOk
  <2>3. i <= op[p].done \div 2 \/ op[p].done \div 2 < i
    BY <1>2, <2>1
  <2>4. flavour = "legacy" \/ i <= op[p].len
    BY <1>6
  <2>5. i > op[p].len \/ i <= op[p].len
    BY <1>2, <2>1
  <2>6. Given(op[p], flavour, ~InHand(p), i)
    BY Zenon, <1>6, <2>3, <2>4, <2>5 DEF Given
  <2> QED BY Zenon, <1>4, <2>1, <2>2, <2>6
<1> QED BY <1>5, <1>6

(* The host indices of a prefetch are given back once, by                  *)
(* terminate_prefetch or by append_host_mem_release, for every set of      *)
(* prefetches, page size, threshold and duration of the inferences.  Each  *)
(* step of handle_storage_operations may find the operation ended by the   *)
(* scheduler, halfway through a token, chunked or never allocated.         *)
THEOREM IndicesOnce == CacheSpec => []HostIndicesOnce
<1>1. CacheInit => CacheInv
  <2>1. CacheInit => FreshState
    BY DEF CacheInit, FreshState, NoPass
  <2> QED BY <2>1, FreshCache
<1>2. CacheInv /\ [CacheNext]_cacheVars => CacheInv'
  BY CacheStep
<1> QED BY <1>1, <1>2, CacheInvOnce, PTL DEF CacheSpec
=============================================================================
