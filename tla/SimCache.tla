------------------------------ MODULE SimCache ------------------------------
(***************************************************************************)
(* The storage side of the simulator's cache.  SGLang backs pages up to    *)
(* storage and prefetches them into host memory on threads of its own.     *)
(* The simulator replaces the threads: the scheduler calls the handlers in *)
(* its event pass, and a prefetch advances by what the disk reads during   *)
(* the last inference.  Host indices of a prefetch belong to two parties:  *)
(* the scheduler takes the part that is complete when it ends the          *)
(* prefetch, the controller releases the rest when it next sees it.        *)
(*                                                                         *)
(* completed_tokens is a float in the code.  Here it counts half tokens,   *)
(* so that int() cuts something off.  Durations are in half tokens read.   *)
(* The handlers run on the scheduler's thread: between the steps of a pass *)
(* nothing else happens.                                                   *)
(***************************************************************************)
EXTENDS Integers, Sequences, Functions, FiniteSetsExt

CONSTANTS
  Prefetch,   \* prefetch operations, one per request
  Pages,      \* [Prefetch -> Seq(page key)]: the pages an operation wants
  PageSize,   \* tokens of a page
  Threshold,  \* prefetch_threshold, in tokens
  MaxDur,     \* bound on the duration of an inference
  NoOp        \* no chunked_prefetch_operation

VARIABLES
  flavour,  \* "off" | "legacy" (HiRadixCache) | "unified" (UnifiedRadixCache)
  storage,  \* [mem |-> keys of MockHiCacheStorage, file |-> keys in its file]
  queues,   \* the queues between scheduler and controller, and the chunked operation
  op,       \* the operations
  given,    \* given[p][i]: how often the i-th host index of p was given back
  pass      \* where the event pass is, its round, the duration it has and has left

cacheVars == <<flavour, storage, queues, op, given, pass>>

CacheAssumption ==
  /\ PageSize \in Nat \ {0} /\ Threshold \in Nat /\ MaxDur \in Nat \ {0}
  /\ \A p \in Prefetch : Len(Pages[p]) \in Nat
  /\ NoOp \notin Prefetch
ASSUME CacheAssumption

Want(p) == PageSize * Len(Pages[p])

\* len: length of host_indices, 0 for None.  done: completed_tokens, in halves.
FreshOp == [at |-> "off", len |-> 0, hit |-> 0, done |-> 0, terminated |-> FALSE, taken |-> FALSE]
FreshQueues == [prefetch |-> <<>>, hits |-> <<>>, ready |-> <<>>, buffer |-> <<>>,
                revoked |-> <<>>, backup |-> <<>>, chunk |-> NoOp]
NoPass == [at |-> "idle", round |-> 1, dur |-> 0, remain |-> 0]
NoneGiven == [p \in Prefetch |-> [i \in 1..Want(p) |-> 0]]

CacheInit ==
  /\ flavour = "off" /\ storage = [mem |-> {}, file |-> {}] /\ queues = FreshQueues
  /\ op = [p \in Prefetch |-> FreshOp] /\ given = NoneGiven /\ pass = NoPass

CacheStart(f) ==
  flavour = "off" /\ flavour' = f /\ UNCHANGED <<storage, queues, op, given, pass>>

Free == flavour # "off" /\ pass.at = "idle"

(***************************** the mock storage ****************************)

\* A key of one pool: kv, or another pool of the unified cache.
pool_storage_key(key, pool) == <<key, pool>>
HasComponent(keys, i, pool) == pool_storage_key(keys[i], pool) \in storage.mem

\* How many keys in a row, from the first, are stored.
batch_exists(keys) == Max({n \in 0..Len(keys) : \A i \in 1..n : HasComponent(keys, i, "kv")})

\* The boundary of one more pool under its hit policy.  "trailing" looks for the
\* longest prefix whose last page the pool has.
PoolBoundary(keys, pool, policy) ==
  LET n == batch_exists(keys)
  IN IF policy = "all_pages"
     THEN Max({m \in 0..n : \A i \in 1..m : HasComponent(keys, i, pool)})
     ELSE Max({0} \cup {m \in 1..n : HasComponent(keys, m, pool)})

\* The pools of the unified cache beside kv, with their policies.
ExtraPools == {<<"swa", "trailing">>, <<"index", "all_pages">>}
Pools == IF flavour = "unified" THEN {"kv"} \cup {t[1] : t \in ExtraPools} ELSE {"kv"}

batch_exists_v2(keys) ==
  Min({batch_exists(keys)} \cup {PoolBoundary(keys, t[1], t[2]) : t \in ExtraPools})

\* _storage_hit_query counts tokens of whole pages (external, over the mock).
storage_hit_query(p) ==
  PageSize * (IF flavour = "unified" THEN batch_exists_v2(Pages[p]) ELSE batch_exists(Pages[p]))

clear ==
  /\ Free /\ storage' = [mem |-> {}, file |-> {}]
  /\ UNCHANGED <<flavour, queues, op, given, pass>>

\* The process starts again: all but the file of keys is lost.
Restart ==
  /\ Free /\ storage' = [storage EXCEPT !.mem = storage.file] /\ queues' = FreshQueues
  /\ op' = [p \in Prefetch |-> FreshOp] /\ given' = NoneGiven
  /\ UNCHANGED <<flavour, pass>>

(************************** the scheduler's side ***************************)

\* write_backup_storage (external): the pages of a request go to the backup queue.
Backup(p) ==
  /\ Free /\ queues.backup = <<>> /\ queues' = [queues EXCEPT !.backup = <<p>>]
  /\ UNCHANGED <<flavour, storage, op, given, pass>>

\* prefetch_from_storage (external): the legacy cache allocates the host indices
\* now, the unified one after the storage was asked.
Issue(p) ==
  /\ Free /\ op[p].at = "off"
  /\ op' = [op EXCEPT ![p].at = "live", ![p].len = IF flavour = "legacy" THEN Want(p) ELSE 0]
  /\ queues' = [queues EXCEPT !.prefetch = Append(@, p)]
  /\ UNCHANGED <<flavour, storage, given, pass>>

GiveBack(p, from, to) ==
  given' = [given EXCEPT ![p] = [i \in DOMAIN @ |-> IF i \in (from + 1)..to THEN @[i] + 1 ELSE @[i]]]

\* terminate_prefetch: the scheduler ends the operation, because its policy lets
\* it, because it is complete, or because the request was aborted.  It takes the
\* complete indices: int() of the half tokens.
terminate_prefetch(p) ==
  /\ Free /\ op[p].at = "live" /\ ~op[p].taken
  /\ op' = [op EXCEPT ![p].terminated = TRUE, ![p].taken = TRUE]
  /\ GiveBack(p, 0, op[p].done \div 2)
  /\ UNCHANGED <<flavour, storage, queues, pass>>

(**************************** the event pass *******************************)

\* set leaves a known key alone; a new one goes to memory and to the file.
batch_set(keys) == [mem |-> storage.mem \cup keys, file |-> storage.file \cup (keys \ storage.mem)]

\* Everything queued is stored and acknowledged.
handle_backup_operation ==
  storage' = batch_set({pool_storage_key(k, pool) :
               k \in UNION {Range(Pages[p]) : p \in Range(queues.backup)}, pool \in Pools})

\* wrapped_check_hicache_events begins.  No backup is queued during a pass, so the
\* second call of the backup handler finds nothing.
BeginPass(dur) ==
  /\ Free /\ handle_backup_operation
  /\ queues' = [queues EXCEPT !.backup = <<>>]
  /\ pass' = [at |-> "query", round |-> 1, dur |-> dur, remain |-> dur]
  /\ UNCHANGED <<flavour, op, given>>

\* Mutant: one index too many is released.
ReleaseFromBefore(p, from) == GiveBack(p, from - 1, op[p].len)

\* append_host_mem_release(operation.host_indices[from:]).  Without host memory
\* (None) nothing happens.
append_host_mem_release(p, from) == GiveBack(p, from, op[p].len)

\* One operation of prefetch_queue: ended already, not worth it, or a hit.
QueryOne(p, rest) ==
  LET hit == storage_hit_query(p)
  IN \/ /\ flavour = "unified" /\ (op[p].terminated \/ hit < Threshold)
        /\ queues' = [rest EXCEPT !.revoked = Append(@, p)] /\ UNCHANGED <<op, given>>
     \/ /\ flavour = "legacy" /\ (op[p].terminated \/ hit < Threshold)
        /\ op' = [op EXCEPT ![p].terminated = TRUE]
        /\ append_host_mem_release(p, 0) /\ queues' = rest
     \/ /\ flavour = "unified" /\ ~op[p].terminated /\ hit >= Threshold
        /\ op' = [op EXCEPT ![p].hit = hit]
        /\ queues' = [rest EXCEPT !.hits = Append(@, p)] /\ UNCHANGED given
     \/ /\ flavour = "legacy" /\ ~op[p].terminated /\ hit >= Threshold
        /\ append_host_mem_release(p, hit)
        /\ op' = [op EXCEPT ![p].len = hit]
        /\ queues' = [rest EXCEPT !.buffer = Append(@, p)]

Query ==
  /\ pass.at = "query" /\ queues.prefetch # <<>>
  /\ QueryOne(Head(queues.prefetch), [queues EXCEPT !.prefetch = Tail(@)])
  /\ UNCHANGED <<flavour, storage, pass>>

\* calc_prefetch_pages: all of it if there is time, else what fits and at least
\* one token.  Returns <<completed, duration>>.
calc_prefetch_pages(required, max_dur) ==
  IF required > max_dur THEN <<Max({max_dur, 2}), max_dur>> ELSE <<required, required>>

\* The operation that an earlier pass began.
ChunkOne(p) ==
  LET left == 2 * op[p].hit - op[p].done
      step == calc_prefetch_pages(left, pass.remain)
  IN \/ /\ op[p].terminated
        /\ queues' = [queues EXCEPT !.chunk = NoOp]
        /\ append_host_mem_release(p, op[p].done \div 2)
        /\ pass' = [pass EXCEPT !.at = "feed"] /\ UNCHANGED op
     \/ /\ ~op[p].terminated /\ step[1] < left
        /\ op' = [op EXCEPT ![p].done = @ + step[1]]
        /\ pass' = [pass EXCEPT !.at = "feed", !.remain = 0] /\ UNCHANGED <<queues, given>>
     \/ /\ ~op[p].terminated /\ step[1] >= left
        /\ op' = [op EXCEPT ![p].done = 2 * op[p].hit, ![p].terminated = TRUE]
        /\ queues' = [queues EXCEPT !.chunk = NoOp]
        /\ append_host_mem_release(p, op[p].hit)
        /\ pass' = [pass EXCEPT !.at = "feed", !.remain = @ - step[2]]

Chunk ==
  /\ pass.at = "query" /\ queues.prefetch = <<>>
  /\ \/ queues.chunk # NoOp /\ ChunkOne(queues.chunk)
     \/ queues.chunk = NoOp /\ pass' = [pass EXCEPT !.at = "feed"] /\ UNCHANGED <<queues, op, given>>
  /\ UNCHANGED <<flavour, storage>>

\* Mutant: operations with host pages are not handed on.
FeedNothing ==
  /\ pass.at = "feed" /\ pass' = [pass EXCEPT !.at = "transfer"]
  /\ UNCHANGED <<flavour, storage, queues, op, given>>

\* Operations that the scheduler allocated host pages for join the transfers.
Feed ==
  /\ pass.at = "feed" /\ pass' = [pass EXCEPT !.at = "transfer"]
  /\ queues' = [queues EXCEPT !.buffer = @ \o queues.ready, !.ready = <<>>]
  /\ UNCHANGED <<flavour, storage, op, given>>

\* One operation of sim_prefetch_buffer.
TransferOne(p, rest) ==
  LET hit  == op[p].len
      step == calc_prefetch_pages(2 * hit, pass.remain)
  IN \/ /\ op[p].terminated
        /\ append_host_mem_release(p, op[p].done \div 2)
        /\ queues' = rest /\ UNCHANGED <<op, pass>>
     \/ /\ ~op[p].terminated /\ step[1] < 2 * hit
        /\ op' = [op EXCEPT ![p].done = step[1], ![p].hit = hit]
        /\ queues' = [rest EXCEPT !.chunk = p]
        /\ pass' = [pass EXCEPT !.remain = 0] /\ UNCHANGED given
     \/ /\ ~op[p].terminated /\ step[1] >= 2 * hit
        /\ op' = [op EXCEPT ![p].done = 2 * ((hit \div PageSize) * PageSize), ![p].terminated = TRUE]
        /\ queues' = rest
        /\ pass' = [pass EXCEPT !.remain = @ - step[2]] /\ UNCHANGED given

Transfer ==
  /\ pass.at = "transfer" /\ pass.remain > 0 /\ queues.buffer # <<>>
  /\ TransferOne(Head(queues.buffer), [queues EXCEPT !.buffer = Tail(@)])
  /\ UNCHANGED <<flavour, storage>>

\* The handler returns.  In the unified cache it runs again after SGLang's own
\* pass; the legacy one has nothing left for that pass to do here.
EndHandler ==
  /\ pass.at = "transfer" /\ (pass.remain = 0 \/ queues.buffer = <<>>)
  /\ pass' = IF flavour = "unified" /\ pass.round = 1 THEN [pass EXCEPT !.at = "events"] ELSE NoPass
  /\ UNCHANGED <<flavour, storage, queues, op, given>>

\* check_hicache_events of SGLang (external): the unified cache allocates host
\* pages for a hit, if there is room, and drops what was revoked.
AllocateOne(p, rest, room) ==
  \/ /\ op[p].terminated \/ ~room
     /\ op' = [op EXCEPT ![p].terminated = TRUE] /\ queues' = rest
  \/ /\ ~op[p].terminated /\ room
     /\ op' = [op EXCEPT ![p].len = op[p].hit]
     /\ queues' = [rest EXCEPT !.ready = Append(@, p)]

Allocate(room) ==
  /\ pass.at = "events" /\ queues.hits # <<>>
  /\ AllocateOne(Head(queues.hits), [queues EXCEPT !.hits = Tail(@)], room)
  /\ UNCHANGED <<flavour, storage, given, pass>>

DropRevoked ==
  /\ pass.at = "events" /\ queues.revoked # <<>>
  /\ op' = [op EXCEPT ![Head(queues.revoked)].terminated = TRUE]
  /\ queues' = [queues EXCEPT !.revoked = Tail(@)]
  /\ UNCHANGED <<flavour, storage, given, pass>>

\* The second run of the handler has the whole duration: it is read, not used up.
RunAgain ==
  /\ pass.at = "events" /\ queues.hits = <<>> /\ queues.revoked = <<>>
  /\ pass' = [pass EXCEPT !.at = "query", !.round = 2, !.remain = pass.dur]
  /\ UNCHANGED <<flavour, storage, queues, op, given>>

PassStep ==
  \/ Query \/ Chunk \/ Feed \/ Transfer \/ EndHandler
  \/ (\E room \in BOOLEAN : Allocate(room)) \/ DropRevoked \/ RunAgain

CacheNext ==
  \/ \E f \in {"legacy", "unified"} : CacheStart(f)
  \/ clear \/ Restart \/ PassStep
  \/ \E p \in Prefetch : Issue(p) \/ terminate_prefetch(p) \/ Backup(p)
  \/ \E dur \in 0..MaxDur : BeginPass(dur)

CacheSpec == CacheInit /\ [][CacheNext]_cacheVars

\* The scheduler keeps passing, a pass with a positive duration comes again (it
\* steps by 5 ms when nothing else runs), and it ends what is complete.
CacheFairness ==
  /\ WF_cacheVars(PassStep)
  /\ SF_cacheVars(\E dur \in 1..MaxDur : BeginPass(dur))
  /\ \A p \in Prefetch : SF_cacheVars(op[p].terminated /\ terminate_prefetch(p))

-----------------------------------------------------------------------------
QueueNames == {"prefetch", "hits", "ready", "buffer", "revoked"}
InHand(p) == p = queues.chunk \/ \E q \in QueueNames : p \in Range(queues[q])

\* Every host index of a prefetch is given back once: released by the
\* controller or taken by the scheduler, never both and never twice.  When both
\* have let go of the operation, none of its indices is left over.
HostIndicesOnce ==
  \A p \in Prefetch :
    LET held == IF flavour = "legacy" THEN Want(p) ELSE op[p].len
    IN /\ \A i \in 1..Want(p) : given[p][i] <= 1
       /\ (op[p].taken /\ ~InHand(p)) => \A i \in 1..held : given[p][i] = 1

\* A prefetch that was issued is ended by the scheduler and leaves the
\* controller's queues, whatever its pages and the other prefetches do.
PrefetchSettles ==
  \A p \in Prefetch :
    (op[p].at = "live") ~> (op[p].at = "off" \/ (op[p].taken /\ ~InHand(p)))
=============================================================================
