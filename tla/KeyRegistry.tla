----------------------------- MODULE KeyRegistry -----------------------------
(* The gateway's copy of the admin key registry                            *)
(* (services/gateway/src/api_keys.rs, key_registry.rs) and the loop that   *)
(* pulls it (services/gateway/src/admin_client.rs).                        *)
(*                                                                         *)
(* The admin publishes numbered snapshots.  The pull loop fetches the      *)
(* newest one; a push carries any snapshot published so far, so pushes may *)
(* be late, repeated or out of order.  Both run KeyStore::apply, whose     *)
(* steps are the checks outside the lock, the decision under the write     *)
(* lock, and the gauges set after it.  A restarted gateway holds nothing.  *)
EXTENDS Naturals

CONSTANTS
  Key,                              \* API keys
  Push,                             \* push requests that can be in flight
  AuthRequest,                          \* inference requests in flight
  Pull,                             \* the pull loop
  Publishable,                      \* the snapshots the admin can publish
  MaxRevision,                      \* bound: revisions the admin publishes
  MaxRestarts,                      \* bound: restarts of the gateway
  NoKey                              \* no snapshot, no key

(* A row names this gateway's pepper or another one ("foreign"); a form    *)
(* that is not "ok" fails validate_push ("envelope") or parse ("row").     *)
Row      == {"absent", "active", "revoked", "foreign"}
Rows     == [Key -> Row]
SnapType == [pepper : {"same", "other", "unstated"},
             form : {"ok", "envelope", "row"}, rows : Rows]
Revision == 1 .. MaxRevision

ASSUME RegistryAssumption ==
  /\ MaxRevision \in Nat /\ MaxRestarts \in Nat
  /\ Publishable \subseteq SnapType
  /\ Pull \notin Push /\ NoKey \notin Key

Caller == Push \cup {Pull}

VARIABLES
  history,                          \* Revision -> the snapshot published
  published,                        \* the admin's newest revision
  held,                             \* the cached revision, 0 for none
  keys,                             \* the cached rows
  call, revision,                   \* each apply call and its revision
  revision_gauge,                   \* gateway_key_registry_revision
  mismatch_gauge,                   \* gateway_key_registry_pepper_mismatch
  acked,                            \* history: revisions answered with 200
  auth, bearer, floor,              \* each request, its key, and history:
                                    \* what was held when it began
  restarts

adminVars == <<history, published>>
storeVars == <<held, keys>>
applyVars == <<call, revision, revision_gauge, mismatch_gauge, acked>>
authVars  == <<auth, bearer, floor>>
registryVars == <<adminVars, storeVars, applyVars, authVars, restarts>>

NoRows == [k \in Key |-> "absent"]

(* apply: "received" before the checks, "checked" before the lock,         *)
(* "decided" after it.  "idle" for the pull loop is its sleep.             *)
ApplyPhase == {"idle", "received", "checked", "decided"}
AuthPhase  == {"idle", "begun", "not_active", "Active", "Revoked", "Invalid"}

RegistryTypes ==
  /\ history \in [Revision -> SnapType]
  /\ published \in 0 .. MaxRevision
  /\ held \in 0 .. MaxRevision /\ keys \in Rows
  /\ call \in [Caller -> ApplyPhase] /\ revision \in [Caller -> 0 .. MaxRevision]
  /\ revision_gauge \in 0 .. MaxRevision /\ mismatch_gauge \in {0, 1}
  /\ acked \subseteq Revision
  /\ auth \in [AuthRequest -> AuthPhase] /\ bearer \in [AuthRequest -> Key \cup {NoKey}]
  /\ floor \in [AuthRequest -> 0 .. MaxRevision]
  /\ restarts \in 0 .. MaxRestarts

RegistryInit ==
  /\ history = [n \in Revision |->
                  [pepper |-> "unstated", form |-> "ok", rows |-> NoRows]]
  /\ published = 0
  /\ held = 0 /\ keys = NoRows
  /\ call = [c \in Caller |-> "idle"] /\ revision = [c \in Caller |-> 0]
  /\ revision_gauge = 0 /\ mismatch_gauge = 0 /\ acked = {}
  /\ auth = [r \in AuthRequest |-> "idle"] /\ bearer = [r \in AuthRequest |-> NoKey]
  /\ floor = [r \in AuthRequest |-> 0]
  /\ restarts = 0

-----------------------------------------------------------------------------
(* The admin, outside this repository: a new revision never takes back the *)
(* revocation of a key.                                                    *)
RevokedStays(s) ==
  \A n \in Revision, k \in Key :
    n <= published /\ history[n].rows[k] = "revoked" => s.rows[k] = "revoked"

Publish(s) ==
  /\ published < MaxRevision /\ RevokedStays(s)
  /\ published' = published + 1
  /\ history' = [history EXCEPT ![published + 1] = s]
  /\ UNCHANGED <<storeVars, applyVars, authVars, restarts>>

(* push_snapshot begins.                                                   *)
ReceivePush(c, n) ==
  /\ c \in Push /\ call[c] = "idle" /\ n <= published
  /\ call' = [call EXCEPT ![c] = "received"]
  /\ revision' = [revision EXCEPT ![c] = n]
  /\ UNCHANGED <<revision_gauge, mismatch_gauge, acked, adminVars, storeVars,
                 authVars, restarts>>

(* sync_keys: key_snapshot answers.  A failed fetch changes nothing.       *)
FetchSnapshot ==
  /\ call[Pull] = "idle" /\ published > 0
  /\ call' = [call EXCEPT ![Pull] = "received"]
  /\ revision' = [revision EXCEPT ![Pull] = published]
  /\ UNCHANGED <<revision_gauge, mismatch_gauge, acked, adminVars, storeVars,
                 authVars, restarts>>

Carried(c) == history[revision[c]]

(* validate_push, then check_snapshot_pepper: an envelope that states no   *)
(* pepper leaves the gauge alone.                                          *)
Acceptable(s) == s.form # "envelope" /\ s.pepper # "other"

Check(c) ==
  /\ call[c] = "received"
  /\ mismatch_gauge' =
       IF Carried(c).form = "envelope" \/ Carried(c).pepper = "unstated"
       THEN mismatch_gauge
       ELSE IF Carried(c).pepper = "same" THEN 0 ELSE 1
  /\ call' = [call EXCEPT ![c] =
       IF Acceptable(Carried(c)) THEN "checked" ELSE "idle"]
  /\ UNCHANGED <<revision, revision_gauge, acked, adminVars, storeVars,
                 authVars, restarts>>

(* Rows of another pepper are skipped.                                     *)
parse(s) ==
  [k \in Key |-> IF s.rows[k] = "foreign" THEN "absent" ELSE s.rows[k]]

(* Mutants: a lower revision replaces the cache; only the first one is     *)
(* applied.                                                                *)
DecideAny(c) ==
  /\ call[c] = "checked"
  /\ IF Carried(c).form = "row"
     THEN call' = [call EXCEPT ![c] = "idle"] /\ UNCHANGED storeVars
     ELSE /\ held' = revision[c] /\ keys' = parse(Carried(c))
          /\ call' = [call EXCEPT ![c] = "decided"]
  /\ UNCHANGED <<revision, revision_gauge, mismatch_gauge, acked, adminVars,
                 authVars, restarts>>
DecideFirst(c) ==
  /\ call[c] = "checked"
  /\ IF held = 0 /\ Carried(c).form # "row"
     THEN /\ held' = revision[c] /\ keys' = parse(Carried(c))
          /\ call' = [call EXCEPT ![c] = "decided"]
     ELSE call' = [call EXCEPT ![c] = "idle"] /\ UNCHANGED storeVars
  /\ UNCHANGED <<revision, revision_gauge, mismatch_gauge, acked, adminVars,
                 authVars, restarts>>

(* revision_decision and its outcome, under the write lock: apply a higher *)
(* revision, acknowledge an equal one, refuse a lower one.                 *)
Decide(c) ==
  /\ call[c] = "checked"
  /\ \/ /\ revision[c] > held /\ Carried(c).form # "row"
        /\ held' = revision[c] /\ keys' = parse(Carried(c))
        /\ call' = [call EXCEPT ![c] = "decided"]
     \/ /\ revision[c] = held
        /\ call' = [call EXCEPT ![c] = "decided"]
        /\ UNCHANGED storeVars
     \/ /\ revision[c] < held \/ (revision[c] > held /\ Carried(c).form = "row")
        /\ call' = [call EXCEPT ![c] = "idle"]
        /\ UNCHANGED storeVars
  /\ UNCHANGED <<revision, revision_gauge, mismatch_gauge, acked, adminVars,
                 authVars, restarts>>

(* The gauges of apply, after the lock, and the answer.                    *)
SetGauges(c) ==
  /\ call[c] = "decided"
  /\ revision_gauge' = revision[c]
  /\ acked' = acked \cup {revision[c]}
  /\ call' = [call EXCEPT ![c] = "idle"]
  /\ UNCHANGED <<revision, mismatch_gauge, adminVars, storeVars, authVars,
                 restarts>>

-----------------------------------------------------------------------------
(* authenticate takes the read lock twice: for an active key, then for a   *)
(* revoked one.  Without a snapshot the request is answered 503 before.    *)
BeginRequest(r, k) ==
  /\ auth[r] = "idle" /\ held > 0
  /\ auth' = [auth EXCEPT ![r] = "begun"]
  /\ bearer' = [bearer EXCEPT ![r] = k]
  /\ floor' = [floor EXCEPT ![r] = held]
  /\ UNCHANGED <<adminVars, storeVars, applyVars, restarts>>

Verify(r) ==
  /\ auth[r] = "begun"
  /\ auth' = [auth EXCEPT ![r] =
       IF keys[bearer[r]] = "active" THEN "Active" ELSE "not_active"]
  /\ UNCHANGED <<bearer, floor, adminVars, storeVars, applyVars, restarts>>

VerifyRevoked(r) ==
  /\ auth[r] = "not_active"
  /\ auth' = [auth EXCEPT ![r] =
       IF keys[bearer[r]] = "revoked" THEN "Revoked" ELSE "Invalid"]
  /\ UNCHANGED <<bearer, floor, adminVars, storeVars, applyVars, restarts>>

EndRequest(r) ==
  /\ auth[r] \in {"Active", "Revoked", "Invalid"}
  /\ auth' = [auth EXCEPT ![r] = "idle"]
  /\ bearer' = [bearer EXCEPT ![r] = NoKey]
  /\ floor' = [floor EXCEPT ![r] = 0]
  /\ UNCHANGED <<adminVars, storeVars, applyVars, restarts>>

(* The process restarts: the cache, the gauges and every call are gone.    *)
Restart ==
  /\ restarts < MaxRestarts
  /\ restarts' = restarts + 1
  /\ held' = 0 /\ keys' = NoRows
  /\ call' = [c \in Caller |-> "idle"] /\ revision' = [c \in Caller |-> 0]
  /\ revision_gauge' = 0 /\ mismatch_gauge' = 0 /\ acked' = {}
  /\ auth' = [r \in AuthRequest |-> "idle"] /\ bearer' = [r \in AuthRequest |-> NoKey]
  /\ floor' = [r \in AuthRequest |-> 0]
  /\ UNCHANGED adminVars

Apply(c) == Check(c) \/ Decide(c) \/ SetGauges(c)

Authenticate(r) ==
  \/ \E k \in Key : BeginRequest(r, k)
  \/ Verify(r) \/ VerifyRevoked(r) \/ EndRequest(r)

RegistryNext ==
  \/ \E s \in Publishable : Publish(s)
  \/ \E c \in Push, n \in Revision : ReceivePush(c, n)
  \/ FetchSnapshot
  \/ \E c \in Caller : Apply(c)
  \/ \E r \in AuthRequest : Authenticate(r)
  \/ Restart

RegistrySpec == RegistryInit /\ [][RegistryNext]_registryVars

(* The pull loop never ends, and a fetch that is tried every 30 s is not   *)
(* lost for ever; a call that has begun goes on.                           *)
Fairness ==
  /\ WF_registryVars(FetchSnapshot)
  /\ \A c \in Caller : WF_registryVars(Apply(c))
FairSpec == RegistrySpec /\ Fairness

-----------------------------------------------------------------------------
(* The cache is one published snapshot, whole: a refused snapshot, a bad   *)
(* row or a concurrent apply never leaves a mixture or a rest of two.      *)
CacheWhole ==
  IF held = 0 THEN keys = NoRows
  ELSE held <= published /\ keys = parse(history[held])

(* A revision answered with 200 is held, or a higher one is: late and      *)
(* repeated pushes and the pull loop never roll an acknowledged key set    *)
(* back.                                                                   *)
AckedHeld == \A n \in acked : n <= held

(* A key that was revoked in the snapshot held when a request began is not *)
(* accepted for it, whatever is applied while the request authenticates.   *)
RevocationHolds ==
  \A r \in AuthRequest : auth[r] = "Active" =>
    history[floor[r]].rows[bearer[r]] # "revoked"

(* The pull loop brings the newest snapshot, if it can be applied at all,  *)
(* also after a restart and while old pushes arrive.                       *)
Good(n) == history[n].form = "ok" /\ history[n].pepper # "other"
CatchesUp ==
  \A n \in Revision :
    (published = n /\ Good(n)) ~> (held >= n \/ published > n)

=============================================================================
