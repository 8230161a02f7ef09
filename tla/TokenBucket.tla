---------------------------- MODULE TokenBucket ----------------------------
(* The router's TokenBucket in pure concurrency mode (refill_rate = 0), as  *)
(* images/sglang-router/patches/admission-caps.patch leaves it.  Each       *)
(* operator is one section under the bucket's mutex.                        *)
(*                                                                          *)
(* POST /admission accepts any finite ceiling from 1.0, so tokens are       *)
(* counted in halves: a permit is Permit units, a ceiling of 1.5 is three.  *)
EXTENDS Integers

Permit == 2

Bucket == [tokens : Nat, capacity : Nat, debt : Nat]

Lesser(a, b) == IF a <= b THEN a ELSE b

(* TokenBucket::new                                                         *)
NewBucket(n) == [tokens |-> Permit * n, capacity |-> Permit * n, debt |-> 0]

(* TokenBucket::in_flight                                                   *)
InFlight(b) == (IF b.capacity >= b.tokens THEN b.capacity - b.tokens ELSE 0) + b.debt

(* try_acquire(1.0)                                                         *)
HasPermit(b) == b.tokens >= Permit
Acquired(b)  == [b EXCEPT !.tokens = @ - Permit]

(* Mutant: a permit that comes back is available at once.                   *)
ReturnedIgnoringDebt(b) ==
  [b EXCEPT !.tokens = Lesser(@ + Permit, b.capacity)]

(* return_tokens_sync(1.0): debt of a lowered ceiling is retired first.     *)
Returned(b) ==
  LET paid == Lesser(b.debt, Permit) IN
    [tokens   |-> Lesser(b.tokens + (Permit - paid), b.capacity),
     capacity |-> b.capacity,
     debt     |-> b.debt - paid]

(* set_capacity: a raise pays debt and credits the rest, a cut takes what   *)
(* is available and leaves the rest as debt.                                *)
Retuned(b, c) ==
  IF c > b.capacity
  THEN LET paid == Lesser(b.debt, c - b.capacity) IN
         [tokens   |-> b.tokens + ((c - b.capacity) - paid),
          capacity |-> c,
          debt     |-> b.debt - paid]
  ELSE LET taken == Lesser(b.tokens, b.capacity - c) IN
         [tokens   |-> b.tokens - taken,
          capacity |-> c,
          debt     |-> b.debt + ((b.capacity - c) - taken)]
=============================================================================
