----------------------------- MODULE RateWindow -----------------------------
(* The address windows under a running clock, with a log of the decisions. *)
(* One Accept step is one call of accept_address: the clock read and the   *)
(* locked section are one step, as they are microseconds apart and a tick  *)
(* is a fraction of a second.                                              *)
EXTENDS AddressWindow, Sequences

CONSTANTS MaxClock                  \* bound: the clock stops here

VARIABLES
  clock,                            \* Instant::now()
  windows,                          \* ProtectionState.addresses
  passed                            \* history: a |-> when its requests were let through

rateVars == <<clock, windows, passed>>

RateInit ==
  /\ clock = 0
  /\ windows = << >>
  /\ passed = [a \in Address |-> << >>]

accept_address(a) ==
  /\ windows' = WindowsAfter(windows, a, clock)
  /\ IF AcceptsAddress(windows, a, clock)
     THEN passed' = [passed EXCEPT ![a] = Append(@, clock)]
     ELSE passed' = passed
  /\ UNCHANGED clock

ClockTick ==
  /\ clock < MaxClock
  /\ clock' = clock + 1
  /\ UNCHANGED <<windows, passed>>

RateNext == ClockTick \/ \E a \in Address : accept_address(a)

RateSpec == RateInit /\ [][RateNext]_rateVars

-----------------------------------------------------------------------------
(* What was let through, of a log, in the second that begins with entry i. *)
InSecondOf(log, i) == {j \in i .. Len(log) : log[j] < log[i] + Second}

(* The fixed windows of accept_address bound every sliding second too: an  *)
(* address gets at most twice its rate through in any second, whatever     *)
(* windows were restarted or forgotten in between.                         *)
SlidingSecondBound ==
  \A a \in Address : \A i \in DOMAIN passed[a] :
    Cardinality(InSecondOf(passed[a], i)) <= 2 * RequestsPerAddressPerSecond
=============================================================================
