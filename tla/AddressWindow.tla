--------------------------- MODULE AddressWindow ---------------------------
(* The per-address request windows of the gateway's public listener:       *)
(* `ProtectionState::accept_address` (services/gateway/src/protection.rs). *)
(* Pure operators on the map of windows, shared by RateWindow (the windows *)
(* alone, against a log of what they let through) and PublicLimits (the    *)
(* whole middleware).  An address is a model value, an instant a number of *)
(* clock ticks.                                                            *)
EXTENDS Integers, FiniteSets

CONSTANTS
  Address,                          \* client addresses
  Second,                           \* clock ticks in one second
  ADDRESS_CAPACITY,                 \* windows kept at once
  RequestsPerAddressPerSecond       \* requests_per_address_per_second

ASSUME WindowAssumption ==
  /\ Second \in Nat \ {0}
  /\ ADDRESS_CAPACITY \in Nat \ {0}
  /\ RequestsPerAddressPerSecond \in Nat \ {0}

AddrWindow == [started : Nat, requests : 0 .. RequestsPerAddressPerSecond]

(* The map: a function on the addresses that have a window.                *)
IsWindowMap(windows) ==
  /\ DOMAIN windows \subseteq Address
  /\ windows \in [DOMAIN windows -> AddrWindow]

(* `addresses.retain`: windows of two seconds and more are forgotten.      *)
Retained(windows, now) ==
  [a \in {b \in DOMAIN windows : now - windows[b].started < 2 * Second}
     |-> windows[a]]

(* A new address while the table is full.                                  *)
NoWindowFor(windows, a) ==
  /\ a \notin DOMAIN windows
  /\ Cardinality(DOMAIN windows) >= ADDRESS_CAPACITY

(* The window the request counts in: a new or restarted one is empty.      *)
WindowOf(windows, a, now) ==
  IF a \in DOMAIN windows /\ now - windows[a].started < Second
  THEN windows[a]
  ELSE [started |-> now, requests |-> 0]

(* Mutant: one request over the rate is let through.                       *)
AcceptsOneMore(windows, a, now) ==
  LET kept == Retained(windows, now) IN
    /\ ~ NoWindowFor(kept, a)
    /\ WindowOf(kept, a, now).requests <= RequestsPerAddressPerSecond

(* The decision of accept_address, taken on the retained windows.          *)
AcceptsAddress(windows, a, now) ==
  LET kept == Retained(windows, now) IN
    /\ ~ NoWindowFor(kept, a)
    /\ WindowOf(kept, a, now).requests < RequestsPerAddressPerSecond

(* The windows accept_address leaves behind, whatever it decided.          *)
WindowsAfter(windows, a, now) ==
  LET kept == Retained(windows, now)
      old  == WindowOf(kept, a, now)
      new  == IF AcceptsAddress(windows, a, now)
              THEN [old EXCEPT !.requests = @ + 1]
              ELSE old
  IN IF NoWindowFor(kept, a)
     THEN kept
     ELSE [b \in DOMAIN kept \cup {a} |-> IF b = a THEN new ELSE kept[b]]
=============================================================================
