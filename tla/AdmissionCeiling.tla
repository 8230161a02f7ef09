-------------------------- MODULE AdmissionCeiling --------------------------
(* What the router's concurrency limit promises: a ceiling that can be      *)
(* changed at any time, under which a request is admitted only while there  *)
(* is room for it.  A lowered ceiling ends nothing; it only keeps newcomers *)
(* out until enough requests have ended.                                    *)
EXTENDS Integers

CONSTANT Permit                     \* what one request takes of the ceiling

VARIABLES ceiling, inflight

Init == ceiling \in Nat /\ inflight = 0

Admit ==
  /\ Permit * (inflight + 1) <= ceiling
  /\ inflight' = inflight + 1
  /\ UNCHANGED ceiling

Leave ==
  /\ inflight > 0
  /\ inflight' = inflight - 1
  /\ UNCHANGED ceiling

Retune ==
  /\ ceiling' \in Nat
  /\ UNCHANGED inflight

Next == Admit \/ Leave \/ Retune

Spec == Init /\ [][Next]_<<ceiling, inflight>>
=============================================================================
