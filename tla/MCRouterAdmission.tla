------------------------- MODULE MCRouterAdmission -------------------------
(* A ceiling of 2 lowered to 1 or 1.5 requests (in halves) and raised.      *)
EXTENDS RouterAdmission
=============================================================================
