--------------------------- MODULE MCPublicLimits ---------------------------
(* Four requests from three addresses through a table of two entries.      *)
EXTENDS PublicLimits, TLC

Symmetric == Permutations(Request) \cup Permutations(Address)
=============================================================================
