-------------------------- MODULE MCPairSupervisor --------------------------
(* TLC instance of PairSupervisor.                                         *)
EXTENDS PairSupervisor
=============================================================================
