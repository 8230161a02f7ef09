-------------------------- MODULE MCProxyInference --------------------------
(* Three requests of one key, which may have two; one can run at a time    *)
(* and one can queue.                                                      *)
EXTENDS ProxyInference
=============================================================================
