---------------------------- MODULE MCRemoteOrder ----------------------------
(* A small instance of RemoteOrder, see the configuration.  The two tasks do   *)
(* the same; liveness is checked with the rest, so that no symmetry is used.  *)
EXTENDS RemoteOrder

CONSTANTS t1, t2, a, b, o1, o2
=============================================================================
