---------------------------- MODULE MCServiceWait ----------------------------
(* A small instance of both clients of a service, see the configuration.      *)
EXTENDS ServiceClients
=============================================================================
