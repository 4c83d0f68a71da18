------------------------------ MODULE MCSession -------------------------------
(* A small instance of Session, see the configuration.                         *)
EXTENDS Session
=============================================================================
