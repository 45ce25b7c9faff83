---------------------------- MODULE MCDispatcher ----------------------------
(* Dispatcher for TLC; the constants are in the configurations. *)
EXTENDS Dispatcher
=============================================================================
