------------------------------ MODULE MCBroker ------------------------------
(* Broker for TLC: the constants are given in the configurations. *)
EXTENDS Broker
=============================================================================
