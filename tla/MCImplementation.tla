-------------------------- MODULE MCImplementation --------------------------
(* Implementation for TLC: the constants are given in the configurations. *)
EXTENDS Implementation
=============================================================================
