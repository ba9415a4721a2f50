---------------------------- MODULE MCIntegration ----------------------------
(* Checking Integration with TLC. *)
EXTENDS Integration
=============================================================================
