--------------------------- MODULE MCSupervision ---------------------------
(* Supervision for TLC: the constants are given in the configurations. *)
EXTENDS Supervision
=============================================================================
