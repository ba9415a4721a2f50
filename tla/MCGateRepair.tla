---------------------------- MODULE MCGateRepair ----------------------------
(* Model values and symmetry for checking GateRepair with TLC. *)
EXTENDS GateRepair, TLC

CONSTANTS standards, spec
=============================================================================
