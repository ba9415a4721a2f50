-------------------------- MODULE MCRetrospective --------------------------
(* Retrospective with the bounds of the .cfg files. *)
EXTENDS Retrospective
=============================================================================
