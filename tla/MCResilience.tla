---------------------------- MODULE MCResilience ----------------------------
(* Small instances of Resilience. *)
EXTENDS Resilience
=============================================================================
