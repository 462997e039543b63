----------------------------- MODULE MCChildSet -----------------------------
(* An instance of ChildSet for TLC: up to two targets, two templates. *)
EXTENDS ChildSet

CONSTANTS u, v, a, b
=============================================================================
