------------------------------- MODULE MCHome -------------------------------
(* A small instance of a home for TLC. *)
EXTENDS EngineHomeProperties
CONSTANTS e1, e2, c1, t1
=============================================================================
