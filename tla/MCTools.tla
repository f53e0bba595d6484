------------------------------ MODULE MCTools ------------------------------
(* A small instance of the shared tools for TLC. *)
EXTENDS SessionToolsProperties
CONSTANTS s1, b1, b2, d1, f1
=============================================================================
