----------------------------- MODULE MCDispatch -----------------------------
(* A small instance of the project work for TLC. *)
EXTENDS DispatchProperties, TLC

CONSTANTS h1, dh, d1, d2, x1, k1, e1, e2, c1, c2, engine

Symmetry == Permutations({c1, c2})
HandoffDispatch(h) == dh
=============================================================================
