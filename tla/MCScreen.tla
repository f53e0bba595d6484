------------------------------ MODULE MCScreen ------------------------------
(* Two sessions, two turns and two calls of the renderer at a time, all of them  *)
(* interchangeable: the properties name none.                                    *)
EXTENDS ChatScreenProperties, TLC

\* Bound: no more than two events of a turn are on their way.
FewEvents == \A t \in Turn : Len(wire[t]) <= 2

Symmetric == Permutations(Session) \cup Permutations(Turn) \cup Permutations(Hand)
=============================================================================
