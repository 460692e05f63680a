---------------------------- MODULE MCReadQuery ----------------------------
(* Instance of ReadQuery for TLC. *)
EXTENDS ReadQuery

\* Nothing given, and both sides of every bound.
SomeCounts == {-1, 0, 1, 200, 201, 500, 501}
SomeHours == {-1, 0, 1, 168, 169, 720, 721}
=============================================================================
