----------------------------- MODULE MCOutlines -----------------------------
(* PartOutlines on small grids. *)
EXTENDS PartOutlines

\* Distances in and out of the brackets, and on both sides of 50 and 90.
Grid == {0, 20, 100}
\* From four pins on, passives are drawn as all other parts are.
Pins == [l \in Letter |-> IF l \in Passive THEN 4 ELSE 5]
=============================================================================
