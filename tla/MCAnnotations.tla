--------------------------- MODULE MCAnnotations ---------------------------
(* Annotations on small instances. *)
EXTENDS Annotations, TLC

CONSTANTS u1, u2, b1, t1, t2, t3

Symmetric == Permutations({u1, u2}) \cup Permutations({t1, t2, t3})
=============================================================================
