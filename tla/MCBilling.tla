------------------------------ MODULE MCBilling ------------------------------
(* Billing on small instances: one technician, as technicians share nothing. *)
EXTENDS Billing, TLC

CONSTANTS u1, starter, pro, s1, s2, t1, t2

ThreadSymmetry == Permutations({t1, t2})
=============================================================================
