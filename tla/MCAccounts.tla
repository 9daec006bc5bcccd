----------------------------- MODULE MCAccounts -----------------------------
(* Accounts on small instances. *)
EXTENDS Accounts, TLC

CONSTANTS u1, e1, e2, t1, t2

ThreadSymmetry == Permutations({t1, t2})
=============================================================================
