----------------------------- MODULE MCTenants -----------------------------
(* Small instances of Tenants. *)
EXTENDS Tenants, TLC

CONSTANTS r1, r2, i1, i2, e1, e2, p1, p2

Symmetry == Permutations(Requests) \cup Permutations(Ids) \cup Permutations(Emails) \cup Permutations(Passwords)
=============================================================================
