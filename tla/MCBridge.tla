------------------------------ MODULE MCBridge ------------------------------
(* Small instances of Bridge. *)
EXTENDS Bridge, TLC

CONSTANTS w1, w2, e1, e2

Symmetry == Permutations(Work)
=============================================================================
