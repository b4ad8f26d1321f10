------------------------------ MODULE MCServer ------------------------------
(* A small instance of Server: one session whose requests all go to one worker, *)
(* and one whose requests go to either.                                        *)
EXTENDS Server, TLC

CONSTANTS w1, w2, s1, s2, r1, r2

Routing == (s1 :> {w1}) @@ (s2 :> {w1, w2})
Symmetry == Permutations(Requests)
=============================================================================
