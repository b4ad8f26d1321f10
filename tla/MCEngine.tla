------------------------------ MODULE MCEngine ------------------------------
(* A small instance of Engine: a session that starts from a transcript of one  *)
(* message and its answer, and grows until it can be compacted.               *)
EXTENDS Engine, TLC

CONSTANTS s1, s2, r1

Texts(n) == [i \in 1..n |-> IF i % 2 = 1 THEN User ELSE Message("assistant", {})]
Short == {Texts(2)}

Symmetry == Permutations(Submits)
=============================================================================
