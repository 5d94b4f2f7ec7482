----------------------------- MODULE MCNetLeases -----------------------------
(* A small instance of NetLeases: two tasks, two wires, two users and three *)
(* identifiers, so the pool is exhausted while entries share identifiers.  *)
EXTENDS NetLeases, TLC

Symmetry == Permutations(Tasks) \cup Permutations(Wires) \cup Permutations(Users)
==============================================================================
