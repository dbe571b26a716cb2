------------------------------ MODULE MCSchema ------------------------------
(* Instance of Schema for TLC: two definitions and two levels, and as many *)
(* versions as a deleted and re-registered subject needs.                  *)
EXTENDS Schema, TLC

Symmetry == Permutations(Definitions) \cup Permutations(Levels)
============================================================================
