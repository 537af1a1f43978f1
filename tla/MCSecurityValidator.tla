------------------------- MODULE MCSecurityValidator -------------------------
(* A registered check, one that is not and fails the lesser rules, a       *)
(* test check that is on no list, and an ill-formed name.                  *)
EXTENDS SecurityValidator, TLC
CONSTANTS good, odd, test, bad
Symmetry == Permutations(Callers)
=============================================================================
