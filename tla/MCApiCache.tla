------------------------------ MODULE MCApiCache ------------------------------
(***************************************************************************)
(* Two clients who ask for one subject with one of two limits.             *)
(***************************************************************************)
EXTENDS ApiCache, TLC

CONSTANTS c1, c2, s

MCClient == {c1, c2}
Symmetry == Permutations(MCClient)
=============================================================================
