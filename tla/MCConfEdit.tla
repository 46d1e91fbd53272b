----------------------------- MODULE MCConfEdit -----------------------------
(***************************************************************************)
(* ConfEdit for TLC: pages and values are alike, so are files.             *)
(***************************************************************************)
EXTENDS ConfEdit

Symmetry == Permutations(Pages) \cup Permutations(Vars) \cup Permutations(Files)
============================================================================
