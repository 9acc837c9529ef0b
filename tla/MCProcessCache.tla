--------------------------- MODULE MCProcessCache ---------------------------
(* ProcessCache with constants for TLC; the repositories are interchangeable. *)
EXTENDS ProcessCache

Permutation == Permutations(Repo)
=============================================================================
