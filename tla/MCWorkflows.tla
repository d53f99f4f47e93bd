------------------------------ MODULE MCWorkflows ------------------------------
(* All workflow kinds, each on its own, over two interchangeable sources. *)
EXTENDS Runs, Workflows, TLC
Sym == Permutations(Sources)
=============================================================================
