------------------------------- MODULE MCNuaf -------------------------------
(***************************************************************************)
(* Nuaf on small instances, where threads are interchangeable.             *)
(***************************************************************************)
EXTENDS NuafRefinement, TLC

Symmetry == Permutations(Threads)
=============================================================================
