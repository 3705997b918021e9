-------------------------- MODULE MCCompleteSelection --------------------------
(* Creators and calls are interchangeable: no action distinguishes them. *)
EXTENDS CompleteSelection, TLC

Symmetry == Permutations(Creators) \cup Permutations(Calls)
=============================================================================
