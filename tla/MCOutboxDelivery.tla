--------------------------- MODULE MCOutboxDelivery ----------------------------
(* OutboxDelivery and its refinement on small sets of rows and workers.      *)
EXTENDS OutboxRefinement, TLC

Symmetry == Permutations(Workers)
=============================================================================
