---------------------------- MODULE MCIamSessions ----------------------------
(* The model for TLC: workers are interchangeable.                           *)
EXTENDS IamSessions, TLC

Symmetry == Permutations(Workers)
=============================================================================
