---------------------------- MODULE MCModelParams ----------------------------
(* Model checking ModelParams.                                             *)
EXTENDS ModelParams, TLC

Symmetry == Permutations(Keys) \cup Permutations(Devices)
=============================================================================
