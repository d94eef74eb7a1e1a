----------------------------- MODULE MCPostCall -----------------------------
(* Instances of PostCall for TLC.                                          *)
EXTENDS PostCall, TLC

Symmetry == Permutations(Handlers)
=============================================================================
