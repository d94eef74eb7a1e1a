---------------------------- MODULE MCLiveCapture ----------------------------
(* Instances of LiveCapture for TLC.                                       *)
EXTENDS LiveCapture, TLC

Symmetry == Permutations(Calls) \cup Permutations(Recorders)
=============================================================================
