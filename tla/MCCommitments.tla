---------------------------- MODULE MCCommitments ----------------------------
(* Commitments for TLC: requests, agents and syncs are interchangeable.    *)
EXTENDS Commitments, TLC

Symmetry == Permutations(Sellers) \cup Permutations(Agents) \cup Permutations(Syncers)
=============================================================================
