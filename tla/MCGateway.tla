----------------------------- MODULE MCGateway -----------------------------
(* One owner, repeated calls of two actions of every pair of classes. *)
EXTENDS Gateway, TLC

Symmetry == Permutations(Keys) \cup Permutations(Args)
=============================================================================
