----------------------------- MODULE MCOverlay -----------------------------
(* Three racers and a sweeper on a plan of two overlay actions. *)
EXTENDS OverlayGate, TLC

ProcSymmetry == Permutations(Racers)
=============================================================================
