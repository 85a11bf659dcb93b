------------------------- MODULE MCGhostObservation -------------------------
(* run_turn alone: two actions of every pair of classes, two crashes. *)
EXTENDS Coordinator
=============================================================================
