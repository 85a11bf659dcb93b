------------------------- MODULE MCOverlayPowerLoss -------------------------
(* Two coordinators on a plan of two overlay actions. *)
EXTENDS Overlay
=============================================================================
