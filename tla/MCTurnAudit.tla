---------------------------- MODULE MCTurnAudit ----------------------------
(* Every harness, with two crashes: one of the turn, one of a recovery. *)
EXTENDS TurnAudit
=============================================================================
