----------------------------- MODULE MCDmodel ------------------------------
(* Two coordinators and MAX_EPOCH = 5, the bounds of agenttx/dmodel.py. *)
EXTENDS Dmodel
=============================================================================
