------------------------------- MODULE MCDtx -------------------------------
(***************************************************************************)
(* Small instances of Dtx: plans of two actions.  One offered plan per     *)
(* turn is what the gates and recovery do; Redecided lets a coordinator    *)
(* offer another output for a turn whose plan is already durable.          *)
(***************************************************************************)
EXTENDS DtxRefinesDmodel, TLC

CONSTANTS P1, P2

TwoActions == [pl \in Plans |-> 2]
SecondAction == <<CHOOSE t \in Turns : TRUE, P1, 1>>
SinglePlan == [t \in Turns |-> {P1}]
Redecided == [t \in Turns |-> {P1, P2}]
ProcSymmetry == Permutations(Procs)
=============================================================================
