------------------------- MODULE DtxRefinesDmodel --------------------------
(***************************************************************************)
(* For any one action of any one turn, the coordinators of Dtx behave as   *)
(* the TRANSACTIONAL coordinators of Dmodel: the statements of do_charge   *)
(* between the fence and COMMIT are one atomic step of the abstraction.    *)
(* It holds on PostgreSQL, where the fence locks the owner row.            *)
(***************************************************************************)
EXTENDS Dtx, FiniteSets

CONSTANT Watched    \* the action id watched: turn, plan, ordinal

ASSUME WatchedAssumption == Watched \in ActionId

WTurn == Watched[1]
Done(p) == w[p].plan = Watched[2] /\ w[p].ord > Watched[3]

\* A process that is idle, or works on another turn, has not started here.
CoordinatorOf(p) ==
    IF w[p].turn # WTurn THEN [epoch |-> 0, pc |-> "start"]
    ELSE [epoch |-> w[p].epoch, pc |-> IF Done(p) THEN "done" ELSE "acquired"]

ClaimEpoch ==
    IF Claimed(Watched) THEN (CHOOSE r \in actions : r.id = Watched).epoch ELSE 0

D == INSTANCE Dmodel WITH
    Coordinators <- Procs, MAX_EPOCH <- MaxEpoch, klass <- "transactional",
    owner_epoch <- ownerEpoch[WTurn],
    claimed_by <- ClaimEpoch,
    effect_started <- FALSE, uncertain <- FALSE,
    committed <- Claimed(Watched),
    durable_effect <- Cardinality({x \in charges : x.id = Watched}),
    c <- [p \in Procs |-> CoordinatorOf(p)]

\* What dmodel.py promises of one action holds of the real statement sequence:
\* interleaved fences, claims, rollbacks and dedups collapse to its atomic steps.
RefinesDmodel == D!Spec
=============================================================================
