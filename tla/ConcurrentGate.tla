-------------------------- MODULE ConcurrentGate ---------------------------
(***************************************************************************)
(* phase7/concurrent_gate.py: racing recovery of durable turns on          *)
(* PostgreSQL.  main() persists the plans, starts several workers a turn,  *)
(* joins them, starts one clean worker a turn as a recovery sweep, joins   *)
(* it and audits the tables.  Some racers are told to die in the middle of *)
(* a transaction.  The workers are the coordinators of Dtx.                *)
(***************************************************************************)
EXTENDS Dtx, FiniteSets

CONSTANTS
    TurnOf,     \* TurnOf[p]: the turn worker p is started for
    Sweepers,   \* the workers of the recovery sweep, one a turn
    Mortal      \* the racers started with a hard_crash_at

ASSUME ConcurrentGateAssumption ==
    /\ TurnOf \in [Procs -> Turns]
    /\ Sweepers \subseteq Procs /\ Mortal \subseteq Procs \ Sweepers
    /\ \A t \in Turns : \E p \in Sweepers : TurnOf[p] = t
    /\ \A p, q \in Sweepers : TurnOf[p] = TurnOf[q] => p = q

VARIABLES
    phase,      \* what main() waits for: "race", "sweep", then "audit"
    launched    \* the workers that have run acquire()

gateVars == <<vars, phase, launched>>

Racers == Procs \ Sweepers
\* A worker whose coordinator is idle again has exited.
Exited(ps) == \A p \in ps : p \in launched /\ w[p].pc = "idle"
-----------------------------------------------------------------------------
\* main() has called begin_turn for every turn, so no worker passes a plan.
GateInit ==
    /\ ownerEpoch = [t \in Turns |-> 0]
    /\ turns \in [Turns -> [plan : Plans, state : {"open"}]]
    /\ actions = {} /\ charges = {} /\ chargeSeq = 0
    /\ lock = [t \in Turns |-> None]
    /\ w = [p \in Procs |-> Idle]
    /\ results = {}
    /\ phase = "race" /\ launched = {}

\* A started worker takes its lease: racers are started at once, sweepers later.
Launch(p) ==
    /\ p \notin launched /\ (p \in Sweepers => phase = "sweep")
    /\ Acquire(p, TurnOf[p])
    /\ launched' = launched \cup {p} /\ UNCHANGED phase

\* load_plan, then do_charge for each step; StaleOwner ends the worker.
Work(p) == Run(p) /\ UNCHANGED <<phase, launched>>

\* crash="hard_mid": os._exit after the effect, before COMMIT.
HardMid(p) ==
    /\ p \in Mortal /\ w[p].pc = "commit"
    /\ Crash(p) /\ UNCHANGED <<phase, launched>>

\* Mutant: the sweep is started as soon as the racers have been started.
StartSweepUnjoined ==
    /\ phase = "race"
    /\ phase' = "sweep" /\ UNCHANGED <<vars, launched>>

\* Every racer is joined before the recovery sweep starts.
StartSweep ==
    /\ phase = "race" /\ Exited(Racers)
    /\ phase' = "sweep" /\ UNCHANGED <<vars, launched>>

Audit ==
    /\ phase = "sweep" /\ Exited(Sweepers)
    /\ phase' = "audit" /\ UNCHANGED <<vars, launched>>

GateNext ==
    \/ \E p \in Procs : Launch(p) \/ Work(p) \/ HardMid(p)
    \/ StartSweep \/ Audit

\* The operating system schedules every live worker, PostgreSQL grants a free
\* row lock, and join() returns; nothing makes a worker die.
GateSpec ==
    /\ GateInit /\ [][GateNext]_gateVars
    /\ \A p \in Procs : WF_gateVars(Launch(p)) /\ WF_gateVars(Work(p))
    /\ WF_gateVars(StartSweep) /\ WF_gateVars(Audit)
-----------------------------------------------------------------------------
Rows(t) == {r \in actions : r.id[1] = t}
Expected(t) == PlanLen[turns[t].plan]

\* PHASE7_PASS, the gate's oracle: once the sweep is joined every action of
\* every turn has one row and one charge and every turn is committed.
Phase7Pass == phase = "audit" =>
    /\ AtMostOnce
    /\ \A t \in Turns :
        /\ Cardinality(Rows(t)) = Expected(t)
        /\ Cardinality({c \in charges : c.id[1] = t}) = Expected(t)
        /\ turns[t].state = "committed"

\* The gate ends: fences, row locks and deaths in mid-transaction never leave a
\* worker waiting for good, so the sweep is reached and joined.
AuditReached == <>(phase = "audit")
=============================================================================
