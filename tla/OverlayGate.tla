---------------------------- MODULE OverlayGate ----------------------------
(***************************************************************************)
(* phase7/overlay_gate.py: racing recovery of a durable turn of OVERLAY    *)
(* actions.  main() persists the plan, starts the racers at once, joins    *)
(* them, starts one clean worker as a recovery sweep, joins it and looks   *)
(* at the file system and the tables.  The gate makes racers die after the *)
(* temp file is written or after it is published; here a racer may die     *)
(* anywhere, and the machine may lose power.  The workers are the          *)
(* coordinators of Overlay, each of which runs once.                       *)
(***************************************************************************)
EXTENDS Overlay, FiniteSets

CONSTANT
    Sweeper         \* the worker of the recovery sweep

ASSUME OverlayGateAssumption == Sweeper \in Procs

VARIABLES
    phase,      \* what main() waits for: "race", "sweep", then "audit"
    launched    \* the workers that have run acquire()

gateVars == <<vars, phase, launched>>

Racers == Procs \ {Sweeper}
\* A worker whose coordinator is idle again has exited.
Exited(ps) == \A p \in ps : p \in launched /\ At(p, "idle")
-----------------------------------------------------------------------------
GateInit == Init /\ phase = "race" /\ launched = {}

\* A started worker takes its lease: racers are started at once, the sweeper later.
Launch(p) ==
    /\ p \notin launched /\ (p = Sweeper => phase = "sweep")
    /\ Acquire(p)
    /\ launched' = launched \cup {p} /\ UNCHANGED phase

\* load_plan, do_overlay for each step, the turn's state.
Work(p) ==
    /\ \/ Seen(p) \/ Unseen(p) \/ Open(p) \/ Write(p) \/ Publish(p) \/ FsyncDir(p)
       \/ Record(p) \/ Finish(p)
    /\ UNCHANGED <<phase, launched>>

\* hard_after_write, hard_after_publish.
HardCrash(p) == p \in Racers /\ Die(p) /\ UNCHANGED <<phase, launched>>

\* Mutant: the sweep takes its turn for a racer's.
StartSweepSkipped ==
    /\ phase = "race" /\ Exited(Racers)
    /\ phase' = "audit" /\ UNCHANGED <<vars, launched>>

\* Every racer is joined before the recovery sweep starts.
StartSweep ==
    /\ phase = "race" /\ Exited(Racers)
    /\ phase' = "sweep" /\ UNCHANGED <<vars, launched>>

Audit ==
    /\ phase = "sweep" /\ Exited({Sweeper})
    /\ phase' = "audit" /\ UNCHANGED <<vars, launched>>

GateNext ==
    \/ \E p \in Procs : Launch(p) \/ Work(p) \/ HardCrash(p)
    \/ StartSweep \/ Audit
    \/ PowerLoss /\ UNCHANGED <<phase, launched>>

GateSpec == GateInit /\ [][GateNext]_gateVars
-----------------------------------------------------------------------------
\* OVERLAY_GATE_PASS, the gate's oracle, for a machine that stays up: after the
\* sweep every action of the plan has its file and exactly one row, an action
\* whose args equal another's included, and the turn is committed.
OverlayGatePass == phase = "audit" /\ losses = 0 =>
    /\ \A o \in Ords : final[o] = "whole" /\ Cardinality({r \in rows : r.ord = o}) = 1
    /\ turn = "committed"
=============================================================================
