------------------------ MODULE RecoveryCoordinator ------------------------
(***************************************************************************)
(* agenttx/recovery.py: the Recovery Coordinator runs a turn through the   *)
(* Coordinator and then snapshots its KV; a recovery first decides about   *)
(* the KV, then runs the turn again.  Meanwhile a neighbour, another       *)
(* worker on the same store, snapshots a turn that shares blocks with this *)
(* one.  The neighbour's steps commute with those of run_turn, which do    *)
(* not touch the store, so it moves only while the KV is being handled;    *)
(* and no KV step looks at the tools' classes, so it suffices to have the  *)
(* neighbour, the faults and the change of engine for the plans of Crowded.*)
(***************************************************************************)
EXTENDS Coordinator, KVView

CONSTANTS
    Main,           \* the worker that owns the turn
    Engine,         \* the provenance of the engine that decodes the turn
    Crowded         \* the plans that a neighbour, faults and other engines come with

ASSUME RecoveryAssumption ==
    /\ Main \in Workers /\ Engine \in Provs /\ Crowded \subseteq [Keys -> Classes]

VARIABLES
    rc          \* commit_turn or recover_turn: op, and where it is

rcVars == <<coVars, kvVars, rc>>
RcIdle == [op |-> "none", pc |-> "idle"]
RcGoto(from, to) == rc.pc = from /\ rc' = [rc EXCEPT !.pc = to]
Others == Workers \ {Main}
\* The engines a recovery may find itself with.
Engines == IF klass \in Crowded THEN Provs ELSE {Engine}
\* What restore has answered is with the caller once the call is over.
Forget == answer' = [answer EXCEPT ![Main] = NoAnswer]
-----------------------------------------------------------------------------
RcInit == CoInit /\ KvInit /\ rc = RcIdle

\* commit_turn: run_turn comes first.  The blocks are those of the engine that
\* decoded the turn.
CommitTurn ==
    /\ rc.pc = "idle" /\ rc' = [op |-> "commit", pc |-> "run"]
    /\ Boot /\ UNCHANGED kvVars

\* recover_turn: the KV decision comes first, with the provenance of the engine
\* that is there now.  It follows an earlier attempt at the turn.
RecoverTurn(p) ==
    /\ rc.pc = "idle" /\ attempts \in 1 .. MaxAttempts - 1 /\ attempts' = attempts + 1
    /\ rc' = [op |-> "recover", pc |-> "restore"]
    /\ TryRestore(Main, p)
    /\ UNCHANGED <<gwVars, wal, co>>

Fetching == rc.pc = "restore" /\ Fetch(Main) /\ UNCHANGED <<coVars, rc>>

\* Whatever the decision was, the turn is run again.
Rerun ==
    /\ KvAt(Main, "idle") /\ RcGoto("restore", "run")
    /\ co' = [pc |-> "begin", ord |-> 0]
    /\ UNCHANGED <<gwVars, wal, attempts, kvVars>>

RunTurn == rc.pc = "run" /\ Coordinate /\ UNCHANGED <<kvVars, rc>>

\* Mutant: the snapshot does not wait for run_turn.
TakeSnapshotEarly ==
    /\ rc.op = "commit" /\ RcGoto("run", "snapshot")
    /\ Snapshot(Main, Engine)
    /\ co' = [co EXCEPT !.pc = "down"] /\ g' = Idle
    /\ UNCHANGED <<klass, row, world, calls, answers, wal, attempts>>

\* run_turn has returned.
TakeSnapshot ==
    /\ rc.op = "commit" /\ co.pc = "down" /\ RcGoto("run", "snapshot")
    /\ Snapshot(Main, Engine)
    /\ UNCHANGED coVars

Putting == rc.pc = "snapshot" /\ Put(Main) /\ UNCHANGED <<coVars, rc>>

\* The snapshot is done, or put() has raised; a recovery ends with its run_turn.
RcReturn ==
    /\ \/ rc.pc = "snapshot" /\ KvAt(Main, "idle")
       \/ rc.pc = "run" /\ rc.op = "recover" /\ co.pc = "down"
    /\ rc' = RcIdle /\ Forget
    /\ UNCHANGED <<coVars, files, manifest, kw, faults, spoiled>>

\* The process dies, and with it whatever it was doing.
RcDie ==
    /\ rc.pc # "idle" /\ attempts < MaxAttempts
    /\ rc' = RcIdle /\ Forget
    /\ co' = [co EXCEPT !.pc = "down"] /\ g' = Idle /\ kw' = [kw EXCEPT ![Main] = KvIdle]
    /\ UNCHANGED <<klass, row, world, calls, answers, wal, attempts>>
    /\ UNCHANGED <<files, manifest, faults, spoiled>>

\* The neighbour and the faults.
Neighbour ==
    /\ klass \in Crowded /\ rc.pc \in {"snapshot", "restore"} /\ UNCHANGED <<coVars, rc>>
    /\ \/ \E w \in Others : Snapshot(w, Engine) \/ Put(w) \/ KvDie(w)
       \/ Fault

RcServe == CoServe /\ UNCHANGED <<kvVars, rc>>

RcStart == CommitTurn \/ \E p \in Engines : RecoverTurn(p)
RcStep == Fetching \/ Rerun \/ RunTurn \/ TakeSnapshot \/ Putting \/ RcReturn
RcNext == RcStart \/ RcStep \/ RcDie \/ Neighbour \/ RcServe

\* As in Coordinator: a turn is attempted again after a crash, and a live
\* process and the service run.  Nothing obliges the neighbour to move.
RcSpec ==
    /\ RcInit /\ [][RcNext]_rcVars
    /\ WF_rcVars(RcStart) /\ WF_rcVars(RcStep) /\ WF_rcVars(RcServe)
-----------------------------------------------------------------------------
\* A snapshot is a view of a durable turn: where there is a manifest, the WAL
\* says that the turn is committed, whatever crashes and recoveries came first.
SnapshotOfCommittedTurn == manifest[Main] # NoManifest => Has("TURN_COMMITTED")
=============================================================================
