---------------------------- MODULE Coordinator ----------------------------
(***************************************************************************)
(* agenttx/coordinator.py and wal.py: a single owner runs a turn, action   *)
(* by action, through the Gateway and logs it in the turn WAL; recovery is *)
(* run_turn again with the same plan.  The keys are the ordinals of the    *)
(* plan: its commit_id binds the tools and the args, so all attempts pass  *)
(* the one fingerprint Fp.                                                 *)
(***************************************************************************)
EXTENDS Gateway, Sequences, SequencesExt

CONSTANTS
    N,              \* actions of the plan
    Fp,             \* the fingerprint of an action's args
    MaxAttempts     \* bound on runs and recoveries of the turn

ASSUME CoordinatorAssumption ==
    /\ N \in Nat \ {0} /\ Keys = 0 .. N - 1
    /\ Fp \in Args /\ MaxAttempts \in Nat
    /\ MaxCalls >= N * MaxAttempts

VARIABLES
    wal,        \* the turn's records, in lsn order
    attempts,   \* runs of run_turn so far
    co          \* run_turn: where it is, and the ordinal it is at

coVars == <<gwVars, wal, attempts, co>>

Types == {"BEGIN_TURN", "ACTION_PREPARED", "OBSERVATION_COMMITTED", "TURN_COMMITTED"}
\* The key column; records about the turn carry None, and so does the intent
\* record, which has the tool's name.
Rec(type, key) == [type |-> type, key |-> key]
Has(type) == \E i \in DOMAIN wal : wal[i].type = type
Log(type, key) == wal' = Append(wal, Rec(type, key))
AppendOnce(type) == IF Has(type) THEN UNCHANGED wal ELSE Log(type, None)
CoGoto(from, to) == co.pc = from /\ co' = [co EXCEPT !.pc = to]
-----------------------------------------------------------------------------
CoInit ==
    /\ GwInit /\ wal = <<>> /\ attempts = 0 /\ co = [pc |-> "down", ord |-> 0]

\* A process runs the turn, or recovers it.
Boot ==
    /\ attempts < MaxAttempts /\ attempts' = attempts + 1
    /\ co.pc = "down" /\ co' = [pc |-> "begin", ord |-> 0]
    /\ UNCHANGED <<gwVars, wal>>

\* Mutant: a turn that has begun is taken to be running elsewhere.
BeginOnce ==
    /\ co.pc = "begin" /\ co' = [co EXCEPT !.pc = IF Has("BEGIN_TURN") THEN "down" ELSE "next"]
    /\ AppendOnce("BEGIN_TURN") /\ UNCHANGED <<gwVars, attempts>>

\* Mutant: recovery resumes after the last action that was prepared.
BeginResumes ==
    LET prepared == {i \in DOMAIN wal : wal[i].type = "ACTION_PREPARED"} IN
    /\ co.pc = "begin" /\ AppendOnce("BEGIN_TURN")
    /\ co' = [pc |-> "next", ord |-> Min({N, Cardinality(prepared)})]
    /\ UNCHANGED <<gwVars, attempts>>

Begin ==
    /\ CoGoto("begin", "next") /\ AppendOnce("BEGIN_TURN")
    /\ UNCHANGED <<gwVars, attempts>>

Prepare ==
    /\ co.ord < N /\ CoGoto("next", "call") /\ Log("ACTION_PREPARED", None)
    /\ UNCHANGED <<gwVars, attempts>>

Invoke == CoGoto("call", "wait") /\ Call(co.ord, Fp) /\ UNCHANGED <<wal, attempts>>

\* gateway.call runs on the coordinator's own thread.
Mechanism == co.pc = "wait" /\ GwStep /\ UNCHANGED <<wal, attempts, co>>

\* Mutant: the observation is logged when the action is called.
ObserveEarly ==
    /\ co.pc = "wait"
    /\ co' = [pc |-> "next", ord |-> co.ord + 1]
    /\ Log("OBSERVATION_COMMITTED", co.ord)
    /\ g' = Idle /\ UNCHANGED <<klass, row, world, calls, answers, attempts>>

\* call() has returned: log its key, whatever its status.
Observe ==
    /\ co.pc = "wait" /\ At("idle")
    /\ co' = [pc |-> "next", ord |-> co.ord + 1]
    /\ Log("OBSERVATION_COMMITTED", co.ord)
    /\ UNCHANGED <<gwVars, attempts>>

\* Mutant: the turn is closed while its last action is still to come.
CloseEarly ==
    /\ co.ord + 1 >= N /\ CoGoto("next", "down") /\ AppendOnce("TURN_COMMITTED")
    /\ UNCHANGED <<gwVars, attempts>>

Close ==
    /\ co.ord = N /\ CoGoto("next", "down") /\ AppendOnce("TURN_COMMITTED")
    /\ UNCHANGED <<gwVars, attempts>>

\* The process dies: clock.tick() raises, or a call raises.  The harnesses
\* always recover, so a crash is followed by another attempt.
Die ==
    /\ co.pc # "down" /\ attempts < MaxAttempts
    /\ co' = [co EXCEPT !.pc = "down"] /\ g' = Idle
    /\ UNCHANGED <<klass, row, world, calls, answers, wal, attempts>>

CoServe == Service /\ UNCHANGED <<wal, attempts, co>>

Coordinate == Begin \/ Prepare \/ Invoke \/ Mechanism \/ Observe \/ Close

CoNext == Boot \/ Coordinate \/ CoServe \/ Die

\* Recovery is started after a crash (recover in the harnesses), a live process
\* runs, and the service serves: it stays up across the crashes.
CoSpec ==
    /\ CoInit /\ [][CoNext]_coVars
    /\ WF_coVars(Boot) /\ WF_coVars(Coordinate) /\ WF_coVars(CoServe)
-----------------------------------------------------------------------------
CoTypeOK ==
    /\ TypeOK /\ attempts \in 0 .. MaxAttempts
    /\ wal \in Seq([type : Types, key : Keys \cup {None}])
    /\ co \in [pc : {"down", "begin", "next", "call", "wait"}, ord : 0 .. N]

Observed(k) == Contains(wal, Rec("OBSERVATION_COMMITTED", k))

\* I2, no ghost observation, for the classes whose effect is exactly once: what
\* the WAL says was observed is committed and has happened.
ObservedIsCommitted ==
    \A k \in Keys : (Observed(k) /\ klass[k] \notin {"compensatable", "irreversible"})
        => Recorded(k) /\ (klass[k] # "pure" => ran[k] = 1)

\* README: "an observation is recorded only after its effect committed".
NoGhostObservation == \A k \in Keys : Observed(k) => Recorded(k)

\* The turn is closed only when every action has been answered, and the
\* observations of the WAL follow the order of the plan across crashes.
ClosedIsComplete == Has("TURN_COMMITTED") => \A k \in Keys : Observed(k)
ObservedInOrder == \A k \in Keys : Observed(k) => \A j \in 0 .. k : Observed(j)

\* I5: whatever crashes interrupt it, a turn that is recovered ends in
\* TURN_COMMITTED.
TurnCloses == <>Has("TURN_COMMITTED")
=============================================================================
