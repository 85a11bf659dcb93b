------------------------------ MODULE Gateway ------------------------------
(***************************************************************************)
(* agenttx/gateway.py: the Tool Gateway of a single-owner coordinator, on  *)
(* the tools of agenttx/tools.py and the service of phase3/mock_service.py.*)
(* Each call runs the mechanism of its tool's class around one effect and  *)
(* a row of gw_keys.  The process that calls may die, or see an exception, *)
(* between any two steps; the service stays up, and a request it has been  *)
(* sent may be served after its sender is gone.                            *)
(***************************************************************************)
EXTENDS Integers

CONSTANTS
    Keys,       \* action ids
    Args,       \* fingerprints of the args callers pass
    MaxCalls,   \* bound on gateway calls
    None

\* What gw_keys stores of an action.
Row == [status : {"prepared", "effect_started", "committed", "compensated"}, fp : Args]

ASSUME GatewayAssumption == MaxCalls \in Nat /\ None \notin Args /\ None \notin Row

VARIABLES
    klass,      \* klass[k]: the ToolClass of the tool called under k
    row,        \* row[k]: the row of gw_keys, or None
    ran,        \* ran[k]: how often the effect has taken place
    ranWith,    \* ranWith[k]: the args it took place with
    undone,     \* the keys whose effect a compensation has revoked
    wire,       \* HTTP requests sent and not yet served
    replied,    \* HTTP requests the service has answered
    calls,      \* gateway calls so far
    g,          \* the call in progress
    answers     \* what call() has returned

world == <<ran, ranWith, undone, wire, replied>>
gwVars == <<klass, row, world, calls, g, answers>>

Classes == {"pure", "idempotent", "transactional", "overlay", "compensatable", "irreversible"}
Remote == {"idempotent", "irreversible"}
Request == [key : Keys, call : 1 .. MaxCalls, fp : Args]
Idle == [pc |-> "idle", key |-> None, fp |-> None]
CallState == [pc : {"idle", "seen", "tx", "intent", "start", "effect", "await", "record", "undone",
                    "done"}, key : Keys \cup {None}, fp : Args \cup {None}]

At(pc) == g.pc = pc
Goto(pc) == g' = [g EXCEPT !.pc = pc]
Class == klass[g.key]
Sent == [key |-> g.key, call |-> calls, fp |-> g.fp]
\* Mutant: the args of a replayed call are not compared.
SeenAnyArgs(status) == row[g.key] # None /\ row[g.key].status = status
\* The row found by a call with the args it was stored for.
Seen(status) == row[g.key] # None /\ row[g.key].status = status /\ row[g.key].fp = g.fp
\* _record: an upsert that keeps the args_fp of the row it finds.
Record(status) ==
    row' = [row EXCEPT ![g.key] =
              IF @ = None THEN [status |-> status, fp |-> g.fp] ELSE [@ EXCEPT !.status = status]]
Return(status) ==
    g' = Idle /\ answers' = answers \cup {[key |-> g.key, status |-> status, fp |-> g.fp]}
\* The effect of key k takes place with args f.
Happens(k, f) ==
    ran' = [ran EXCEPT ![k] = @ + 1] /\ ranWith' = [ranWith EXCEPT ![k] = f]
-----------------------------------------------------------------------------
GwInit ==
    /\ klass \in [Keys -> Classes]
    /\ row = [k \in Keys |-> None]
    /\ ran = [k \in Keys |-> 0] /\ ranWith = [k \in Keys |-> None] /\ undone = {}
    /\ wire = {} /\ replied = {}
    /\ calls = 0 /\ g = Idle /\ answers = {}

\* call(): the positional key, the fingerprint, and the SELECT of _seen.
Call(k, f) ==
    /\ At("idle") /\ calls < MaxCalls
    /\ calls' = calls + 1 /\ g' = [pc |-> "seen", key |-> k, fp |-> f]
    /\ UNCHANGED <<klass, row, world, answers>>

\* ContentMismatch: the stored fingerprint is not that of the args.
Mismatch ==
    /\ At("seen") /\ row[g.key] # None /\ row[g.key].fp # g.fp
    /\ g' = Idle /\ UNCHANGED <<klass, row, world, calls, answers>>

DedupHit ==
    /\ At("seen") /\ Seen("committed") /\ Return("dedup_hit")
    /\ UNCHANGED <<klass, row, world, calls>>

AlreadyCompensated ==
    /\ At("seen") /\ Seen("compensated") /\ Return("compensated")
    /\ UNCHANGED <<klass, row, world, calls>>

\* IRREVERSIBLE with an intent and no outcome: fail closed.
Uncertain ==
    /\ At("seen") /\ Class = "irreversible" /\ Seen("prepared") /\ Return("uncertain")
    /\ UNCHANGED <<klass, row, world, calls>>

\* COMPENSATABLE interrupted after effect_started: revoke whatever happened.
Compensate ==
    /\ At("seen") /\ Class = "compensatable" /\ Seen("effect_started")
    /\ undone' = undone \cup {g.key} /\ Goto("undone")
    /\ UNCHANGED <<klass, row, ran, ranWith, wire, replied, calls, answers>>

\* Mutant: the compensated action goes back to prepared.
CompensatedReopens ==
    /\ At("undone") /\ Record("prepared") /\ Return("compensated")
    /\ UNCHANGED <<klass, world, calls>>

RecordCompensated ==
    /\ At("undone") /\ Record("compensated") /\ Return("compensated")
    /\ UNCHANGED <<klass, world, calls>>

\* Mutant: an IRREVERSIBLE action found prepared is attempted again.
ProceedPrepared ==
    /\ At("seen") /\ (row[g.key] = None \/ (Class # "transactional" /\ Seen("prepared")))
    /\ Goto(CASE Class = "transactional" -> "tx"
              [] Class \in {"compensatable", "irreversible"} -> "intent"
              [] OTHER -> "effect")
    /\ UNCHANGED <<klass, row, world, calls, answers>>

\* No row, or a COMPENSATABLE action whose effect has not been attempted.
Proceed ==
    /\ At("seen") /\ (row[g.key] = None \/ (Class = "compensatable" /\ Seen("prepared")))
    /\ Goto(CASE Class = "transactional" -> "tx"
              [] Class \in {"compensatable", "irreversible"} -> "intent"
              [] OTHER -> "effect")
    /\ UNCHANGED <<klass, row, world, calls, answers>>

\* TRANSACTIONAL: db_effect and the row commit together.
Transact ==
    /\ At("tx") /\ Happens(g.key, g.fp) /\ Record("committed") /\ Goto("done")
    /\ UNCHANGED <<klass, undone, wire, replied, calls, answers>>

\* 'prepared', committed before the effect.
Intend ==
    /\ At("intent") /\ Record("prepared")
    /\ Goto(IF Class = "compensatable" THEN "start" ELSE "effect")
    /\ UNCHANGED <<klass, world, calls, answers>>

\* Mutant: the COMPENSATABLE effect runs under 'prepared'.
StartUnrecorded ==
    /\ At("start") /\ Goto("effect")
    /\ UNCHANGED <<klass, row, world, calls, answers>>

\* COMPENSATABLE: 'effect_started'.
Start ==
    /\ At("start") /\ Record("effect_started") /\ Goto("effect")
    /\ UNCHANGED <<klass, world, calls, answers>>

\* PURE: nothing outside changes.
Read ==
    /\ At("effect") /\ Class = "pure" /\ Goto("record")
    /\ UNCHANGED <<klass, row, world, calls, answers>>

\* ReceiptTool: keep the committed file if it exists, else publish one.
Publish ==
    /\ At("effect") /\ Class = "overlay" /\ Goto("record")
    /\ IF ran[g.key] > 0 THEN UNCHANGED <<ran, ranWith>> ELSE Happens(g.key, g.fp)
    /\ UNCHANGED <<klass, row, undone, wire, replied, calls, answers>>

\* A COMPENSATABLE tool's effect; the repository has no concrete one.
Act ==
    /\ At("effect") /\ Class = "compensatable" /\ Goto("record")
    /\ Happens(g.key, g.fp)
    /\ UNCHANGED <<klass, row, undone, wire, replied, calls, answers>>

\* HttpIdempotentTool, HttpUnsafeTool: POST.
Send ==
    /\ At("effect") /\ Class \in Remote /\ Goto("await")
    /\ wire' = wire \cup {Sent}
    /\ UNCHANGED <<klass, row, ran, ranWith, undone, replied, calls, answers>>

\* Mutant: the service does not look its Idempotency-Key up.
ServeAgain(r) ==
    /\ r \in wire /\ wire' = wire \ {r} /\ replied' = replied \cup {r}
    /\ Happens(r.key, r.fp)
    /\ UNCHANGED <<klass, row, undone, calls, g, answers>>

\* mock_service do_POST, under its lock; /charge runs a key once.
Serve(r) ==
    /\ r \in wire /\ wire' = wire \ {r} /\ replied' = replied \cup {r}
    /\ IF klass[r.key] = "idempotent" /\ ran[r.key] > 0
       THEN UNCHANGED <<ran, ranWith>> ELSE Happens(r.key, r.fp)
    /\ UNCHANGED <<klass, row, undone, calls, g, answers>>

\* Mutant: a request that timed out is taken for done.
ReplyAssumed ==
    /\ At("await") /\ Goto("record")
    /\ UNCHANGED <<klass, row, world, calls, answers>>

Reply ==
    /\ At("await") /\ Sent \in replied /\ Goto("record")
    /\ UNCHANGED <<klass, row, world, calls, answers>>

\* Mutant: the row of a finished effect is stored without its fingerprint.
CommitNoFp ==
    /\ At("record") /\ Goto("done")
    /\ row' = [row EXCEPT ![g.key] = [status |-> "committed", fp |-> None]]
    /\ UNCHANGED <<klass, world, calls, answers>>

\* 'committed', after the effect.
Commit ==
    /\ At("record") /\ Record("committed") /\ Goto("done")
    /\ UNCHANGED <<klass, world, calls, answers>>

Committed ==
    /\ At("done") /\ Return("committed") /\ UNCHANGED <<klass, row, world, calls>>

\* clock.tick() raises Crash, the process dies, or urlopen times out.
Raise == ~At("idle") /\ g' = Idle /\ UNCHANGED <<klass, row, world, calls, answers>>

GwStep ==
    \/ Mismatch \/ DedupHit \/ AlreadyCompensated \/ Uncertain \/ Compensate
    \/ RecordCompensated \/ Proceed \/ Transact \/ Intend \/ Start \/ Read \/ Publish \/ Act
    \/ Send \/ Reply \/ Commit \/ Committed

Service == \E r \in wire : Serve(r)

GwNext ==
    \/ \E k \in Keys, f \in Args : Call(k, f)
    \/ GwStep \/ Service \/ Raise

GwSpec == GwInit /\ [][GwNext]_gwVars
-----------------------------------------------------------------------------
Answer == [key : Keys, status : {"committed", "dedup_hit", "compensated", "uncertain"}, fp : Args]

TypeOK ==
    /\ klass \in [Keys -> Classes] /\ row \in [Keys -> Row \cup {None}]
    /\ ran \in [Keys -> Nat] /\ ranWith \in [Keys -> Args \cup {None}] /\ undone \subseteq Keys
    /\ wire \subseteq Request /\ replied \subseteq Request
    /\ calls \in 0 .. MaxCalls /\ g \in CallState /\ answers \subseteq Answer

\* I1, action uniqueness, for every class: however often a call dies, times out
\* and is repeated, the effect of an action id takes place at most once.
EffectAtMostOnce == \A k \in Keys : ran[k] <= 1

\* A caller told "committed" or "dedup_hit" can rely on the effect: it has
\* happened and no compensation ever takes it back.
Told(k, statuses) == \E x \in answers : x.key = k /\ x.status \in statuses
SuccessIsReal ==
    \A k \in Keys : (klass[k] # "pure" /\ Told(k, {"committed", "dedup_hit"}))
                        => ran[k] = 1 /\ k \notin undone

\* A caller told "compensated" or "uncertain" is never told success later: a
\* repeated call does not quietly try again.
FailureIsFinal ==
    \A k \in Keys : ~ (Told(k, {"compensated", "uncertain"}) /\ Told(k, {"committed", "dedup_hit"}))

\* An effect that cannot be repeated never takes place, and is not even on its
\* way, without a durable intent that recovery will find; a COMPENSATABLE one in
\* place is either committed or marked for compensation.
IntentBeforeEffect ==
    \A k \in Keys :
        /\ (klass[k] = "irreversible" /\ (ran[k] > 0 \/ \E r \in wire : r.key = k)) => row[k] # None
        /\ (klass[k] = "compensatable" /\ ran[k] > 0 /\ k \notin undone)
              => row[k].status \in {"effect_started", "committed"}
        /\ (row[k] # None /\ row[k].status = "compensated" /\ ran[k] > 0) => k \in undone

\* The fingerprint kept for the content check is that of the args the effect ran
\* with.  OVERLAY and IDEMPOTENT record after the effect: see the README.
Recorded(k) == row[k] # None /\ row[k].status = "committed"
ArgsOfEffect ==
    \A k \in Keys : (klass[k] \in {"transactional", "compensatable", "irreversible"} /\ Recorded(k))
                        => row[k].fp = ranWith[k]
=============================================================================
