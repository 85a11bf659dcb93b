-------------------------------- MODULE Dtx --------------------------------
(***************************************************************************)
(* agenttx/dtx.py: the distributed turn transaction, TRANSACTIONAL class.  *)
(*                                                                         *)
(* Coordinator processes race to run, or to recover, the same durable      *)
(* turn.  A process bumps the turn's owner_epoch (acquire), obtains a plan *)
(* (begin_turn, or load_plan when it recovers) and calls do_charge for     *)
(* every ordinal of it; do_charge fences, claims the action id, runs the   *)
(* effect and commits in one database transaction.  A process may die      *)
(* between any two statements; the database then rolls its open            *)
(* transaction back.                                                       *)
(*                                                                         *)
(* The writes of an open transaction are visible to nobody, so they are    *)
(* implied by the process's pc and reach the tables in Commit.             *)
(***************************************************************************)
EXTENDS Integers

CONSTANTS
    Procs,      \* coordinator processes, each with its own connection
    Turns,      \* (session, turn) pairs
    Plans,      \* model outputs; sha256 is collision free: a plan is its commit_id
    PlanLen,    \* PlanLen[pl]: the number of actions of plan pl, ordinals 0..PlanLen[pl]-1
    Offered,    \* Offered[t]: the plans run_turn's callers pass for turn t
    Fps,        \* fingerprints of the args do_charge is called with
    Backend,    \* "postgres" or "sqlite" (db.py runs the same code on both)
    MaxEpoch,   \* bound on owner_epoch
    None        \* SQL NULL / Python None

TurnRow == [plan : Plans, state : {"open", "committed"}]

ASSUME DtxAssumption ==
    /\ PlanLen \in [Plans -> Nat]
    /\ Offered \in [Turns -> SUBSET Plans]
    /\ Backend \in {"postgres", "sqlite"}
    /\ MaxEpoch \in Nat
    /\ None \notin Procs \cup Turns \cup Plans \cup Fps \cup TurnRow

VARIABLES
    ownerEpoch, \* turn_owner: the current epoch of each turn, 0 when no row
    turns,      \* turns: the durable plan and state of each turn, or None
    actions,    \* actions: committed rows
    charges,    \* charges: committed rows, the external effect
    chargeSeq,  \* the identity column of charges
    lock,       \* lock[t]: the process whose open transaction locks turn t
    w,          \* w[p]: the local variables of process p
    results     \* what do_charge calls have returned to their callers

durable == <<ownerEpoch, turns, actions, charges, chargeSeq>>
vars == <<durable, lock, w, results>>

ActionId == Turns \X Plans \X Nat
InTx == {"claim", "effect", "commit"}
Local == [pc : {"idle", "plan", "call"} \cup InTx, turn : Turns \cup {None},
          epoch : Nat, plan : Plans \cup {None}, ord : Nat, fp : Fps \cup {None}]
Idle == [pc |-> "idle", turn |-> None, epoch |-> 0, plan |-> None, ord |-> 0, fp |-> None]

\* action_id(session, turn, commit_id, ordinal): the identity is positional.
Aid(p) == <<w[p].turn, w[p].plan, w[p].ord>>
Claimed(a) == \E r \in actions : r.id = a

\* Postgres locks the turn_owner row; SQLite has one write lock for the file.
LockFree(t) == IF Backend = "postgres" THEN lock[t] = None
                                       ELSE \A u \in Turns : lock[u] = None
\* A write to the turns table waits for nobody on Postgres.
WriteFree(t) == Backend = "sqlite" => LockFree(t)
Released(p) == [t \in Turns |-> IF lock[t] = p THEN None ELSE lock[t]]

\* do_charge returns: the transaction is over and the loop moves on.
Return(p) ==
    /\ results' = results \cup {<<Aid(p), w[p].fp>>}
    /\ lock' = Released(p)
    /\ w' = [w EXCEPT ![p] = [@ EXCEPT !.pc = "call", !.ord = w[p].ord + 1, !.fp = None]]

\* Mutant: an exception leaves the transaction open (no rollback in db.transaction).
EndKeepsLock(p) == w' = [w EXCEPT ![p] = Idle] /\ UNCHANGED lock

\* The process ends: an exception reached the worker, or os._exit.
End(p) == w' = [w EXCEPT ![p] = Idle] /\ lock' = Released(p)
-----------------------------------------------------------------------------
Init ==
    /\ ownerEpoch = [t \in Turns |-> 0]
    /\ turns = [t \in Turns |-> None]
    /\ actions = {} /\ charges = {} /\ chargeSeq = 0
    /\ lock = [t \in Turns |-> None]
    /\ w = [p \in Procs |-> Idle]
    /\ results = {}

\* acquire(): INSERT ... ON CONFLICT DO UPDATE owner_epoch + 1 RETURNING; commit.
Acquire(p, t) ==
    /\ w[p].pc = "idle" /\ LockFree(t) /\ ownerEpoch[t] < MaxEpoch
    /\ ownerEpoch' = [ownerEpoch EXCEPT ![t] = @ + 1]
    /\ w' = [w EXCEPT ![p] = [Idle EXCEPT !.pc = "plan", !.turn = t, !.epoch = ownerEpoch[t] + 1]]
    /\ UNCHANGED <<turns, actions, charges, chargeSeq, lock, results>>

\* begin_turn(plan): ON CONFLICT DO NOTHING, yet the caller goes on with the
\* plan it passed and with that plan's commit_id.
Begin(p, pl) ==
    LET t == w[p].turn IN
    /\ w[p].pc = "plan" /\ pl \in Offered[t] /\ WriteFree(t)
    /\ turns' = [turns EXCEPT ![t] = IF @ = None THEN [plan |-> pl, state |-> "open"] ELSE @]
    /\ w' = [w EXCEPT ![p] = [@ EXCEPT !.pc = "call", !.plan = pl]]
    /\ UNCHANGED <<ownerEpoch, actions, charges, chargeSeq, lock, results>>

\* Mutant: recovery starts its loop at the second ordinal.
LoadSkipsFirst(p) ==
    /\ w[p].pc = "plan" /\ turns[w[p].turn] # None
    /\ w' = [w EXCEPT ![p] = [@ EXCEPT !.pc = "call", !.ord = 1, !.plan = turns[w[p].turn].plan]]
    /\ UNCHANGED <<durable, lock, results>>

\* load_plan(): recovery takes the plan from the database.
Load(p) ==
    /\ w[p].pc = "plan" /\ turns[w[p].turn] # None
    /\ w' = [w EXCEPT ![p] = [@ EXCEPT !.pc = "call", !.plan = turns[w[p].turn].plan]]
    /\ UNCHANGED <<durable, lock, results>>

\* load_plan() found no row: ValueError("no durable plan for turn").
LoadNone(p) ==
    /\ w[p].pc = "plan" /\ turns[w[p].turn] = None
    /\ End(p) /\ UNCHANGED <<durable, results>>

\* Mutant: the fence reads owner_epoch without FOR UPDATE.
FenceUnlocked(p, f) ==
    /\ w[p].pc = "call" /\ w[p].ord < PlanLen[w[p].plan]
    /\ ownerEpoch[w[p].turn] = w[p].epoch
    /\ w' = [w EXCEPT ![p] = [@ EXCEPT !.pc = "claim", !.fp = f]]
    /\ UNCHANGED <<durable, lock, results>>

\* Mutant: the fence locks the owner row and does not compare the epoch.
FenceUnchecked(p, f) ==
    LET t == w[p].turn IN
    /\ w[p].pc = "call" /\ w[p].ord < PlanLen[w[p].plan] /\ LockFree(t)
    /\ lock' = [lock EXCEPT ![t] = p]
    /\ w' = [w EXCEPT ![p] = [@ EXCEPT !.pc = "claim", !.fp = f]]
    /\ UNCHANGED <<durable, results>>

\* do_charge, the fence: SELECT owner_epoch, FOR UPDATE on Postgres only.
Fence(p, f) ==
    LET t == w[p].turn IN
    /\ w[p].pc = "call" /\ w[p].ord < PlanLen[w[p].plan]
    /\ Backend = "postgres" => LockFree(t)
    /\ ownerEpoch[t] = w[p].epoch
    /\ lock' = IF Backend = "postgres" THEN [lock EXCEPT ![t] = p] ELSE lock
    /\ w' = [w EXCEPT ![p] = [@ EXCEPT !.pc = "claim", !.fp = f]]
    /\ UNCHANGED <<durable, results>>

\* do_charge, the fence rejects a stale epoch: StaleOwner.
FenceStale(p) ==
    LET t == w[p].turn IN
    /\ w[p].pc = "call" /\ w[p].ord < PlanLen[w[p].plan]
    /\ Backend = "postgres" => LockFree(t)
    /\ ownerEpoch[t] # w[p].epoch
    /\ End(p) /\ UNCHANGED <<durable, results>>

\* INSERT INTO actions ... ON CONFLICT DO NOTHING: it waits while another open
\* transaction holds the same primary key and, on SQLite, for the write lock.
Insertable(p) ==
    /\ w[p].pc = "claim"
    /\ \A q \in Procs \ {p} : w[q].pc \in {"effect", "commit"} => Aid(q) # Aid(p)
    /\ Backend = "sqlite" => LockFree(w[p].turn)

\* Mutant: the claim is inserted without regard to an existing row.
ClaimUnchecked(p) ==
    /\ Insertable(p)
    /\ lock' = [lock EXCEPT ![w[p].turn] = p]
    /\ w' = [w EXCEPT ![p] = [@ EXCEPT !.pc = "effect"]]
    /\ UNCHANGED <<durable, results>>

\* Mutant: the claim is committed on its own, before the effect.
ClaimAutocommit(p) ==
    /\ Insertable(p) /\ ~Claimed(Aid(p))
    /\ actions' = actions \cup {[id |-> Aid(p), fp |-> w[p].fp, epoch |-> w[p].epoch]}
    /\ lock' = [lock EXCEPT ![w[p].turn] = p]
    /\ w' = [w EXCEPT ![p] = [@ EXCEPT !.pc = "effect"]]
    /\ UNCHANGED <<ownerEpoch, turns, charges, chargeSeq, results>>

\* do_charge, the atomic claim is won.
Claim(p) ==
    /\ Insertable(p) /\ ~Claimed(Aid(p))
    /\ lock' = [lock EXCEPT ![w[p].turn] = p]
    /\ w' = [w EXCEPT ![p] = [@ EXCEPT !.pc = "effect"]]
    /\ UNCHANGED <<durable, results>>

\* Mutant: the args fingerprint of a dedup hit is not compared.
DedupAnyArgs(p) ==
    Insertable(p) /\ Claimed(Aid(p)) /\ Return(p) /\ UNCHANGED durable

\* do_charge, the action is already committed with these args.
Dedup(p) ==
    /\ Insertable(p)
    /\ \E r \in actions : r.id = Aid(p) /\ r.fp = w[p].fp
    /\ Return(p) /\ UNCHANGED durable

\* do_charge, the action is already committed with other args: ContentMismatch.
Mismatch(p) ==
    /\ Insertable(p)
    /\ \E r \in actions : r.id = Aid(p) /\ r.fp # w[p].fp
    /\ End(p) /\ UNCHANGED <<durable, results>>

\* do_charge, INSERT INTO charges inside the open transaction.
Effect(p) ==
    /\ w[p].pc = "effect"
    /\ w' = [w EXCEPT ![p] = [@ EXCEPT !.pc = "commit"]]
    /\ UNCHANGED <<durable, lock, results>>

\* Mutant: the action row is written without the owner's epoch.
CommitNoEpoch(p) ==
    /\ w[p].pc = "commit"
    /\ actions' = actions \cup {[id |-> Aid(p), fp |-> w[p].fp, epoch |-> None]}
    /\ charges' = charges \cup {[seq |-> chargeSeq, id |-> Aid(p), fp |-> w[p].fp]}
    /\ chargeSeq' = chargeSeq + 1
    /\ Return(p) /\ UNCHANGED <<ownerEpoch, turns>>

\* do_charge, UPDATE actions SET result and COMMIT: claim and effect together.
Commit(p) ==
    /\ w[p].pc = "commit"
    /\ actions' = actions \cup {[id |-> Aid(p), fp |-> w[p].fp, epoch |-> w[p].epoch]}
    /\ charges' = charges \cup {[seq |-> chargeSeq, id |-> Aid(p), fp |-> w[p].fp]}
    /\ chargeSeq' = chargeSeq + 1
    /\ Return(p) /\ UNCHANGED <<ownerEpoch, turns>>

\* Mutant: the turn is closed before its last action (range(len(plan) - 1)).
FinishEarly(p) ==
    LET t == w[p].turn IN
    /\ w[p].pc = "call" /\ w[p].ord + 1 >= PlanLen[w[p].plan] /\ WriteFree(t)
    /\ turns' = [turns EXCEPT ![t].state = "committed"]
    /\ End(p) /\ UNCHANGED <<ownerEpoch, actions, charges, chargeSeq, results>>

\* run_turn after the loop: UPDATE turns SET state='committed', with no fence.
Finish(p) ==
    LET t == w[p].turn IN
    /\ w[p].pc = "call" /\ w[p].ord = PlanLen[w[p].plan] /\ WriteFree(t)
    /\ turns' = [turns EXCEPT ![t].state = "committed"]
    /\ End(p) /\ UNCHANGED <<ownerEpoch, actions, charges, chargeSeq, results>>

\* Process death, or an exception that unwinds: rollback of the open transaction.
Crash(p) == w[p].pc # "idle" /\ End(p) /\ UNCHANGED <<durable, results>>

\* Every step of a live process but its death.
Run(p) ==
    \/ \E pl \in Plans : Begin(p, pl)
    \/ Load(p) \/ LoadNone(p)
    \/ \E f \in Fps : Fence(p, f)
    \/ FenceStale(p) \/ Claim(p) \/ Dedup(p) \/ Mismatch(p) \/ Effect(p) \/ Commit(p)
    \/ Finish(p)

Next == \E p \in Procs : Run(p) \/ Crash(p) \/ \E t \in Turns : Acquire(p, t)

Spec == Init /\ [][Next]_vars
-----------------------------------------------------------------------------
ActionRow == [id : ActionId, fp : Fps, epoch : Nat]
ChargeRow == [seq : Nat, id : ActionId, fp : Fps]

\* Every variable has the type the schema and the locals of dtx.py give it.
TypeOK ==
    /\ ownerEpoch \in [Turns -> Nat]
    /\ turns \in [Turns -> TurnRow \cup {None}]
    /\ actions \subseteq ActionRow
    /\ charges \subseteq ChargeRow
    /\ chargeSeq \in Nat
    /\ lock \in [Turns -> Procs \cup {None}]
    /\ w \in [Procs -> Local]
    /\ results \subseteq ActionId \X Fps

\* No action is charged twice, whatever coordinators race, die and retry
\* (dtx.py: "two coordinators can never double-execute").
AtMostOnce == \A c, d \in charges : c.id = d.id => c = d

\* A claim without its effect, or an effect without its claim, never survives a
\* death between the two statements of do_charge.
ClaimIffEffect ==
    /\ \A r \in actions : \E c \in charges : c.id = r.id /\ c.fp = r.fp
    /\ \A c \in charges : \E r \in actions : r.id = c.id /\ r.fp = c.fp

\* What do_charge told a caller, by committing or by dedup, is what the charges
\* table holds: a result is never returned for other args or for a lost effect.
ResultsDurable ==
    \A x \in results : \E c \in charges : <<c.id, c.fp>> = x

\* Within a turn effects follow the order of the leases: once an owner has
\* charged, no earlier owner charges after it.
OwnersInOrder ==
    \A c, d \in charges : \A r, q \in actions :
        (c.id[1] = d.id[1] /\ c.seq < d.seq /\ r.id = c.id /\ q.id = d.id) => r.epoch <= q.epoch

\* The actions of a plan commit in ordinal order with no gap, across every
\* coordinator that ran a part of it.
NoGap ==
    \A r \in actions : \A o \in 0 .. r.id[3] : Claimed(<<r.id[1], r.id[2], o>>)

AllDone(t, pl) == \A o \in 0 .. PlanLen[pl] - 1 : Claimed(<<t, pl, o>>)

\* A turn marked committed has executed every action of its durable plan, though
\* run_turn marks it without looking at the fence or at the actions table.
CommittedTurnComplete ==
    \A t \in Turns :
        (turns[t] # None /\ turns[t].state = "committed") => AllDone(t, turns[t].plan)

\* A stale coordinator cannot commit: whoever adds an action row holds the
\* current epoch of its turn at that moment.
FencedCommit ==
    [][\A r \in actions' \ actions : r.epoch = ownerEpoch[r.id[1]]]_vars
=============================================================================
