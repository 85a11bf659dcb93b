------------------------------ MODULE Dmodel -------------------------------
(***************************************************************************)
(* agenttx/dmodel.py: the repository's own bounded model of distributed    *)
(* turn recovery, one action of one turn, per tool class.  Here it is the  *)
(* abstract specification of the coordinators: for the TRANSACTIONAL class *)
(* Dtx implements it.                                                      *)
(***************************************************************************)
EXTENDS Integers

CONSTANTS
    Coordinators,   \* dmodel.py explores two of them
    MAX_EPOCH       \* bound of the lease space

ASSUME DmodelAssumption == MAX_EPOCH \in Nat

VARIABLES
    klass,          \* tool class of the action, chosen once
    owner_epoch,    \* epoch of the current lease holder, 0 when none
    claimed_by,     \* epoch that won the claim, 0 when unclaimed
    effect_started, \* a non-transactional effect has begun
    committed,      \* the action is recorded as committed
    durable_effect, \* how many times the effect became durable
    uncertain,      \* the ambiguous window was surfaced as UNCERTAIN
    c               \* c[i]: known epoch (0 for Python None) and pc

vars == <<klass, owner_epoch, claimed_by, effect_started, committed, durable_effect, uncertain, c>>
action == <<klass, claimed_by, effect_started, committed, durable_effect, uncertain>>

Klasses == {"transactional", "idempotent", "overlay", "irreversible"}
PCs == {"start", "acquired", "stale", "done", "claimed", "effecting", "uncertain"}
Start == [epoch |-> 0, pc |-> "start"]
Goto(i, pc) == c' = [c EXCEPT ![i].pc = pc]
Owns(i) == c[i].epoch = owner_epoch
-----------------------------------------------------------------------------
Init ==
    /\ klass \in Klasses
    /\ owner_epoch = 0 /\ claimed_by = 0 /\ durable_effect = 0
    /\ effect_started = FALSE /\ committed = FALSE /\ uncertain = FALSE
    /\ c = [i \in Coordinators |-> Start]

\* A crash loses the pc and the known epoch; durable state persists.
Crash(i) ==
    /\ c[i].pc # "start"
    /\ c' = [c EXCEPT ![i] = Start]
    /\ UNCHANGED <<owner_epoch, action>>

Acquire(i) ==
    /\ c[i].pc = "start" /\ owner_epoch < MAX_EPOCH
    /\ owner_epoch' = owner_epoch + 1
    /\ c' = [c EXCEPT ![i] = [epoch |-> owner_epoch + 1, pc |-> "acquired"]]
    /\ UNCHANGED action

\* The fence: a stale owner is rejected.
Fenced(i) ==
    /\ c[i].pc = "acquired" /\ ~Owns(i)
    /\ Goto(i, "stale") /\ UNCHANGED <<owner_epoch, action>>

Dedup(i) ==
    /\ c[i].pc = "acquired" /\ Owns(i) /\ committed
    /\ Goto(i, "done") /\ UNCHANGED <<owner_epoch, action>>

\* Mutant: the transaction runs the effect without looking for the row.
TransactBlind(i) ==
    /\ c[i].pc = "acquired" /\ Owns(i) /\ klass = "transactional"
    /\ claimed_by' = c[i].epoch /\ committed' = TRUE /\ durable_effect' = durable_effect + 1
    /\ Goto(i, "done")
    /\ UNCHANGED <<klass, owner_epoch, effect_started, uncertain>>

\* Claim, effect and commit in one database transaction.
Transact(i) ==
    /\ c[i].pc = "acquired" /\ Owns(i) /\ ~committed /\ klass = "transactional"
    /\ claimed_by' = c[i].epoch /\ committed' = TRUE /\ durable_effect' = durable_effect + 1
    /\ Goto(i, "done")
    /\ UNCHANGED <<klass, owner_epoch, effect_started, uncertain>>

\* Mutant: the claim is taken over from an owner that died holding it.
StealClaim(i) ==
    /\ c[i].pc = "acquired" /\ Owns(i) /\ ~committed /\ klass # "transactional"
    /\ claimed_by' = c[i].epoch
    /\ Goto(i, "claimed")
    /\ UNCHANGED <<klass, owner_epoch, effect_started, committed, durable_effect, uncertain>>

\* The other classes claim first; "already mine" is the same assignment.
Claim(i) ==
    /\ c[i].pc = "acquired" /\ Owns(i) /\ ~committed /\ klass # "transactional"
    /\ claimed_by \in {0, c[i].epoch}
    /\ claimed_by' = c[i].epoch
    /\ Goto(i, "claimed")
    /\ UNCHANGED <<klass, owner_epoch, effect_started, committed, durable_effect, uncertain>>

\* Claimed by another epoch: back off.
BackOff(i) ==
    /\ c[i].pc = "acquired" /\ Owns(i) /\ ~committed /\ klass # "transactional"
    /\ claimed_by \notin {0, c[i].epoch}
    /\ Goto(i, "stale") /\ UNCHANGED <<owner_epoch, action>>

\* Mutant: recovery of a started effect runs it again instead of failing closed.
SurfaceRetries(i) ==
    /\ c[i].pc = "acquired" /\ Owns(i) /\ ~committed /\ klass = "irreversible"
    /\ claimed_by \notin {0, c[i].epoch} /\ effect_started
    /\ uncertain' = TRUE
    /\ Goto(i, "effecting")
    /\ UNCHANGED <<klass, owner_epoch, claimed_by, effect_started, committed, durable_effect>>

\* Claimed by another epoch and the effect may have happened: fail closed.
Surface(i) ==
    /\ c[i].pc = "acquired" /\ Owns(i) /\ ~committed /\ klass = "irreversible"
    /\ claimed_by \notin {0, c[i].epoch} /\ effect_started
    /\ uncertain' = TRUE
    /\ Goto(i, "uncertain")
    /\ UNCHANGED <<klass, owner_epoch, claimed_by, effect_started, committed, durable_effect>>

BeginEffect(i) ==
    /\ c[i].pc = "claimed" /\ Owns(i) /\ ~committed
    /\ effect_started' = TRUE
    /\ Goto(i, "effecting")
    /\ UNCHANGED <<klass, owner_epoch, claimed_by, committed, durable_effect, uncertain>>

\* Re-doing an idempotent or overlay effect leaves one durable effect.
FinishEffect(i) ==
    /\ c[i].pc = "effecting" /\ Owns(i)
    /\ durable_effect' = IF klass \in {"idempotent", "overlay"} THEN 1 ELSE durable_effect + 1
    /\ committed' = TRUE
    /\ Goto(i, "done")
    /\ UNCHANGED <<klass, owner_epoch, claimed_by, effect_started, uncertain>>

Next == \E i \in Coordinators :
    \/ Crash(i) \/ Acquire(i) \/ Fenced(i) \/ Dedup(i) \/ Transact(i)
    \/ Claim(i) \/ BackOff(i) \/ Surface(i) \/ BeginEffect(i) \/ FinishEffect(i)

Spec == Init /\ [][Next]_vars
-----------------------------------------------------------------------------
\* The values dmodel.py's state dictionary takes.
TypeOK ==
    /\ klass \in Klasses
    /\ owner_epoch \in 0 .. MAX_EPOCH /\ claimed_by \in 0 .. MAX_EPOCH
    /\ durable_effect \in Nat
    /\ {effect_started, committed, uncertain} \subseteq BOOLEAN
    /\ c \in [Coordinators -> [epoch : 0 .. MAX_EPOCH, pc : PCs]]

\* I1 and I4 of dmodel.py in every reachable state: the effect is durable at
\* most once, and exactly once when anybody can observe "committed".
EffectOnce == durable_effect = IF committed THEN 1 ELSE 0

\* A claim is exclusive for good: two coordinators are never both between their
\* claim and their commit, whoever holds the lease in the meantime.
ClaimIsExclusive ==
    \A i, j \in Coordinators : {c[i].pc, c[j].pc} \subseteq {"claimed", "effecting"} => i = j

\* I3: once recovery has answered UNCERTAIN the effect is never recorded, so
\* the two answers never coexist.
UncertainIsFinal == uncertain => ~committed
=============================================================================
