----------------------------- MODULE DtxProofs -----------------------------
(***************************************************************************)
(* Theorems about Dtx, for any number of coordinators, turns, plans, args  *)
(* and epochs.  IInv is the inductive invariant; the exactly-once part     *)
(* needs no assumption on the backend, the fencing part is about           *)
(* PostgreSQL.                                                             *)
(***************************************************************************)
EXTENDS DtxRefinesDmodel, ConcurrentGate, FiniteSetTheorems, TLAPS

Loaded == {"call"} \cup InTx

\* A process past a statement has the locals that statement assigns.
LocalSet(p) ==
    /\ w[p].pc # "idle" => w[p].turn \in Turns
    /\ w[p].pc \in Loaded => w[p].plan \in Plans /\ turns[w[p].turn] # None
    /\ w[p].pc \in InTx => w[p].fp \in Fps
LocalsSet == \A p \in Procs : LocalSet(p)

\* A process inside do_charge's transaction with an uncommitted claim: nobody
\* has committed that action, and nobody else holds a claim on it.
Pending(p) == w[p].pc \in {"effect", "commit"}
ClaimPending == \A p \in Procs : Pending(p) => ~Claimed(Aid(p))
ClaimExclusive == \A p, q \in Procs : (Pending(p) /\ Pending(q) /\ Aid(p) = Aid(q)) => p = q

TypeInv == TypeOK /\ LocalsSet
OnceInv == AtMostOnce /\ ClaimIffEffect /\ ResultsDurable /\ ClaimPending /\ ClaimExclusive

-----------------------------------------------------------------------------
(***************************************************************************)
(* What each action does to the locals: the fields of the process that     *)
(* takes it, one by one, and the other processes' records unchanged.       *)
(***************************************************************************)
Becomes(p, pc, t, e, pl, o, f) ==
    /\ w' \in [Procs -> Local]
    /\ w'[p].pc = pc /\ w'[p].turn = t /\ w'[p].epoch = e
    /\ w'[p].plan = pl /\ w'[p].ord = o /\ w'[p].fp = f
    /\ \A q \in Procs : q # p => w'[q] = w[q]

LEMMA LocalFields ==
    ASSUME TypeInv, NEW p \in Procs
    PROVE  /\ w[p].pc \in {"idle", "plan", "call", "claim", "effect", "commit"}
           /\ w[p].turn \in Turns \cup {None} /\ w[p].epoch \in Nat
           /\ w[p].plan \in Plans \cup {None} /\ w[p].ord \in Nat
           /\ w[p].fp \in Fps \cup {None}
<1> w[p] \in Local
  BY DEF TypeInv, TypeOK
<1> QED BY DEF Local, InTx

LEMMA AcquireLocals ==
    ASSUME TypeInv, NEW p \in Procs, NEW t \in Turns, Acquire(p, t)
    PROVE  Becomes(p, "plan", t, ownerEpoch[t] + 1, None, 0, None)
<1>1. ownerEpoch[t] + 1 \in Nat
  BY DEF TypeInv, TypeOK
<1>2. Idle \in Local
  BY DEF Idle, Local
<1> QED
BY <1>1, <1>2 DEF Acquire, Becomes, Idle, TypeInv, TypeOK, Local, InTx

LEMMA BeginLocals ==
    ASSUME TypeInv, NEW p \in Procs, NEW pl \in Plans, Begin(p, pl)
    PROVE  Becomes(p, "call", w[p].turn, w[p].epoch, pl, w[p].ord, w[p].fp)
BY DEF Begin, Becomes, TypeInv, TypeOK, Local, InTx
LEMMA LoadLocals ==
    ASSUME TypeInv, NEW p \in Procs, Load(p)
    PROVE  Becomes(p, "call", w[p].turn, w[p].epoch, turns[w[p].turn].plan, w[p].ord, w[p].fp)
<1> w[p].turn \in Turns /\ turns[w[p].turn].plan \in Plans
  BY DEF Load, TypeInv, TypeOK, TurnRow, LocalsSet, LocalSet
<1> QED
BY DEF Load, Becomes, TypeInv, TypeOK, Local, InTx
LEMMA EndLocals ==
    ASSUME TypeInv, NEW p \in Procs, End(p)
    PROVE  Becomes(p, "idle", None, 0, None, 0, None)
BY DEF End, Idle, Becomes, TypeInv, TypeOK, Local, InTx
LEMMA FenceLocals ==
    ASSUME TypeInv, NEW p \in Procs, NEW f \in Fps, Fence(p, f)
    PROVE  Becomes(p, "claim", w[p].turn, w[p].epoch, w[p].plan, w[p].ord, f)
BY DEF Fence, Becomes, TypeInv, TypeOK, Local, InTx
LEMMA ReturnLocals ==
    ASSUME TypeInv, NEW p \in Procs, Return(p)
    PROVE  Becomes(p, "call", w[p].turn, w[p].epoch, w[p].plan, w[p].ord + 1, None)
<1>1. w[p].ord + 1 \in Nat
  BY LocalFields
<1> QED
BY <1>1 DEF Return, Becomes, TypeInv, TypeOK, Local, InTx

LEMMA ClaimLocals ==
    ASSUME TypeInv, NEW p \in Procs, Claim(p)
    PROVE  Becomes(p, "effect", w[p].turn, w[p].epoch, w[p].plan, w[p].ord, w[p].fp)
BY DEF Claim, Becomes, TypeInv, TypeOK, Local, InTx

LEMMA EffectLocals ==
    ASSUME TypeInv, NEW p \in Procs, Effect(p)
    PROVE  Becomes(p, "commit", w[p].turn, w[p].epoch, w[p].plan, w[p].ord, w[p].fp)
BY DEF Effect, Becomes, TypeInv, TypeOK, Local, InTx

LEMMA ReleasedType ==
    ASSUME TypeInv, NEW p \in Procs PROVE Released(p) \in [Turns -> Procs \cup {None}]
BY DEF Released, TypeInv, TypeOK

LEMMA AidType ==
    ASSUME TypeInv, NEW p \in Procs, w[p].pc \in InTx PROVE Aid(p) \in ActionId /\ w[p].fp \in Fps
BY LocalFields DEF TypeInv, LocalsSet, LocalSet, Loaded, InTx, Aid, ActionId
LEMMA TurnOfLive ==
    ASSUME TypeInv, NEW p \in Procs, w[p].pc # "idle" PROVE w[p].turn \in Turns
BY DEF TypeInv, LocalsSet, LocalSet

LEMMA LocalsKept ==
    ASSUME TypeInv, NEW p \in Procs, LocalSet(p)',
           \A q \in Procs : q # p => w'[q] = w[q],
           \A t \in Turns : turns[t] # None => turns'[t] # None
    PROVE  LocalsSet'
<1> SUFFICES ASSUME NEW q \in Procs PROVE LocalSet(q)'
  BY DEF LocalsSet
<1>1. CASE q = p
  BY <1>1
<1>2. CASE q # p
  <2>1. w'[q] = w[q] /\ LocalSet(q)
    BY <1>2 DEF TypeInv, LocalsSet
  <2> QED BY <2>1 DEF LocalSet, Loaded, InTx
<1> QED BY <1>1, <1>2
-----------------------------------------------------------------------------
LEMMA TypeNext == ASSUME TypeInv, [Next]_vars PROVE TypeInv'
<1>1. ASSUME NEW p \in Procs, NEW t \in Turns, Acquire(p, t) PROVE TypeInv'
  <2>1. Becomes(p, "plan", t, ownerEpoch[t] + 1, None, 0, None)
    BY <1>1, AcquireLocals
  <2>2. TypeOK'
    BY <1>1, <2>1 DEF Acquire, Becomes, TypeInv, TypeOK
  <2>3. LocalSet(p)'
    BY <2>1 DEF Becomes, LocalSet, Loaded, InTx
  <2> QED BY <1>1, <2>1, <2>2, <2>3, LocalsKept DEF Acquire, Becomes, TypeInv
<1>2. ASSUME NEW p \in Procs, NEW pl \in Plans, Begin(p, pl) PROVE TypeInv'
  <2>1. Becomes(p, "call", w[p].turn, w[p].epoch, pl, w[p].ord, w[p].fp)
    BY <1>2, BeginLocals
  <2>2. w[p].turn \in Turns
    BY <1>2, TurnOfLive DEF Begin
  <2>3. /\ turns' \in [Turns -> TurnRow \cup {None}]
        /\ turns'[w[p].turn] # None
        /\ \A t \in Turns : turns[t] # None => turns'[t] # None
    BY <1>2, <2>2, DtxAssumption DEF Begin, TypeInv, TypeOK, TurnRow
  <2>4. TypeOK'
    BY <1>2, <2>1, <2>3 DEF Begin, Becomes, TypeInv, TypeOK
  <2>5. LocalSet(p)'
    BY <2>1, <2>2, <2>3 DEF Becomes, LocalSet, Loaded, InTx
  <2> QED BY <2>1, <2>3, <2>4, <2>5, LocalsKept DEF Becomes, TypeInv
<1>3. ASSUME NEW p \in Procs, Load(p) PROVE TypeInv'
  <2>1. Becomes(p, "call", w[p].turn, w[p].epoch, turns[w[p].turn].plan, w[p].ord, w[p].fp)
    BY <1>3, LoadLocals
  <2>2. w[p].turn \in Turns /\ turns[w[p].turn] # None /\ turns[w[p].turn].plan \in Plans
    BY <1>3, TurnOfLive DEF Load, TypeInv, TypeOK, TurnRow
  <2>3. TypeOK'
    BY <1>3, <2>1 DEF Load, durable, Becomes, TypeInv, TypeOK
  <2>4. LocalSet(p)'
    BY <1>3, <2>1, <2>2 DEF Load, durable, Becomes, LocalSet, Loaded, InTx
  <2> QED BY <1>3, <2>1, <2>3, <2>4, LocalsKept DEF Load, durable, Becomes, TypeInv
<1>4. ASSUME NEW p \in Procs, End(p), UNCHANGED <<durable, results>> PROVE TypeInv'
  <2>1. Becomes(p, "idle", None, 0, None, 0, None)
    BY <1>4, EndLocals
  <2>2. TypeOK'
    BY <1>4, <2>1, ReleasedType DEF End, durable, Becomes, TypeInv, TypeOK
  <2>3. LocalSet(p)'
    BY <2>1 DEF Becomes, LocalSet, Loaded, InTx
  <2> QED BY <1>4, <2>1, <2>2, <2>3, LocalsKept DEF durable, Becomes, TypeInv
<1>5. ASSUME NEW p \in Procs, NEW f \in Fps, Fence(p, f) PROVE TypeInv'
  <2>1. Becomes(p, "claim", w[p].turn, w[p].epoch, w[p].plan, w[p].ord, f)
    BY <1>5, FenceLocals
  <2>2. TypeOK'
    BY <1>5, <2>1 DEF Fence, durable, Becomes, TypeInv, TypeOK
  <2>3. LocalSet(p)'
    BY <1>5, <2>1 DEF Fence, durable, Becomes, TypeInv, LocalsSet, LocalSet, Loaded, InTx
  <2> QED BY <1>5, <2>1, <2>2, <2>3, LocalsKept DEF Fence, durable, Becomes, TypeInv
<1>6. ASSUME NEW p \in Procs, Claim(p) PROVE TypeInv'
  <2>1. Becomes(p, "effect", w[p].turn, w[p].epoch, w[p].plan, w[p].ord, w[p].fp)
    BY <1>6, ClaimLocals
  <2>2. TypeOK'
    BY <1>6, <2>1 DEF Claim, durable, Becomes, TypeInv, TypeOK
  <2>3. LocalSet(p)'
    BY <1>6, <2>1 DEF Claim, Insertable, durable, Becomes, TypeInv, LocalsSet, LocalSet, Loaded, InTx
  <2> QED BY <1>6, <2>1, <2>2, <2>3, LocalsKept DEF Claim, durable, Becomes, TypeInv
<1>7. ASSUME NEW p \in Procs, Dedup(p) PROVE TypeInv'
  <2>1. Becomes(p, "call", w[p].turn, w[p].epoch, w[p].plan, w[p].ord + 1, None)
    BY <1>7, ReturnLocals DEF Dedup
  <2>2. Aid(p) \in ActionId /\ w[p].fp \in Fps
    BY <1>7, AidType DEF Dedup, Insertable, InTx
  <2>3. TypeOK'
    BY <1>7, <2>1, <2>2, ReleasedType DEF Dedup, Return, durable, Becomes, TypeInv, TypeOK
  <2>4. LocalSet(p)'
    BY <1>7, <2>1 DEF Dedup, Insertable, durable, Becomes, TypeInv, LocalsSet, LocalSet, Loaded, InTx
  <2> QED BY <1>7, <2>1, <2>3, <2>4, LocalsKept DEF Dedup, durable, Becomes, TypeInv
<1>8. ASSUME NEW p \in Procs, Effect(p) PROVE TypeInv'
  <2>1. Becomes(p, "commit", w[p].turn, w[p].epoch, w[p].plan, w[p].ord, w[p].fp)
    BY <1>8, EffectLocals
  <2>2. TypeOK'
    BY <1>8, <2>1 DEF Effect, durable, Becomes, TypeInv, TypeOK
  <2>3. LocalSet(p)'
    BY <1>8, <2>1 DEF Effect, durable, Becomes, TypeInv, LocalsSet, LocalSet, Loaded, InTx
  <2> QED BY <1>8, <2>1, <2>2, <2>3, LocalsKept DEF Effect, durable, Becomes, TypeInv
<1>9. ASSUME NEW p \in Procs, Commit(p) PROVE TypeInv'
  <2>1. Becomes(p, "call", w[p].turn, w[p].epoch, w[p].plan, w[p].ord + 1, None)
    BY <1>9, ReturnLocals DEF Commit
  <2>2. Aid(p) \in ActionId /\ w[p].fp \in Fps /\ w[p].epoch \in Nat
    BY <1>9, AidType, LocalFields DEF Commit, InTx
  <2>3. [id |-> Aid(p), fp |-> w[p].fp, epoch |-> w[p].epoch] \in ActionRow
    BY <2>2 DEF ActionRow
  <2>4. [seq |-> chargeSeq, id |-> Aid(p), fp |-> w[p].fp] \in ChargeRow
    BY <2>2 DEF ChargeRow, TypeInv, TypeOK
  <2>5. TypeOK'
    BY <1>9, <2>1, <2>2, <2>3, <2>4, ReleasedType DEF Commit, Return, Becomes, TypeInv, TypeOK
  <2>6. LocalSet(p)'
    BY <1>9, <2>1 DEF Commit, Becomes, TypeInv, LocalsSet, LocalSet, Loaded, InTx
  <2> QED BY <1>9, <2>1, <2>5, <2>6, LocalsKept DEF Commit, Becomes, TypeInv
<1>10. ASSUME NEW p \in Procs, Finish(p) PROVE TypeInv'
  <2>1. Becomes(p, "idle", None, 0, None, 0, None)
    BY <1>10, EndLocals DEF Finish
  <2>2. w[p].turn \in Turns /\ turns[w[p].turn] \in TurnRow
    BY <1>10, TurnOfLive DEF Finish, TypeInv, TypeOK, LocalsSet, LocalSet, Loaded
  <2>3. /\ turns' \in [Turns -> TurnRow \cup {None}]
        /\ \A t \in Turns : turns[t] # None => turns'[t] # None
    BY <1>10, <2>2, DtxAssumption DEF Finish, TypeInv, TypeOK, TurnRow
  <2>4. TypeOK'
    BY <1>10, <2>1, <2>3, ReleasedType DEF Finish, End, Becomes, TypeInv, TypeOK
  <2>5. LocalSet(p)'
    BY <2>1 DEF Becomes, LocalSet, Loaded, InTx
  <2> QED BY <2>1, <2>3, <2>4, <2>5, LocalsKept DEF Becomes, TypeInv
<1>11. CASE UNCHANGED vars
  BY <1>11 DEF vars, durable, TypeInv, TypeOK, LocalsSet, LocalSet, Loaded, InTx
<1> QED
  BY <1>1, <1>2, <1>3, <1>4, <1>5, <1>6, <1>7, <1>8, <1>9, <1>10, <1>11
     DEF Next, Run, Crash, LoadNone, FenceStale, Mismatch

\* Every variable keeps its type, and the locals an action reads are set.
THEOREM TypeCorrect == Spec => []TypeInv
<1>1. Init => TypeInv
  BY DtxAssumption DEF Init, TypeInv, TypeOK, LocalsSet, LocalSet, Local, Idle, Loaded, InTx
<1> QED
  BY <1>1, TypeNext, PTL DEF Spec

\* The part of it the runs check: the schema and the locals of dtx.py.
THEOREM TypeSafe == Spec => []TypeOK
<1>1. TypeInv => TypeOK
  BY DEF TypeInv
<1> QED
  BY <1>1, TypeCorrect, PTL
-----------------------------------------------------------------------------
(***************************************************************************)
(* Exactly-once.  AtMostOnce is not inductive: what keeps a second charge  *)
(* out is that a claim still uncommitted is on an action no row claims     *)
(* (ClaimPending) and is the only one on it (ClaimExclusive).              *)
(***************************************************************************)

\* A step that leaves the tables alone and opens no new claim.
LEMMA OnceKept ==
    ASSUME OnceInv, NEW p \in Procs, UNCHANGED <<actions, charges, results>>,
           \A q \in Procs : q # p => w'[q] = w[q],
           Pending(p)' => Pending(p) /\ Aid(p)' = Aid(p)
    PROVE  OnceInv'
<1>1. AtMostOnce' /\ ClaimIffEffect' /\ ResultsDurable'
  BY DEF OnceInv, AtMostOnce, ClaimIffEffect, ResultsDurable
<1>2. \A q \in Procs : Pending(q)' => Pending(q) /\ Aid(q)' = Aid(q)
  BY DEF Pending, Aid
<1>3. ClaimPending' /\ ClaimExclusive'
  BY <1>2 DEF OnceInv, ClaimPending, ClaimExclusive, Claimed
<1> QED BY <1>1, <1>3 DEF OnceInv

LEMMA ClaimOnce ==
    ASSUME TypeInv, OnceInv, NEW p \in Procs, Claim(p) PROVE OnceInv'
<1>1. Becomes(p, "effect", w[p].turn, w[p].epoch, w[p].plan, w[p].ord, w[p].fp)
  BY ClaimLocals
<1>2. UNCHANGED <<actions, charges, results>>
  BY DEF Claim, durable
<1>3. AtMostOnce' /\ ClaimIffEffect' /\ ResultsDurable'
  BY <1>2 DEF OnceInv, AtMostOnce, ClaimIffEffect, ResultsDurable
<1>4. \A q \in Procs : Aid(q)' = Aid(q) /\ (q # p => (Pending(q)' <=> Pending(q)))
  BY <1>1 DEF Becomes, Aid, Pending
<1>5. ~Claimed(Aid(p)) /\ \A q \in Procs : q # p /\ Pending(q) => Aid(q) # Aid(p)
  BY DEF Claim, Insertable, Pending
<1>6. ClaimPending'
  BY <1>2, <1>4, <1>5 DEF OnceInv, ClaimPending, Claimed
<1>7. ClaimExclusive'
  BY <1>4, <1>5 DEF OnceInv, ClaimExclusive
<1> QED BY <1>3, <1>6, <1>7 DEF OnceInv

LEMMA DedupOnce ==
    ASSUME TypeInv, OnceInv, NEW p \in Procs, Dedup(p) PROVE OnceInv'
<1>1. Becomes(p, "call", w[p].turn, w[p].epoch, w[p].plan, w[p].ord + 1, None)
  BY ReturnLocals DEF Dedup
<1>2. actions' = actions /\ charges' = charges /\ results' = results \cup {<<Aid(p), w[p].fp>>}
  BY DEF Dedup, durable, Return
<1>3. \E c \in charges : c.id = Aid(p) /\ c.fp = w[p].fp
  BY DEF Dedup, OnceInv, ClaimIffEffect
<1>4. ResultsDurable'
  BY <1>2, <1>3 DEF OnceInv, ResultsDurable
<1>5. \A q \in Procs : Pending(q)' => Pending(q) /\ Aid(q)' = Aid(q)
  BY <1>1 DEF Becomes, Pending, Aid
<1>6. AtMostOnce' /\ ClaimIffEffect' /\ ClaimPending' /\ ClaimExclusive'
  BY <1>2, <1>5 DEF OnceInv, AtMostOnce, ClaimIffEffect, ClaimPending, ClaimExclusive, Claimed
<1> QED BY <1>4, <1>6 DEF OnceInv

LEMMA CommitOnce ==
    ASSUME TypeInv, OnceInv, NEW p \in Procs, Commit(p) PROVE OnceInv'
<1> DEFINE row == [id |-> Aid(p), fp |-> w[p].fp, epoch |-> w[p].epoch]
           charge == [seq |-> chargeSeq, id |-> Aid(p), fp |-> w[p].fp]
<1>1. Becomes(p, "call", w[p].turn, w[p].epoch, w[p].plan, w[p].ord + 1, None)
  BY ReturnLocals DEF Commit
<1>2. /\ actions' = actions \cup {row} /\ charges' = charges \cup {charge}
      /\ results' = results \cup {<<Aid(p), w[p].fp>>}
  BY DEF Commit, Return
<1>3. /\ row.id = Aid(p) /\ row.fp = w[p].fp
      /\ charge.id = Aid(p) /\ charge.fp = w[p].fp
  OBVIOUS
<1> HIDE DEF row, charge
<1>4. Pending(p) /\ ~Claimed(Aid(p))
  BY DEF Commit, OnceInv, ClaimPending, Pending
<1>5. \A c \in charges : c.id # Aid(p)
  BY <1>4 DEF OnceInv, ClaimIffEffect, Claimed
<1>6. AtMostOnce'
  BY <1>2, <1>3, <1>5 DEF OnceInv, AtMostOnce
<1>7. ClaimIffEffect'
  BY <1>2, <1>3 DEF OnceInv, ClaimIffEffect
<1>8. ResultsDurable'
  BY <1>2, <1>3 DEF OnceInv, ResultsDurable
<1>9. \A q \in Procs : Pending(q)' => q # p /\ Pending(q) /\ Aid(q)' = Aid(q)
  BY <1>1 DEF Becomes, Pending, Aid
<1>10. ClaimPending' /\ ClaimExclusive'
  BY <1>2, <1>3, <1>4, <1>9 DEF OnceInv, ClaimPending, ClaimExclusive, Claimed
<1> QED BY <1>6, <1>7, <1>8, <1>10 DEF OnceInv

LEMMA OnceInit == Init => OnceInv
BY DEF Init, Idle, OnceInv, AtMostOnce, ClaimIffEffect, ResultsDurable, ClaimPending,
       ClaimExclusive, Pending

LEMMA OnceNext == ASSUME TypeInv, OnceInv, [Next]_vars PROVE OnceInv'
<1>1. ASSUME NEW p \in Procs, NEW t \in Turns, Acquire(p, t) PROVE OnceInv'
  BY <1>1, AcquireLocals, OnceKept DEF Acquire, Becomes, Pending
<1>2. ASSUME NEW p \in Procs, NEW pl \in Plans, Begin(p, pl) PROVE OnceInv'
  BY <1>2, BeginLocals, OnceKept DEF Begin, Becomes, Pending
<1>3. ASSUME NEW p \in Procs, Load(p) PROVE OnceInv'
  BY <1>3, LoadLocals, OnceKept DEF Load, durable, Becomes, Pending
<1>4. ASSUME NEW p \in Procs, End(p), UNCHANGED <<actions, charges, results>> PROVE OnceInv'
  BY <1>4, EndLocals, OnceKept DEF Becomes, Pending
<1>5. ASSUME NEW p \in Procs, NEW f \in Fps, Fence(p, f) PROVE OnceInv'
  BY <1>5, FenceLocals, OnceKept DEF Fence, durable, Becomes, Pending
<1>6. ASSUME NEW p \in Procs, Effect(p) PROVE OnceInv'
  BY <1>6, EffectLocals, OnceKept DEF Effect, durable, Becomes, Pending, Aid
<1>7. CASE UNCHANGED vars
  BY <1>7 DEF vars, durable, OnceInv, AtMostOnce, ClaimIffEffect, ResultsDurable, ClaimPending,
              ClaimExclusive, Pending, Claimed, Aid
<1> QED
  BY <1>1, <1>2, <1>3, <1>4, <1>5, <1>6, <1>7, ClaimOnce, DedupOnce, CommitOnce
     DEF Next, Run, Crash, LoadNone, FenceStale, Mismatch, Finish, durable

LEMMA OnceAlways == Spec => []OnceInv
BY OnceInit, OnceNext, TypeCorrect, PTL DEF Spec

\* Any number of coordinators racing, dying and retrying on either backend
\* charge an action at most once.
THEOREM ExactlyOnce == Spec => []AtMostOnce
<1>1. OnceInv => AtMostOnce
  BY DEF OnceInv
<1> QED BY <1>1, OnceAlways, PTL

\* A claim and its effect share their fate: a death anywhere in do_charge leaves
\* both or neither.
THEOREM ClaimWithEffect == Spec => []ClaimIffEffect
<1>1. OnceInv => ClaimIffEffect
  BY DEF OnceInv
<1> QED BY <1>1, OnceAlways, PTL

\* What a caller was told, by a commit or by a dedup hit, is in the charges table.
THEOREM ToldIsDurable == Spec => []ResultsDurable
<1>1. OnceInv => ResultsDurable
  BY DEF OnceInv
<1> QED BY <1>1, OnceAlways, PTL
-----------------------------------------------------------------------------
(***************************************************************************)
(* Fencing, on PostgreSQL: from the fence to COMMIT a process holds the    *)
(* row lock of its turn's owner, so its epoch stays the current one.       *)
(***************************************************************************)
OwnerLocked ==
    \A p \in Procs : w[p].pc \in InTx =>
        lock[w[p].turn] = p /\ w[p].epoch = ownerEpoch[w[p].turn]

\* A step that takes no lease: locks of others stay, and p's if it stays inside.
LEMMA LockKept ==
    ASSUME OwnerLocked, NEW p \in Procs, UNCHANGED ownerEpoch,
           \A q \in Procs : q # p => w'[q] = w[q],
           \A t \in Turns, q \in Procs : q # p /\ lock[t] = q => lock'[t] = q,
           TypeInv,
           w'[p].pc \in InTx => lock'[w'[p].turn] = p /\ w'[p].epoch = ownerEpoch[w'[p].turn]
    PROVE  OwnerLocked'
<1> SUFFICES ASSUME NEW q \in Procs, w'[q].pc \in InTx
             PROVE  lock'[w'[q].turn] = q /\ w'[q].epoch = ownerEpoch'[w'[q].turn]
  BY DEF OwnerLocked, InTx
<1>1. CASE q = p
  BY <1>1
<1>2. CASE q # p
  <2>1. w'[q] = w[q] /\ w[q].turn \in Turns
    BY <1>2, TurnOfLive DEF InTx
  <2> QED BY <1>2, <2>1 DEF OwnerLocked
<1> QED BY <1>1, <1>2

LEMMA OwnerLockedNext ==
    ASSUME Backend = "postgres", TypeInv, OwnerLocked, [Next]_vars
    PROVE  OwnerLocked'
<1>1. ASSUME NEW p \in Procs, NEW t \in Turns, Acquire(p, t) PROVE OwnerLocked'
  <2>1. Becomes(p, "plan", t, ownerEpoch[t] + 1, None, 0, None) /\ lock[t] = None /\ lock' = lock
    BY <1>1, AcquireLocals DEF Acquire, LockFree
  <2> SUFFICES ASSUME NEW q \in Procs, w'[q].pc \in InTx
               PROVE  lock'[w'[q].turn] = q /\ w'[q].epoch = ownerEpoch'[w'[q].turn]
    BY DEF OwnerLocked, InTx
  <2>2. w'[q] = w[q]
    BY <2>1 DEF Becomes, InTx
  <2>3. w[q].turn \in Turns /\ lock[w[q].turn] = q
    BY <2>2, TurnOfLive DEF OwnerLocked, InTx
  <2>4. w[q].turn # t
    BY <2>1, <2>3, DtxAssumption
  <2> QED BY <1>1, <2>1, <2>2, <2>3, <2>4 DEF Acquire, OwnerLocked, TypeInv, TypeOK
<1>2. ASSUME NEW p \in Procs, NEW pl \in Plans, Begin(p, pl) PROVE OwnerLocked'
  BY <1>2, BeginLocals, LockKept DEF Begin, Becomes, InTx
<1>3. ASSUME NEW p \in Procs, Load(p) PROVE OwnerLocked'
  BY <1>3, LoadLocals, LockKept DEF Load, durable, Becomes, InTx
<1>4. ASSUME NEW p \in Procs, End(p), UNCHANGED ownerEpoch PROVE OwnerLocked'
  <2>1. \A t \in Turns, q \in Procs : q # p /\ lock[t] = q => lock'[t] = q
    BY <1>4 DEF End, Released
  <2> QED BY <1>4, <2>1, EndLocals, LockKept DEF Becomes, InTx
<1>5. ASSUME NEW p \in Procs, NEW f \in Fps, Fence(p, f) PROVE OwnerLocked'
  <2>1. Becomes(p, "claim", w[p].turn, w[p].epoch, w[p].plan, w[p].ord, f)
    BY <1>5, FenceLocals
  <2>2. /\ w[p].turn \in Turns /\ lock[w[p].turn] = None /\ lock' = [lock EXCEPT ![w[p].turn] = p]
        /\ ownerEpoch[w[p].turn] = w[p].epoch /\ UNCHANGED ownerEpoch
    BY <1>5, TurnOfLive DEF Fence, LockFree, durable
  <2>3. \A t \in Turns, q \in Procs : q # p /\ lock[t] = q => lock'[t] = q
    BY <2>2, DtxAssumption DEF TypeInv, TypeOK
  <2>4. lock'[w'[p].turn] = p /\ w'[p].epoch = ownerEpoch[w'[p].turn]
    BY <2>1, <2>2 DEF Becomes, TypeInv, TypeOK
  <2> QED BY <2>1, <2>2, <2>3, <2>4, LockKept DEF Becomes
<1>6. ASSUME NEW p \in Procs, Claim(p) PROVE OwnerLocked'
  <2>1. Becomes(p, "effect", w[p].turn, w[p].epoch, w[p].plan, w[p].ord, w[p].fp)
    BY <1>6, ClaimLocals
  <2>2. lock[w[p].turn] = p /\ w[p].epoch = ownerEpoch[w[p].turn] /\ w[p].turn \in Turns
    BY <1>6, TurnOfLive DEF Claim, Insertable, OwnerLocked, InTx
  <2>3. lock' = lock /\ UNCHANGED ownerEpoch
    BY <1>6, <2>2 DEF Claim, durable, TypeInv, TypeOK
  <2> QED BY <2>1, <2>2, <2>3, LockKept DEF Becomes
<1>7. ASSUME NEW p \in Procs, Return(p), UNCHANGED ownerEpoch PROVE OwnerLocked'
  <2>1. \A t \in Turns, q \in Procs : q # p /\ lock[t] = q => lock'[t] = q
    BY <1>7 DEF Return, Released
  <2> QED BY <1>7, <2>1, ReturnLocals, LockKept DEF Becomes, InTx
<1>8. ASSUME NEW p \in Procs, Effect(p) PROVE OwnerLocked'
  BY <1>8, EffectLocals, LockKept DEF Effect, durable, Becomes, InTx, OwnerLocked
<1>9. CASE UNCHANGED vars
  BY <1>9 DEF vars, durable, OwnerLocked, InTx
<1> QED
  BY <1>1, <1>2, <1>3, <1>4, <1>5, <1>6, <1>7, <1>8, <1>9
     DEF Next, Run, Crash, LoadNone, FenceStale, Mismatch, Dedup, Commit, Finish, durable

\* Only Commit adds an action row.
LEMMA OnlyCommitAddsRows ==
    ASSUME [Next]_vars, actions' # actions
    PROVE  \E p \in Procs : Commit(p)
BY DEF Next, Run, Crash, Acquire, Begin, Load, LoadNone, Fence, FenceStale, Claim, Dedup, Mismatch,
       Effect, Finish, vars, durable

\* On PostgreSQL a stale coordinator cannot commit: the row it adds carries the
\* epoch that is current when the transaction commits.
THEOREM Fencing ==
    ASSUME Backend = "postgres" PROVE Spec => FencedCommit
<1>1. Init => OwnerLocked
  BY DEF Init, OwnerLocked, Idle, InTx
<1>2. TypeInv /\ OwnerLocked /\ [Next]_vars => OwnerLocked'
  BY OwnerLockedNext
<1>3. TypeInv /\ OwnerLocked /\ [Next]_vars
        => [\A r \in actions' \ actions : r.epoch = ownerEpoch[r.id[1]]]_vars
  <2> SUFFICES ASSUME TypeInv, OwnerLocked, [Next]_vars, NEW r \in actions' \ actions
               PROVE  r.epoch = ownerEpoch[r.id[1]]
    OBVIOUS
  <2>1. PICK p \in Procs : Commit(p)
    BY OnlyCommitAddsRows
  <2>2. r = [id |-> Aid(p), fp |-> w[p].fp, epoch |-> w[p].epoch]
    BY <2>1 DEF Commit
  <2>3. r.id[1] = w[p].turn /\ r.epoch = w[p].epoch
    BY <2>2 DEF Aid
  <2> QED BY <2>1, <2>3 DEF OwnerLocked, Commit, InTx
<1> QED
  BY <1>1, <1>2, <1>3, TypeCorrect, PTL DEF Spec, FencedCommit
-----------------------------------------------------------------------------
(***************************************************************************)
(* Order, on PostgreSQL.  A row never carries an epoch that is still to    *)
(* come, so the row being committed, with the current epoch, is the latest *)
(* of its turn; its charge has the latest seq.                             *)
(***************************************************************************)
OrderInv ==
    /\ \A ch \in charges : ch.seq < chargeSeq
    /\ \A r \in actions : r.epoch <= ownerEpoch[r.id[1]]
    /\ OwnersInOrder

\* A step that adds no row and takes no lease back.
LEMMA OrderKept ==
    ASSUME TypeInv, OrderInv, UNCHANGED <<actions, charges, chargeSeq>>,
           \A t \in Turns : ownerEpoch[t] <= ownerEpoch'[t] /\ ownerEpoch'[t] \in Nat
    PROVE  OrderInv'
<1>1. OwnersInOrder'
  BY DEF OrderInv, OwnersInOrder
<1>2. ASSUME NEW r \in actions PROVE r.epoch <= ownerEpoch'[r.id[1]]
  <2>1. r.epoch \in Nat /\ r.id[1] \in Turns
    BY DEF TypeInv, TypeOK, ActionRow, ActionId
  <2>2. ownerEpoch[r.id[1]] \in Nat
    BY <2>1 DEF TypeInv, TypeOK
  <2> QED BY <2>1, <2>2 DEF OrderInv
<1> QED BY <1>1, <1>2 DEF OrderInv

LEMMA CommitOrder ==
    ASSUME TypeInv, OnceInv, OwnerLocked, OrderInv, NEW p \in Procs, Commit(p)
    PROVE  OrderInv'
<1> DEFINE row == [id |-> Aid(p), fp |-> w[p].fp, epoch |-> w[p].epoch]
           charge == [seq |-> chargeSeq, id |-> Aid(p), fp |-> w[p].fp]
<1>1. /\ actions' = actions \cup {row} /\ charges' = charges \cup {charge}
      /\ chargeSeq' = chargeSeq + 1 /\ ownerEpoch' = ownerEpoch
  BY DEF Commit
<1>2. /\ row.id = Aid(p) /\ row.epoch = w[p].epoch
      /\ charge.id = Aid(p) /\ charge.seq = chargeSeq
  OBVIOUS
<1> HIDE DEF row, charge
<1>3. chargeSeq \in Nat /\ \A ch \in charges : ch.seq \in Nat
  BY DEF TypeInv, TypeOK, ChargeRow
<1>4. Aid(p)[1] = w[p].turn /\ w[p].epoch = ownerEpoch[w[p].turn] /\ w[p].epoch \in Nat
  BY LocalFields DEF Commit, OwnerLocked, InTx, Aid
<1>5. \A r \in actions : r.id # Aid(p)
  BY DEF Commit, OnceInv, ClaimPending, Pending, Claimed
<1>6. \A ch \in charges : ch.id # Aid(p)
  BY <1>5 DEF OnceInv, ClaimIffEffect
<1>7. \A ch \in charges' : ch.seq < chargeSeq'
  BY <1>1, <1>2, <1>3 DEF OrderInv
<1>8. \A r \in actions' : r.epoch <= ownerEpoch'[r.id[1]]
  BY <1>1, <1>2, <1>4 DEF OrderInv
<1>9. OwnersInOrder'
  <2> SUFFICES ASSUME NEW ch \in charges', NEW d \in charges', NEW r \in actions', NEW q \in actions',
                      ch.id[1] = d.id[1], ch.seq < d.seq, r.id = ch.id, q.id = d.id
               PROVE  r.epoch <= q.epoch
    BY DEF OwnersInOrder
  <2>1. CASE d = charge
    <3>1. q = row
      BY <1>1, <1>2, <1>5, <2>1
    <3>2. r.id[1] = w[p].turn
      BY <1>2, <1>4, <2>1
    <3>3. r.epoch <= ownerEpoch'[r.id[1]]
      BY <1>8
    <3> QED BY <1>1, <1>2, <1>4, <3>1, <3>2, <3>3
  <2>2. CASE d \in charges
    <3>1. ch \in charges
      BY <1>1, <1>2, <1>3, <2>2 DEF OrderInv
    <3>2. r \in actions /\ q \in actions
      BY <1>1, <1>2, <1>6, <2>2, <3>1
    <3> QED BY <2>2, <3>1, <3>2 DEF OrderInv, OwnersInOrder
  <2> QED BY <1>1, <2>1, <2>2
<1> QED BY <1>7, <1>8, <1>9 DEF OrderInv

LEMMA OrderNext ==
    ASSUME TypeInv, OnceInv, OwnerLocked, OrderInv, [Next]_vars PROVE OrderInv'
<1>1. ASSUME NEW p \in Procs, NEW t \in Turns, Acquire(p, t) PROVE OrderInv'
  <2>1. \A u \in Turns : ownerEpoch[u] <= ownerEpoch'[u] /\ ownerEpoch'[u] \in Nat
    BY <1>1 DEF Acquire, TypeInv, TypeOK
  <2> QED BY <1>1, <2>1, OrderKept DEF Acquire
<1>2. ASSUME UNCHANGED <<ownerEpoch, actions, charges, chargeSeq>> PROVE OrderInv'
  <2>1. \A u \in Turns : ownerEpoch[u] <= ownerEpoch'[u] /\ ownerEpoch'[u] \in Nat
    BY <1>2 DEF TypeInv, TypeOK
  <2> QED BY <1>2, <2>1, OrderKept
<1> QED
  BY <1>1, <1>2, CommitOrder
     DEF Next, Run, Crash, Begin, Load, LoadNone, Fence, FenceStale, Claim, Dedup, Mismatch, Effect,
         Finish, vars, durable

\* On PostgreSQL the charges of a turn follow the order of its leases: an owner
\* that has been superseded by one that charged never charges again.
THEOREM LeaseOrder ==
    ASSUME Backend = "postgres" PROVE Spec => []OwnersInOrder
<1>1. Init => OnceInv /\ OwnerLocked /\ OrderInv
  BY OnceInit DEF Init, OwnerLocked, Idle, InTx, OrderInv, OwnersInOrder
<1>2. TypeInv /\ (OnceInv /\ OwnerLocked /\ OrderInv) /\ [Next]_vars
        => (OnceInv /\ OwnerLocked /\ OrderInv)'
  BY OnceNext, OwnerLockedNext, OrderNext
<1>3. OrderInv => OwnersInOrder
  BY DEF OrderInv
<1> QED
  BY <1>1, <1>2, <1>3, TypeCorrect, PTL DEF Spec
-----------------------------------------------------------------------------
(***************************************************************************)
(* Completeness: a coordinator's ordinal is backed by rows, its plan is    *)
(* the durable one when every caller offers the same output for a turn.    *)
(***************************************************************************)
Backed(p) == w[p].pc \in Loaded =>
    \A o \in Nat : o < w[p].ord => Claimed(<<w[p].turn, w[p].plan, o>>)
Fresh(p) == w[p].pc \in {"idle", "plan"} => w[p].ord = 0
PlanInv == NoGap /\ \A p \in Procs : Backed(p) /\ Fresh(p)

OneOutput == \A t \in Turns : \A x, y \in Offered[t] : x = y
Shared(p) == w[p].pc \in Loaded => w[p].plan = turns[w[p].turn].plan
TurnInv ==
    /\ CommittedTurnComplete
    /\ \A t \in Turns : turns[t] # None => turns[t].plan \in Offered[t]
    /\ \A p \in Procs : Shared(p)

\* A step that keeps every row and leaves p's ordinal backed.
LEMMA PlanKept ==
    ASSUME PlanInv, NEW p \in Procs, actions' = actions,
           \A q \in Procs : q # p => w'[q] = w[q],
           Backed(p)', Fresh(p)'
    PROVE  PlanInv'
<1>1. NoGap'
  BY DEF PlanInv, NoGap, Claimed
<1>2. ASSUME NEW q \in Procs PROVE Backed(q)' /\ Fresh(q)'
  <2>1. CASE q = p
    BY <2>1
  <2>2. CASE q # p
    BY <2>2 DEF PlanInv, Backed, Fresh, Claimed, Loaded, InTx
  <2> QED BY <2>1, <2>2
<1> QED BY <1>1, <1>2 DEF PlanInv

\* Moving on inside do_charge keeps the turn, the plan and the ordinal.
LEMMA BackedSame ==
    ASSUME PlanInv, NEW p \in Procs, actions' = actions, {w[p].pc, w'[p].pc} \subseteq Loaded,
           w'[p].turn = w[p].turn, w'[p].plan = w[p].plan, w'[p].ord = w[p].ord
    PROVE  Backed(p)' /\ Fresh(p)'
<1>1. Fresh(p)'
  BY DEF Fresh, Loaded, InTx
<1>2. \A o \in Nat : o < w[p].ord => Claimed(<<w[p].turn, w[p].plan, o>>)
  BY DEF PlanInv, Backed
<1>3. \A a : Claimed(a)' <=> Claimed(a)
  BY DEF Claimed
<1> QED BY <1>1, <1>2, <1>3 DEF Backed

LEMMA PlanNext == ASSUME TypeInv, PlanInv, [Next]_vars PROVE PlanInv'
<1>1. ASSUME NEW p \in Procs, NEW t \in Turns, Acquire(p, t) PROVE PlanInv'
  <2>1. Backed(p)' /\ Fresh(p)'
    BY <1>1, AcquireLocals DEF Becomes, Backed, Fresh, Loaded, InTx
  <2> QED BY <1>1, <2>1, AcquireLocals, PlanKept DEF Acquire, Becomes
<1>2. ASSUME NEW p \in Procs, NEW pl \in Plans, Begin(p, pl) PROVE PlanInv'
  <2>0. w[p].ord = 0
    BY <1>2 DEF Begin, PlanInv, Fresh
  <2>1. Backed(p)' /\ Fresh(p)'
    BY <1>2, <2>0, BeginLocals DEF Becomes, Backed, Fresh
  <2> QED BY <1>2, <2>1, BeginLocals, PlanKept DEF Begin, Becomes
<1>3. ASSUME NEW p \in Procs, Load(p) PROVE PlanInv'
  <2>0. w[p].ord = 0
    BY <1>3 DEF Load, PlanInv, Fresh
  <2>1. Backed(p)' /\ Fresh(p)'
    BY <1>3, <2>0, LoadLocals DEF Becomes, Backed, Fresh
  <2> QED BY <1>3, <2>1, LoadLocals, PlanKept DEF Load, durable, Becomes
<1>4. ASSUME NEW p \in Procs, End(p), actions' = actions PROVE PlanInv'
  <2>1. Backed(p)' /\ Fresh(p)'
    BY <1>4, EndLocals DEF Becomes, Backed, Fresh, Loaded, InTx
  <2> QED BY <1>4, <2>1, EndLocals, PlanKept DEF Becomes
<1>5. ASSUME NEW p \in Procs, NEW f \in Fps, Fence(p, f) PROVE PlanInv'
  <2>1. Backed(p)' /\ Fresh(p)'
    BY <1>5, FenceLocals, BackedSame DEF Fence, durable, Becomes, Loaded, InTx
  <2> QED BY <1>5, <2>1, FenceLocals, PlanKept DEF Fence, durable, Becomes
<1>6. ASSUME NEW p \in Procs, Claim(p) PROVE PlanInv'
  <2>1. Backed(p)' /\ Fresh(p)'
    BY <1>6, ClaimLocals, BackedSame DEF Claim, Insertable, durable, Becomes, Loaded, InTx
  <2> QED BY <1>6, <2>1, ClaimLocals, PlanKept DEF Claim, durable, Becomes
<1>7. ASSUME NEW p \in Procs, Effect(p) PROVE PlanInv'
  <2>1. Backed(p)' /\ Fresh(p)'
    BY <1>7, EffectLocals, BackedSame DEF Effect, durable, Becomes, Loaded, InTx
  <2> QED BY <1>7, <2>1, EffectLocals, PlanKept DEF Effect, durable, Becomes
<1>8. ASSUME NEW p \in Procs, Return(p), w[p].pc \in InTx, Claimed(Aid(p)) PROVE actions' = actions => PlanInv'
  <2> SUFFICES ASSUME actions' = actions PROVE PlanInv'
    OBVIOUS
  <2>1. Becomes(p, "call", w[p].turn, w[p].epoch, w[p].plan, w[p].ord + 1, None)
    BY <1>8, ReturnLocals
  <2>2. Backed(p) /\ w[p].pc \in Loaded /\ w[p].ord \in Nat
    BY <1>8, LocalFields DEF PlanInv, Loaded
  <2>3. \A o \in Nat : o < w[p].ord + 1 => o < w[p].ord \/ o = w[p].ord
    BY <2>2
  <2>4. Backed(p)' /\ Fresh(p)'
    BY <1>8, <2>1, <2>2, <2>3 DEF Becomes, Backed, Fresh, Claimed, Aid
  <2> QED BY <2>1, <2>4, PlanKept DEF Becomes
<1>9. ASSUME NEW p \in Procs, Commit(p) PROVE PlanInv'
  <2> DEFINE row == [id |-> Aid(p), fp |-> w[p].fp, epoch |-> w[p].epoch]
  <2>1. Becomes(p, "call", w[p].turn, w[p].epoch, w[p].plan, w[p].ord + 1, None)
    BY <1>9, ReturnLocals DEF Commit
  <2>2. actions' = actions \cup {row} /\ row.id = Aid(p)
    BY <1>9 DEF Commit
  <2> HIDE DEF row
  <2>3. \A a : Claimed(a)' <=> Claimed(a) \/ a = Aid(p)
    BY <2>2 DEF Claimed
  <2>4. Backed(p) /\ w[p].pc \in Loaded /\ w[p].ord \in Nat
    BY <1>9, LocalFields DEF Commit, PlanInv, Loaded, InTx
  <2>5. \A o \in Nat : o < w[p].ord + 1 => o < w[p].ord \/ o = w[p].ord
    BY <2>4
  <2>6. Backed(p)' /\ Fresh(p)'
    BY <2>1, <2>3, <2>4, <2>5 DEF Becomes, Backed, Fresh, Aid
  <2>7. ASSUME NEW q \in Procs PROVE Backed(q)' /\ Fresh(q)'
    <3>1. CASE q = p
      BY <2>6, <3>1
    <3>2. CASE q # p
      BY <2>1, <2>3, <3>2 DEF Becomes, PlanInv, Backed, Fresh, Loaded, InTx
    <3> QED BY <3>1, <3>2
  <2>8. NoGap'
    <3> SUFFICES ASSUME NEW r \in actions', NEW o \in 0 .. r.id[3]
                 PROVE  Claimed(<<r.id[1], r.id[2], o>>)'
      BY DEF NoGap
    <3>1. CASE r \in actions
      BY <2>3, <3>1 DEF PlanInv, NoGap
    <3>2. CASE r = row
      <4>1. r.id[1] = w[p].turn /\ r.id[2] = w[p].plan /\ r.id[3] = w[p].ord
        BY <2>2, <3>2 DEF Aid
      <4>2. o \in Nat /\ (o < w[p].ord \/ o = w[p].ord)
        BY <2>4, <4>1
      <4> QED BY <2>3, <2>4, <4>1, <4>2 DEF Backed, Aid
    <3> QED BY <2>2, <3>1, <3>2
  <2> QED BY <2>7, <2>8 DEF PlanInv
<1>10. ASSUME NEW p \in Procs, Dedup(p) PROVE PlanInv'
  BY <1>8, <1>10 DEF Dedup, Insertable, Claimed, InTx, durable
<1>11. CASE UNCHANGED vars
  BY <1>11 DEF vars, durable, PlanInv, NoGap, Backed, Fresh, Claimed, Loaded, InTx
<1> QED
  BY <1>1, <1>2, <1>3, <1>4, <1>5, <1>6, <1>7, <1>9, <1>10, <1>11
     DEF Next, Run, Crash, LoadNone, FenceStale, Mismatch, Finish, durable

\* Whoever commits them, the actions of a plan commit in order without a gap.
THEOREM InOrder == Spec => []NoGap
<1>1. Init => PlanInv
  BY DEF Init, PlanInv, NoGap, Backed, Fresh, Idle, Loaded, InTx
<1>2. PlanInv => NoGap
  BY DEF PlanInv
<1> QED
  BY <1>1, <1>2, PlanNext, TypeCorrect, PTL DEF Spec

\* Rows are never deleted, so a turn whose plan stays and was done stays done.
LEMMA DoneKept ==
    ASSUME actions \subseteq actions', NEW t \in Turns, turns'[t].plan = turns[t].plan,
           AllDone(t, turns[t].plan)
    PROVE  AllDone(t, turns[t].plan)'
BY DEF AllDone, Claimed

\* A step that keeps the turns table and moves p inside do_charge, or ends it.
LEMMA TurnKept ==
    ASSUME TurnInv, NEW p \in Procs, turns' = turns,
           actions \subseteq actions',
           \A q \in Procs : q # p => w'[q] = w[q],
           Shared(p)'
    PROVE  TurnInv'
<1>1. CommittedTurnComplete'
  <2> SUFFICES ASSUME NEW t \in Turns, turns[t] # None, turns[t].state = "committed"
               PROVE  AllDone(t, turns[t].plan)'
    BY DEF CommittedTurnComplete
  <2> QED BY DoneKept DEF TurnInv, CommittedTurnComplete
<1>2. ASSUME NEW q \in Procs PROVE Shared(q)'
  <2>1. CASE q = p
    BY <2>1
  <2>2. CASE q # p
    BY <2>2 DEF TurnInv, Shared, Loaded, InTx
  <2> QED BY <2>1, <2>2
<1> QED BY <1>1, <1>2 DEF TurnInv

LEMMA TurnNext ==
    ASSUME OneOutput, TypeInv, PlanInv, TurnInv, [Next]_vars PROVE TurnInv'
<1>1. ASSUME NEW p \in Procs, NEW t \in Turns, Acquire(p, t) PROVE TurnInv'
  <2>1. Shared(p)'
    BY <1>1, AcquireLocals DEF Becomes, Shared, Loaded, InTx
  <2> QED BY <1>1, <2>1, AcquireLocals, TurnKept DEF Acquire, Becomes, Claimed
<1>2. ASSUME NEW p \in Procs, NEW pl \in Plans, Begin(p, pl) PROVE TurnInv'
  <2> DEFINE t == w[p].turn
  <2>1. Becomes(p, "call", t, w[p].epoch, pl, w[p].ord, w[p].fp)
    BY <1>2, BeginLocals
  <2>2. t \in Turns /\ pl \in Offered[t] /\ actions' = actions
    BY <1>2, TurnOfLive DEF Begin
  <2>3. /\ \A u \in Turns : u # t => turns'[u] = turns[u]
        /\ turns[t] # None => turns'[t] = turns[t]
        /\ turns[t] = None => turns'[t] = [plan |-> pl, state |-> "open"]
    BY <1>2, <2>2 DEF Begin, TypeInv, TypeOK
  <2> HIDE DEF t
  <2>4. \A u \in Turns : turns'[u] # None => turns'[u].plan \in Offered[u]
    BY <2>2, <2>3 DEF TurnInv
  <2>5. CommittedTurnComplete'
    <3> SUFFICES ASSUME NEW u \in Turns, turns'[u] # None, turns'[u].state = "committed"
                 PROVE  AllDone(u, turns[u].plan)'
      BY DEF CommittedTurnComplete
    <3>1. turns'[u] = turns[u]
      BY <2>3
    <3>2. AllDone(u, turns[u].plan)
      BY <3>1 DEF TurnInv, CommittedTurnComplete
    <3> QED BY <2>2, <3>1, <3>2, DoneKept
  <2>6. turns'[t].plan = pl
    BY <2>2, <2>3 DEF TurnInv, OneOutput
  <2>7. ASSUME NEW q \in Procs PROVE Shared(q)'
    <3>1. CASE q = p
      BY <2>1, <2>6, <3>1 DEF Becomes, Shared
    <3>2. CASE q # p
      <4> SUFFICES ASSUME w'[q].pc \in Loaded PROVE w'[q].plan = turns'[w'[q].turn].plan
        BY DEF Shared, Loaded, InTx
      <4>1. w'[q] = w[q] /\ w[q].turn \in Turns /\ turns[w[q].turn] # None
        BY <2>1, <3>2, TurnOfLive DEF Becomes, TypeInv, LocalsSet, LocalSet, Loaded, InTx
      <4>2. turns'[w[q].turn] = turns[w[q].turn]
        BY <2>3, <4>1
      <4> QED BY <4>1, <4>2 DEF TurnInv, Shared
    <3> QED BY <3>1, <3>2
  <2> QED BY <2>4, <2>5, <2>7 DEF TurnInv
<1>3. ASSUME NEW p \in Procs, Load(p) PROVE TurnInv'
  <2>1. Shared(p)'
    BY <1>3, LoadLocals DEF Load, durable, Becomes, Shared
  <2> QED BY <1>3, <2>1, LoadLocals, TurnKept DEF Load, durable, Becomes, Claimed
<1>4. ASSUME NEW p \in Procs, End(p), turns' = turns, actions' = actions PROVE TurnInv'
  <2>1. Shared(p)'
    BY <1>4, EndLocals DEF Becomes, Shared, Loaded, InTx
  <2> QED BY <1>4, <2>1, EndLocals, TurnKept DEF Becomes, Claimed
<1>5. ASSUME NEW p \in Procs, w[p].pc \in Loaded, turns' = turns, actions \subseteq actions',
             NEW pc, NEW e, NEW o, NEW f, Becomes(p, pc, w[p].turn, e, w[p].plan, o, f)
      PROVE  TurnInv'
  <2>1. Shared(p)'
    BY <1>5 DEF TurnInv, Becomes, Shared
  <2> QED BY <1>5, <2>1, TurnKept DEF Becomes, Claimed
<1>6. ASSUME NEW p \in Procs, Finish(p) PROVE TurnInv'
  <2> DEFINE t == w[p].turn
  <2>1. Becomes(p, "idle", None, 0, None, 0, None) /\ actions' = actions
    BY <1>6, EndLocals DEF Finish
  <2>2. /\ t \in Turns /\ turns[t] \in TurnRow /\ turns[t].plan = w[p].plan
        /\ w[p].ord = PlanLen[w[p].plan] /\ w[p].pc \in Loaded
    BY <1>6, TurnOfLive DEF Finish, TypeInv, TypeOK, LocalsSet, LocalSet, TurnInv, Shared, Loaded
  <2>3. \A u \in Turns : turns'[u] = IF u = t THEN [turns[t] EXCEPT !.state = "committed"] ELSE turns[u]
    BY <1>6, <2>2 DEF Finish, TypeInv, TypeOK
  <2>4. turns'[t].plan = turns[t].plan
    BY <2>2, <2>3 DEF TurnRow
  <2>5. \A u \in Turns : turns[u] # None => turns'[u].plan = turns[u].plan
    BY <2>3, <2>4
  <2>6. \A u \in Turns : turns'[u] # None => turns'[u].plan \in Offered[u]
    BY <2>2, <2>3, <2>4, DtxAssumption DEF TurnInv
  <2>7. AllDone(t, turns[t].plan)
    BY <2>2, DtxAssumption DEF PlanInv, Backed, TurnRow, AllDone
  <2> HIDE DEF t
  <2>8. CommittedTurnComplete'
    <3> SUFFICES ASSUME NEW u \in Turns, turns'[u] # None, turns'[u].state = "committed"
                 PROVE  AllDone(u, turns[u].plan)'
      BY DEF CommittedTurnComplete
    <3>1. CASE u = t
      BY <2>1, <2>4, <2>7, <3>1, DoneKept
    <3>2. CASE u # t
      <4>1. turns'[u] = turns[u] /\ AllDone(u, turns[u].plan)
        BY <2>3, <3>2 DEF TurnInv, CommittedTurnComplete
      <4> QED BY <2>1, <4>1, DoneKept
    <3> QED BY <3>1, <3>2
  <2>9. ASSUME NEW q \in Procs PROVE Shared(q)'
    <3>1. CASE q = p
      BY <2>1, <3>1 DEF Becomes, Shared, Loaded, InTx
    <3>2. CASE q # p
      <4> SUFFICES ASSUME w'[q].pc \in Loaded PROVE w'[q].plan = turns'[w'[q].turn].plan
        BY DEF Shared, Loaded, InTx
      <4>1. w'[q] = w[q] /\ w[q].turn \in Turns /\ turns[w[q].turn] # None
        BY <2>1, <3>2, TurnOfLive DEF Becomes, TypeInv, LocalsSet, LocalSet, Loaded, InTx
      <4> QED BY <2>5, <4>1 DEF TurnInv, Shared
    <3> QED BY <3>1, <3>2
  <2> QED BY <2>6, <2>8, <2>9 DEF TurnInv
<1>7. CASE UNCHANGED vars
  BY <1>7 DEF vars, durable, TurnInv, CommittedTurnComplete, AllDone, Shared, Claimed, Loaded, InTx
<1>8. ASSUME NEW p \in Procs, NEW f \in Fps, Fence(p, f) PROVE TurnInv'
  BY <1>5, <1>8, FenceLocals DEF Fence, durable, Loaded
<1>9. ASSUME NEW p \in Procs, Claim(p) PROVE TurnInv'
  BY <1>5, <1>9, ClaimLocals DEF Claim, Insertable, durable, Loaded, InTx
<1>10. ASSUME NEW p \in Procs, Effect(p) PROVE TurnInv'
  BY <1>5, <1>10, EffectLocals DEF Effect, durable, Loaded, InTx
<1>11. ASSUME NEW p \in Procs, Dedup(p) PROVE TurnInv'
  BY <1>5, <1>11, ReturnLocals DEF Dedup, Insertable, durable, Loaded, InTx
<1>12. ASSUME NEW p \in Procs, Commit(p) PROVE TurnInv'
  BY <1>5, <1>12, ReturnLocals DEF Commit, Loaded, InTx
<1> QED
  BY <1>1, <1>2, <1>3, <1>4, <1>6, <1>7, <1>8, <1>9, <1>10, <1>11, <1>12
     DEF Next, Run, Crash, LoadNone, FenceStale, Mismatch, durable

\* When every caller offers the same output for a turn, a turn marked committed
\* has executed its whole durable plan, on either backend, although the UPDATE
\* that marks it looks neither at the fence nor at the actions.
THEOREM TurnComplete ==
    ASSUME OneOutput PROVE Spec => []CommittedTurnComplete
<1>1. Init => PlanInv /\ TurnInv
  BY DEF Init, PlanInv, NoGap, Backed, Fresh, TurnInv, CommittedTurnComplete, Shared, Idle, Loaded, InTx
<1>2. TurnInv => CommittedTurnComplete
  BY DEF TurnInv
<1> QED
  BY <1>1, <1>2, PlanNext, TurnNext, TypeCorrect, PTL DEF Spec
-----------------------------------------------------------------------------
(***************************************************************************)
(* Dtx as a part of something larger: of dmodel.py's abstraction, which it *)
(* implements on PostgreSQL, and of phase 7's gate, whose oracle it        *)
(* satisfies.                                                              *)
(***************************************************************************)
\* A coordinator that is idle works on no turn.
IdleFree == \A p \in Procs : w[p].pc = "idle" => w[p].turn = None
\* The action id is the primary key of the actions table.
OneRow == \A r, q \in actions : r.id = q.id => r = q

RefInv == TypeInv /\ OnceInv /\ PlanInv /\ OwnerLocked /\ IdleFree /\ OneRow

LEMMA IdleFreeNext == ASSUME TypeInv, IdleFree, [Next]_vars PROVE IdleFree'
<1>1. ASSUME NEW p \in Procs, NEW t, NEW e, NEW pl, NEW o, NEW f,
             NEW pc \in {"plan", "call", "claim", "effect", "commit"}, Becomes(p, pc, t, e, pl, o, f)
      PROVE  IdleFree'
  BY <1>1 DEF Becomes, IdleFree
<1>2. ASSUME NEW p \in Procs, End(p) PROVE IdleFree'
  BY <1>2, EndLocals DEF Becomes, IdleFree
<1>3. ASSUME NEW p \in Procs, NEW t \in Turns, Acquire(p, t) PROVE IdleFree'
  BY <1>1, <1>3, AcquireLocals
<1>4. ASSUME NEW p \in Procs, NEW pl \in Plans, Begin(p, pl) PROVE IdleFree'
  BY <1>1, <1>4, BeginLocals
<1>5. ASSUME NEW p \in Procs, Load(p) PROVE IdleFree'
  BY <1>1, <1>5, LoadLocals
<1>6. ASSUME NEW p \in Procs, NEW f \in Fps, Fence(p, f) PROVE IdleFree'
  BY <1>1, <1>6, FenceLocals
<1>7. ASSUME NEW p \in Procs, Claim(p) \/ Effect(p) \/ Return(p) PROVE IdleFree'
  BY <1>1, <1>7, ClaimLocals, EffectLocals, ReturnLocals
<1>8. CASE UNCHANGED vars
  BY <1>8 DEF vars, IdleFree
<1> QED
  BY <1>2, <1>3, <1>4, <1>5, <1>6, <1>7, <1>8
     DEF Next, Run, Crash, LoadNone, FenceStale, Mismatch, Dedup, Commit, Finish

LEMMA OneRowNext == ASSUME TypeInv, OnceInv, OneRow, [Next]_vars PROVE OneRow'
<1>1. CASE actions' = actions
  BY <1>1 DEF OneRow
<1>2. CASE actions' # actions
  <2>1. PICK p \in Procs : Commit(p)
    BY <1>2, OnlyCommitAddsRows
  <2> DEFINE row == [id |-> Aid(p), fp |-> w[p].fp, epoch |-> w[p].epoch]
  <2>2. actions' = actions \cup {row} /\ row.id = Aid(p)
    BY <2>1 DEF Commit
  <2>3. \A r \in actions : r.id # Aid(p)
    BY <2>1 DEF Commit, OnceInv, ClaimPending, Pending, Claimed
  <2> HIDE DEF row
  <2> QED BY <2>2, <2>3 DEF OneRow
<1> QED BY <1>1, <1>2

LEMMA RefInvAlways == ASSUME Backend = "postgres" PROVE Spec => []RefInv
<1>1. Init => OnceInv /\ PlanInv /\ OwnerLocked /\ IdleFree /\ OneRow
  BY OnceInit DEF Init, PlanInv, NoGap, Backed, Fresh, Idle, Loaded, InTx, OwnerLocked, IdleFree, OneRow
<1>2. TypeInv /\ (OnceInv /\ PlanInv /\ OwnerLocked /\ IdleFree /\ OneRow) /\ [Next]_vars
        => (OnceInv /\ PlanInv /\ OwnerLocked /\ IdleFree /\ OneRow)'
  BY OnceNext, PlanNext, OwnerLockedNext, IdleFreeNext, OneRowNext
<1> QED
  BY <1>1, <1>2, TypeCorrect, PTL DEF Spec, RefInv
-----------------------------------------------------------------------------
(***************************************************************************)
(* Dtx implements Dmodel, for the action Watched.                          *)
(***************************************************************************)
Charged == {x \in charges : x.id = Watched}
Coordination == [p \in Procs |-> CoordinatorOf(p)]

LEMMA WatchedFields ==
    /\ WTurn \in Turns /\ Watched[2] \in Plans /\ Watched[3] \in Nat
    /\ Watched = <<WTurn, Watched[2], Watched[3]>>
BY WatchedAssumption DEF ActionId, WTurn

\* While no row and no charge is added, and no lease of the watched turn, the
\* step is p's own: the abstract state but for p's record stays.
LEMMA OwnStep ==
    ASSUME RefInv, NEW p \in Procs, \A q \in Procs : q # p => w'[q] = w[q]
    PROVE  Coordination' = [Coordination EXCEPT ![p] = CoordinatorOf(p)']
<1>1. \A q \in Procs : q # p => CoordinatorOf(q)' = CoordinatorOf(q)
  BY DEF CoordinatorOf, Done
<1> QED BY <1>1 DEF Coordination

\* The tables' part of the abstract state.
Tables == <<ClaimEpoch, Claimed(Watched), Cardinality(Charged)>>

LEMMA TablesKept ==
    ASSUME UNCHANGED <<actions, charges>> PROVE UNCHANGED Tables
BY DEF Tables, ClaimEpoch, Claimed, Charged

\* p ends while it works on some turn: a crash, if it is the watched one.
LEMMA EndRefines ==
    ASSUME RefInv, NEW p \in Procs, End(p), w[p].pc # "idle",
           UNCHANGED <<ownerEpoch, actions, charges>>
    PROVE  [D!Next]_(D!vars)
<1>1. Becomes(p, "idle", None, 0, None, 0, None)
  BY EndLocals DEF RefInv
<1>2. CoordinatorOf(p)' = [epoch |-> 0, pc |-> "start"]
  BY <1>1, WatchedFields, DtxAssumption DEF Becomes, CoordinatorOf
<1>3. UNCHANGED Tables
  BY TablesKept
<1>4. Coordination' = [Coordination EXCEPT ![p] = [epoch |-> 0, pc |-> "start"]]
  BY <1>1, <1>2, OwnStep DEF Becomes
<1>5. CASE w[p].turn = WTurn
  <2>1. Coordination[p].pc # "start"
    BY <1>5 DEF Coordination, CoordinatorOf
  <2>2. D!Crash(p)
    BY <1>3, <1>4, <2>1 DEF D!Crash, D!Start, D!action, Tables, Coordination, Charged
  <2> QED BY <2>2 DEF D!Next
<1>6. CASE w[p].turn # WTurn
  <2>1. Coordination' = Coordination
    BY <1>4, <1>6 DEF Coordination, CoordinatorOf
  <2> QED BY <1>3, <2>1 DEF D!vars, Tables, Coordination, Charged
<1> QED BY <1>5, <1>6

\* p takes a lease.
LEMMA AcquireRefines ==
    ASSUME RefInv, NEW p \in Procs, NEW t \in Turns, Acquire(p, t)
    PROVE  [D!Next]_(D!vars)
<1>1. Becomes(p, "plan", t, ownerEpoch[t] + 1, None, 0, None)
  BY AcquireLocals DEF RefInv
<1>2. w[p].turn = None
  BY DEF Acquire, RefInv, IdleFree
<1>3. CoordinatorOf(p) = [epoch |-> 0, pc |-> "start"]
  BY <1>2, WatchedFields, DtxAssumption DEF CoordinatorOf
<1>4. UNCHANGED Tables
  BY TablesKept DEF Acquire
<1>5. CASE t = WTurn
  <2>1. ownerEpoch'[WTurn] = ownerEpoch[WTurn] + 1 /\ ownerEpoch[WTurn] < MaxEpoch
    BY <1>5 DEF Acquire, RefInv, TypeInv, TypeOK
  <2>2. CoordinatorOf(p)' = [epoch |-> ownerEpoch[WTurn] + 1, pc |-> "acquired"]
    BY <1>1, <1>5, WatchedFields DEF Becomes, CoordinatorOf, Done
  <2>3. Coordination' = [Coordination EXCEPT ![p] = [epoch |-> ownerEpoch[WTurn] + 1, pc |-> "acquired"]]
    BY <1>1, <2>2, OwnStep DEF Becomes
  <2>4. D!Acquire(p)
    BY <1>3, <1>4, <2>1, <2>3 DEF D!Acquire, D!action, Tables, Coordination, Charged
  <2> QED BY <2>4 DEF D!Next
<1>6. CASE t # WTurn
  <2>1. ownerEpoch'[WTurn] = ownerEpoch[WTurn]
    BY <1>6, WatchedFields DEF Acquire, RefInv, TypeInv, TypeOK
  <2>2. CoordinatorOf(p)' = CoordinatorOf(p)
    BY <1>1, <1>3, <1>6 DEF Becomes, CoordinatorOf
  <2>3. Coordination' = Coordination
    BY <1>1, <2>2, OwnStep DEF Becomes, Coordination
  <2> QED BY <1>4, <2>1, <2>3 DEF D!vars, Tables, Coordination, Charged
<1> QED BY <1>5, <1>6

\* p moves on without passing an action: nothing that Dmodel sees.
LEMMA InnerRefines ==
    ASSUME RefInv, NEW p \in Procs, UNCHANGED <<ownerEpoch, actions, charges>>,
           NEW pc, NEW pl, NEW f, Becomes(p, pc, w[p].turn, w[p].epoch, pl, w[p].ord, f),
           w[p].ord = 0 \/ pl = w[p].plan
    PROVE  [D!Next]_(D!vars)
<1>1. Done(p)' <=> Done(p)
  BY WatchedFields DEF Becomes, Done
<1>2. CoordinatorOf(p)' = CoordinatorOf(p)
  BY <1>1 DEF Becomes, CoordinatorOf
<1>3. Coordination' = Coordination
  BY <1>2, OwnStep DEF Becomes, Coordination
<1>4. UNCHANGED Tables
  BY TablesKept
<1> QED BY <1>3, <1>4 DEF D!vars, Tables, Coordination, Charged

\* p has passed its action, which is another one than the watched one.
LEMMA PassedOther ==
    ASSUME RefInv, NEW p \in Procs, w[p].pc \in InTx, Aid(p) # Watched,
           Becomes(p, "call", w[p].turn, w[p].epoch, w[p].plan, w[p].ord + 1, None)
    PROVE  Coordination' = Coordination
<1>1. w[p].ord \in Nat
  BY LocalFields DEF RefInv
<1>2. w[p].turn = WTurn => (Done(p)' <=> Done(p))
  BY <1>1, WatchedFields DEF Becomes, Done, Aid
<1>3. CoordinatorOf(p)' = CoordinatorOf(p)
  BY <1>2 DEF Becomes, CoordinatorOf
<1> QED BY <1>3, OwnStep DEF Becomes, Coordination

\* p has passed the watched action: its lease was, and is, the current one.
LEMMA PassedWatched ==
    ASSUME RefInv, NEW p \in Procs, w[p].pc \in InTx, Aid(p) = Watched,
           Becomes(p, "call", w[p].turn, w[p].epoch, w[p].plan, w[p].ord + 1, None)
    PROVE  /\ Coordination[p] = [epoch |-> ownerEpoch[WTurn], pc |-> "acquired"]
           /\ Coordination' = [Coordination EXCEPT ![p].pc = "done"]
<1>1. w[p].turn = WTurn /\ w[p].plan = Watched[2] /\ w[p].ord = Watched[3] /\ w[p].ord \in Nat
  BY LocalFields DEF RefInv, Aid, WTurn
<1>2. ~Done(p) /\ Done(p)'
  BY <1>1 DEF Becomes, Done
<1>3. w[p].epoch = ownerEpoch[WTurn]
  BY <1>1 DEF RefInv, OwnerLocked
<1>4. /\ CoordinatorOf(p) = [epoch |-> ownerEpoch[WTurn], pc |-> "acquired"]
      /\ CoordinatorOf(p)' = [epoch |-> ownerEpoch[WTurn], pc |-> "done"]
  BY <1>1, <1>2, <1>3 DEF Becomes, CoordinatorOf
<1>5. Coordination' = [Coordination EXCEPT ![p] = [epoch |-> ownerEpoch[WTurn], pc |-> "done"]]
  BY <1>4, OwnStep DEF Becomes
<1>6. Coordination[p] = [epoch |-> ownerEpoch[WTurn], pc |-> "acquired"]
  BY <1>4 DEF Coordination
<1>7. [Coordination[p] EXCEPT !.pc = "done"] = [epoch |-> ownerEpoch[WTurn], pc |-> "done"]
  BY <1>6
<1> QED BY <1>5, <1>6, <1>7

LEMMA DedupRefines ==
    ASSUME RefInv, NEW p \in Procs, Dedup(p) PROVE [D!Next]_(D!vars)
<1>1. Becomes(p, "call", w[p].turn, w[p].epoch, w[p].plan, w[p].ord + 1, None) /\ w[p].pc \in InTx
  BY ReturnLocals DEF Dedup, Insertable, InTx, RefInv
<1>2. UNCHANGED Tables /\ ownerEpoch' = ownerEpoch
  BY TablesKept DEF Dedup, durable
<1>3. CASE Aid(p) = Watched
  <2>1. Claimed(Watched)
    BY <1>3 DEF Dedup, Claimed
  <2>2. D!Dedup(p)
    BY <1>1, <1>2, <1>3, <2>1, PassedWatched
       DEF D!Dedup, D!Owns, D!Goto, D!action, Tables, Coordination, Charged
  <2> QED BY <2>2 DEF D!Next
<1>4. CASE Aid(p) # Watched
  BY <1>1, <1>2, <1>4, PassedOther DEF D!vars, Tables, Coordination, Charged
<1> QED BY <1>3, <1>4

\* A commit of another action leaves the watched one's row and charge alone.
LEMMA CommitOther ==
    ASSUME RefInv, NEW p \in Procs, Commit(p), Aid(p) # Watched PROVE UNCHANGED Tables
<1> DEFINE row == [id |-> Aid(p), fp |-> w[p].fp, epoch |-> w[p].epoch]
           charge == [seq |-> chargeSeq, id |-> Aid(p), fp |-> w[p].fp]
<1>1. actions' = actions \cup {row} /\ charges' = charges \cup {charge}
  BY DEF Commit
<1>2. row.id # Watched /\ charge.id # Watched
  OBVIOUS
<1> HIDE DEF row, charge
<1>3. Charged' = Charged
  BY <1>1, <1>2 DEF Charged
<1>4. Claimed(Watched)' = Claimed(Watched)
  BY <1>1, <1>2 DEF Claimed
<1>5. ClaimEpoch' = ClaimEpoch
  <2>1. CASE ~Claimed(Watched)
    BY <1>4, <2>1 DEF ClaimEpoch
  <2>2. CASE Claimed(Watched)
    <3>1. PICK x \in actions : x.id = Watched
      BY <2>2 DEF Claimed
    <3>2. \A q \in actions' : q.id = Watched => q = x
      BY <1>1, <1>2, <3>1 DEF RefInv, OneRow
    <3>3. (CHOOSE r \in actions : r.id = Watched) = x /\ (CHOOSE r \in actions' : r.id = Watched) = x
      BY <1>1, <3>1, <3>2
    <3>4. Claimed(Watched)' = TRUE
      BY <1>1, <3>1 DEF Claimed
    <3>5. ClaimEpoch = x.epoch
      BY <2>2, <3>3 DEF ClaimEpoch
    <3>6. ClaimEpoch' = x.epoch
      BY <3>3, <3>4 DEF ClaimEpoch
    <3> QED BY <3>5, <3>6
  <2> QED BY <2>1, <2>2
<1> QED BY <1>3, <1>4, <1>5, Zenon DEF Tables

\* The commit of the watched action: one row, one charge, the current epoch.
LEMMA CommitWatched ==
    ASSUME RefInv, NEW p \in Procs, Commit(p), Aid(p) = Watched
    PROVE  /\ ~Claimed(Watched) /\ Claimed(Watched)' = TRUE /\ ClaimEpoch' = w[p].epoch
           /\ Cardinality(Charged)' = Cardinality(Charged) + 1
<1> DEFINE row == [id |-> Aid(p), fp |-> w[p].fp, epoch |-> w[p].epoch]
           charge == [seq |-> chargeSeq, id |-> Aid(p), fp |-> w[p].fp]
<1>1. actions' = actions \cup {row} /\ charges' = charges \cup {charge}
  BY DEF Commit
<1>2. row.id = Watched /\ row.epoch = w[p].epoch /\ charge.id = Watched
  OBVIOUS
<1> HIDE DEF row, charge
<1>3. ~Claimed(Watched)
  BY DEF Commit, RefInv, OnceInv, ClaimPending, Pending
<1>4. Charged = {}
  BY <1>3 DEF Charged, Claimed, RefInv, OnceInv, ClaimIffEffect
<1>5. Charged' = {charge}
  BY <1>1, <1>2, <1>4 DEF Charged
<1>6. Claimed(Watched)' = TRUE
  BY <1>1, <1>2 DEF Claimed
<1>7. (CHOOSE q \in actions' : q.id = Watched) = row
  BY <1>1, <1>2, <1>3 DEF Claimed
<1>8. ClaimEpoch' = w[p].epoch
  BY <1>2, <1>6, <1>7 DEF ClaimEpoch
<1>9. Cardinality(Charged) = 0 /\ Cardinality(Charged') = 1
  BY <1>4, <1>5, FS_EmptySet, FS_Singleton
<1> QED BY <1>3, <1>6, <1>8, <1>9

LEMMA CommitRefines ==
    ASSUME RefInv, NEW p \in Procs, Commit(p) PROVE [D!Next]_(D!vars)
<1>1. Becomes(p, "call", w[p].turn, w[p].epoch, w[p].plan, w[p].ord + 1, None) /\ w[p].pc \in InTx
  BY ReturnLocals DEF Commit, InTx, RefInv
<1>2. ownerEpoch' = ownerEpoch
  BY DEF Commit
<1>3. CASE Aid(p) = Watched
  <2>1. w[p].epoch = ownerEpoch[WTurn]
    BY <1>1, <1>3 DEF RefInv, OwnerLocked, Aid, WTurn
  <2>2. /\ Coordination[p] = [epoch |-> ownerEpoch[WTurn], pc |-> "acquired"]
        /\ Coordination' = [Coordination EXCEPT ![p].pc = "done"]
    BY <1>1, <1>3, PassedWatched
  <2>3. D!Owns(p) /\ D!Goto(p, "done") /\ Coordination[p].pc = "acquired"
    BY <2>2 DEF D!Owns, D!Goto, Coordination
  <2>4. /\ ~Claimed(Watched) /\ Claimed(Watched)' = TRUE
        /\ Cardinality(Charged)' = Cardinality(Charged) + 1
    BY <1>3, CommitWatched
  <2>5. ClaimEpoch' = Coordination[p].epoch
    <3>1. ClaimEpoch' = w[p].epoch
      BY <1>3, CommitWatched
    <3>2. Coordination[p].epoch = ownerEpoch[WTurn]
      BY <2>2
    <3> QED BY <2>1, <3>1, <3>2
  <2>6. UNCHANGED <<"transactional", ownerEpoch[WTurn], FALSE, FALSE>>
    BY <1>2
  <2>7. D!Transact(p)
    BY <2>3, <2>4, <2>5, <2>6 DEF D!Transact, Coordination, Charged
  <2> QED BY <2>7 DEF D!Next
<1>4. CASE Aid(p) # Watched
  BY <1>1, <1>2, <1>4, PassedOther, CommitOther DEF D!vars, Tables, Coordination, Charged
<1> QED BY <1>3, <1>4

LEMMA StepRefines == ASSUME RefInv, [Next]_vars PROVE [D!Next]_(D!vars)
<1>1. ASSUME NEW p \in Procs, NEW pl \in Plans, Begin(p, pl) PROVE [D!Next]_(D!vars)
  BY <1>1, BeginLocals, InnerRefines DEF Begin, RefInv, PlanInv, Fresh
<1>2. ASSUME NEW p \in Procs, Load(p) PROVE [D!Next]_(D!vars)
  BY <1>2, LoadLocals, InnerRefines DEF Load, durable, RefInv, PlanInv, Fresh
<1>3. ASSUME NEW p \in Procs, NEW f \in Fps, Fence(p, f) PROVE [D!Next]_(D!vars)
  BY <1>3, FenceLocals, InnerRefines DEF Fence, durable, RefInv
<1>4. ASSUME NEW p \in Procs, Claim(p) PROVE [D!Next]_(D!vars)
  BY <1>4, ClaimLocals, InnerRefines DEF Claim, durable, RefInv
<1>5. ASSUME NEW p \in Procs, Effect(p) PROVE [D!Next]_(D!vars)
  BY <1>5, EffectLocals, InnerRefines DEF Effect, durable, RefInv
<1>6. ASSUME NEW p \in Procs, LoadNone(p) \/ FenceStale(p) \/ Mismatch(p) \/ Finish(p) \/ Crash(p)
      PROVE  [D!Next]_(D!vars)
  BY <1>6, EndRefines DEF LoadNone, FenceStale, Mismatch, Insertable, Finish, Crash, durable
<1>7. CASE UNCHANGED vars
  <2>1. UNCHANGED Tables /\ ownerEpoch' = ownerEpoch
    BY <1>7, TablesKept DEF vars, durable
  <2>2. Coordination' = Coordination
    BY <1>7 DEF vars, Coordination, CoordinatorOf, Done
  <2> QED BY <2>1, <2>2 DEF D!vars, Tables, Coordination, Charged
<1> QED
  BY <1>1, <1>2, <1>3, <1>4, <1>5, <1>6, <1>7, AcquireRefines, DedupRefines, CommitRefines
     DEF Next, Run

\* On PostgreSQL the coordinators of dtx.py, with all their statements, implement
\* what dmodel.py explores for one action: whatever it shows of every behaviour
\* of the abstraction holds of the code's.
THEOREM Implements ==
    ASSUME Backend = "postgres" PROVE Spec => RefinesDmodel
<1>1. Init => D!Init
  <2> SUFFICES ASSUME Init PROVE D!Init
    OBVIOUS
  <2>1. Charged = {} /\ ~Claimed(Watched) /\ ClaimEpoch = 0
    BY DEF Init, Charged, Claimed, ClaimEpoch
  <2>2. Coordination = [p \in Procs |-> [epoch |-> 0, pc |-> "start"]]
    BY WatchedFields, DtxAssumption DEF Init, Idle, Coordination, CoordinatorOf
  <2>3. ownerEpoch[WTurn] = 0
    BY WatchedFields DEF Init
  <2> QED
    BY <2>1, <2>2, <2>3, FS_EmptySet
       DEF D!Init, D!Klasses, D!Start, Coordination, Charged
<1>2. RefInv /\ [Next]_vars => [D!Next]_(D!vars)
  BY StepRefines
<1> QED
  BY <1>1, <1>2, RefInvAlways, PTL DEF Spec, RefinesDmodel, D!Spec
-----------------------------------------------------------------------------
(***************************************************************************)
(* The gate of phase 7, on either backend.  Its workers recover: no caller *)
(* offers an output any more, and the args are those of the durable plan.  *)
(***************************************************************************)
Recovering == /\ \A t \in Turns : Offered[t] = {}
              /\ \A f, h \in Fps : f = h

\* Every turn has its plan, and all that is done or under way is of that plan.
PlanOnly(p) ==
    /\ w[p].pc \in Loaded => w[p].plan = turns[w[p].turn].plan
    /\ w[p].pc \in InTx => w[p].ord < PlanLen[w[p].plan]
RowsOfPlan ==
    \A r \in actions : r.id[2] = turns[r.id[1]].plan /\ r.id[3] < PlanLen[r.id[2]]
Planned == /\ \A t \in Turns : turns[t] # None
           /\ RowsOfPlan
           /\ \A p \in Procs : PlanOnly(p)

\* A worker runs once, for its turn; racers are joined before sweepers start.
Launched == \A p \in Procs : w[p].pc # "idle" => w[p].turn = TurnOf[p] /\ p \in launched
Phased ==
    /\ phase \in {"race", "sweep", "audit"} /\ launched \subseteq Procs
    /\ phase # "race" => Exited(Racers)
    /\ phase = "race" => \A p \in Sweepers : p \notin launched
    /\ phase = "audit" => Exited(Sweepers)

\* A sweeper owns its turn until it has finished it.
TurnDone(t) == turns[t].state = "committed" /\ AllDone(t, turns[t].plan)
Sweeps(p) == p \in launched =>
    /\ w[p].pc # "idle" => w[p].epoch = ownerEpoch[TurnOf[p]]
    /\ w[p].pc = "idle" => TurnDone(TurnOf[p])
Swept == \A p \in Sweepers : Sweeps(p)

TablesInv == TypeInv /\ OnceInv /\ PlanInv /\ OneRow /\ Planned
GateInv == TablesInv /\ Launched /\ Phased /\ Swept

LEMMA GateIsDtx == ASSUME [GateNext]_gateVars PROVE [Next]_vars
BY ConcurrentGateAssumption
   DEF GateNext, gateVars, Launch, Work, HardMid, StartSweep, Audit, Next, Racers

\* Plans are fixed, a committed turn stays so, and rows stay.
LEMMA Monotonic ==
    ASSUME Recovering, TypeInv, Planned, [Next]_vars
    PROVE  /\ actions \subseteq actions'
           /\ \A t \in Turns : /\ turns'[t] # None /\ turns'[t].plan = turns[t].plan
                               /\ turns[t].state = "committed" => turns'[t].state = "committed"
<1>1. CASE turns' = turns
  <2>1. actions \subseteq actions'
    BY OnlyCommitAddsRows DEF Commit
  <2> QED BY <1>1, <2>1 DEF Planned
<1>2. ASSUME NEW p \in Procs, NEW pl \in Plans PROVE ~Begin(p, pl)
  BY TurnOfLive DEF Begin, Recovering
<1>3. ASSUME NEW p \in Procs, Finish(p)
      PROVE  /\ actions' = actions
             /\ \A t \in Turns : /\ turns'[t] # None /\ turns'[t].plan = turns[t].plan
                                 /\ turns[t].state = "committed" => turns'[t].state = "committed"
  <2>1. w[p].turn \in Turns /\ \A t \in Turns : turns[t] \in TurnRow
    BY <1>3, TurnOfLive DEF Finish, Planned, TypeInv, TypeOK
  <2>2. \A t \in Turns :
          turns'[t] = IF t = w[p].turn THEN [turns[t] EXCEPT !.state = "committed"] ELSE turns[t]
    BY <1>3, <2>1 DEF Finish, TypeInv, TypeOK
  <2>3. \A t \in Turns : turns'[t] \in TurnRow
    BY <2>1, <2>2 DEF TurnRow
  <2> QED BY <1>3, <2>1, <2>2, <2>3, DtxAssumption DEF Finish, TurnRow
<1> QED
  BY <1>1, <1>2, <1>3
     DEF Next, Run, Crash, Acquire, Load, LoadNone, Fence, FenceStale, Claim, Dedup, Mismatch, Effect,
         Commit, End, vars, durable

\* A step of p leaves the others' locals to their plans.
LEMMA PlannedKept ==
    ASSUME Recovering, TypeInv, Planned, [Next]_vars, NEW p \in Procs,
           \A q \in Procs : q # p => w'[q] = w[q], PlanOnly(p)', RowsOfPlan'
    PROVE  Planned'
<1>1. ASSUME NEW q \in Procs PROVE PlanOnly(q)'
  <2>1. CASE q = p
    BY <2>1
  <2>2. CASE q # p
    <3>1. w'[q] = w[q] /\ (w[q].pc \in Loaded => w[q].turn \in Turns)
      BY <2>2, TurnOfLive DEF Loaded, InTx
    <3> QED BY <3>1, Monotonic DEF Planned, PlanOnly, Loaded, InTx
  <2> QED BY <2>1, <2>2
<1> QED BY <1>1, Monotonic DEF Planned

LEMMA RowsOfPlanKept ==
    ASSUME Recovering, TypeInv, Planned, [Next]_vars, actions' = actions PROVE RowsOfPlan'
<1>1. \A r \in actions : r.id[1] \in Turns
  BY DEF TypeInv, TypeOK, ActionRow, ActionId
<1> QED BY <1>1, Monotonic DEF Planned, RowsOfPlan

LEMMA PlannedNext ==
    ASSUME Recovering, TypeInv, Planned, [Next]_vars PROVE Planned'
<1>1. ASSUME NEW p \in Procs, NEW t \in Turns, Acquire(p, t) PROVE Planned'
  BY <1>1, AcquireLocals, PlannedKept, RowsOfPlanKept DEF Acquire, Becomes, PlanOnly, Loaded, InTx
<1>2. ASSUME NEW p \in Procs, Load(p) PROVE Planned'
  BY <1>2, LoadLocals, PlannedKept, RowsOfPlanKept DEF Load, durable, Becomes, PlanOnly, Loaded, InTx
<1>3. ASSUME NEW p \in Procs, End(p), actions' = actions PROVE Planned'
  BY <1>3, EndLocals, PlannedKept, RowsOfPlanKept DEF Becomes, PlanOnly, Loaded, InTx
<1>4. ASSUME NEW p \in Procs, NEW f \in Fps, Fence(p, f) PROVE Planned'
  <2>1. actions' = actions /\ turns' = turns /\ w[p].pc = "call" /\ w[p].ord < PlanLen[w[p].plan]
    BY <1>4 DEF Fence, durable
  <2>2. PlanOnly(p)' /\ \A q \in Procs : q # p => w'[q] = w[q]
    BY <1>4, <2>1, FenceLocals DEF Becomes, Planned, PlanOnly, Loaded
  <2> QED BY <2>1, <2>2, PlannedKept, RowsOfPlanKept
<1>5. ASSUME NEW p \in Procs, Claim(p) PROVE Planned'
  BY <1>5, ClaimLocals, PlannedKept, RowsOfPlanKept
     DEF Claim, Insertable, durable, Becomes, Planned, PlanOnly, Loaded, InTx
<1>6. ASSUME NEW p \in Procs, Effect(p) PROVE Planned'
  BY <1>6, EffectLocals, PlannedKept, RowsOfPlanKept
     DEF Effect, durable, Becomes, Planned, PlanOnly, Loaded, InTx
<1>7. ASSUME NEW p \in Procs, Dedup(p) PROVE Planned'
  BY <1>7, ReturnLocals, PlannedKept, RowsOfPlanKept
     DEF Dedup, Insertable, durable, Becomes, Planned, PlanOnly, Loaded, InTx
<1>8. ASSUME NEW p \in Procs, Commit(p) PROVE Planned'
  <2> DEFINE row == [id |-> Aid(p), fp |-> w[p].fp, epoch |-> w[p].epoch]
  <2>1. actions' = actions \cup {row} /\ row.id = Aid(p) /\ turns' = turns
    BY <1>8 DEF Commit
  <2> HIDE DEF row
  <2>2. RowsOfPlan'
    BY <1>8, <2>1 DEF Commit, Aid, Planned, RowsOfPlan, PlanOnly, Loaded, InTx
  <2>3. PlanOnly(p)' /\ \A q \in Procs : q # p => w'[q] = w[q]
    BY <1>8, <2>1, ReturnLocals DEF Commit, Becomes, Planned, PlanOnly, Loaded, InTx
  <2> QED BY <2>2, <2>3, PlannedKept
<1>9. CASE UNCHANGED vars
  BY <1>9 DEF vars, durable, Planned, RowsOfPlan, PlanOnly, Loaded, InTx
<1>10. ASSUME NEW p \in Procs, NEW pl \in Plans PROVE ~Begin(p, pl)
  BY TurnOfLive DEF Begin, Recovering
<1> QED
  BY <1>1, <1>2, <1>3, <1>4, <1>5, <1>6, <1>7, <1>8, <1>9, <1>10
     DEF Next, Run, Crash, LoadNone, FenceStale, Mismatch, Finish, durable

LEMMA TablesInvNext ==
    ASSUME Recovering, TablesInv, [Next]_vars PROVE TablesInv'
BY TypeNext, OnceNext, PlanNext, OneRowNext, PlannedNext DEF TablesInv

\* What a live worker's step does to the leases and to the locals.
LEMMA WorkStep ==
    ASSUME TypeInv, NEW p \in Procs, Run(p) \/ Crash(p)
    PROVE  /\ w[p].pc # "idle" /\ ownerEpoch' = ownerEpoch
           /\ \A q \in Procs : q # p => w'[q] = w[q]
           /\ w'[p].pc # "idle" => w'[p].turn = w[p].turn /\ w'[p].epoch = w[p].epoch
<1>1. ASSUME NEW pl \in Plans, Begin(p, pl) PROVE w[p].pc # "idle" /\ ownerEpoch' = ownerEpoch
  BY <1>1 DEF Begin
<1>2. w[p].pc # "idle" /\ ownerEpoch' = ownerEpoch
  BY <1>1 DEF Run, Crash, Load, LoadNone, Fence, FenceStale, Claim, Insertable, Dedup, Mismatch, Effect,
              Commit, Finish, durable
<1>3. CASE End(p)
  BY <1>2, <1>3, EndLocals DEF Becomes
<1>4. CASE \E pl \in Plans : Begin(p, pl)
  BY <1>2, <1>4, BeginLocals DEF Becomes
<1>5. CASE Load(p)
  BY <1>2, <1>5, LoadLocals DEF Becomes
<1>6. CASE \E f \in Fps : Fence(p, f)
  BY <1>2, <1>6, FenceLocals DEF Becomes
<1>7. CASE Claim(p) \/ Effect(p)
  BY <1>2, <1>7, ClaimLocals, EffectLocals DEF Becomes
<1>8. CASE Return(p)
  BY <1>2, <1>8, ReturnLocals DEF Becomes
<1> QED
  BY <1>3, <1>4, <1>5, <1>6, <1>7, <1>8
     DEF Run, Crash, LoadNone, FenceStale, Mismatch, Dedup, Commit, Finish

LEMMA LaunchStep ==
    ASSUME TypeInv, NEW p \in Procs, Launch(p)
    PROVE  /\ w[p].pc = "idle" /\ p \notin launched /\ launched' = launched \cup {p}
           /\ w'[p].pc = "plan" /\ w'[p].turn = TurnOf[p] /\ w'[p].epoch = ownerEpoch'[TurnOf[p]]
           /\ \A q \in Procs : q # p => w'[q] = w[q]
           /\ \A t \in Turns : t # TurnOf[p] => ownerEpoch'[t] = ownerEpoch[t]
           /\ phase' = phase /\ (p \in Sweepers => phase = "sweep")
<1>1. TurnOf[p] \in Turns
  BY ConcurrentGateAssumption
<1>2. Acquire(p, TurnOf[p])
  BY DEF Launch
<1>3. Becomes(p, "plan", TurnOf[p], ownerEpoch[TurnOf[p]] + 1, None, 0, None)
  BY <1>1, <1>2, AcquireLocals
<1>4. \A t \in Turns : ownerEpoch'[t] = IF t = TurnOf[p] THEN ownerEpoch[t] + 1 ELSE ownerEpoch[t]
  BY <1>1, <1>2 DEF Acquire, TypeInv, TypeOK
<1> QED
  BY <1>1, <1>2, <1>3, <1>4 DEF Launch, Acquire, Becomes

\* A done turn stays done.
LEMMA TurnDoneKept ==
    ASSUME Recovering, TablesInv, [Next]_vars, NEW t \in Turns, TurnDone(t) PROVE TurnDone(t)'
BY Monotonic, DoneKept DEF TablesInv, TurnDone

\* A sweeper with the current lease leaves the loop by finishing its turn only:
\* the fence lets it pass, the plan is there, and the args are those of the rows.
LEMMA SweeperEnds ==
    ASSUME Recovering, TablesInv, NEW p \in Procs, Run(p), w'[p].pc = "idle",
           NEW t, t = w[p].turn, w[p].epoch = ownerEpoch[t]
    PROVE  TurnDone(t)'
<1>1. w[p].turn \in Turns /\ turns[w[p].turn] # None
  BY WorkStep, TurnOfLive DEF TablesInv, Planned
<1>2. ~LoadNone(p) /\ ~FenceStale(p)
  BY <1>1 DEF LoadNone, FenceStale
<1>3. ~Mismatch(p)
  <2>1. ASSUME NEW r \in actions, w[p].pc = "claim" PROVE r.fp \in Fps /\ w[p].fp \in Fps
    BY <2>1 DEF TablesInv, TypeInv, TypeOK, ActionRow, LocalsSet, LocalSet, InTx
  <2> QED BY <2>1 DEF Mismatch, Insertable, Recovering
<1>4. ASSUME NEW pl \in Plans, Begin(p, pl) PROVE FALSE
  BY <1>1, <1>4 DEF Begin, Recovering
<1>5. ASSUME NEW f \in Fps, Fence(p, f) PROVE FALSE
  BY <1>5, FenceLocals DEF Becomes, TablesInv
<1>6. ~Load(p) /\ ~Claim(p) /\ ~Effect(p) /\ ~Return(p)
  BY LoadLocals, ClaimLocals, EffectLocals, ReturnLocals DEF Becomes, TablesInv
<1>7. Finish(p)
  BY <1>2, <1>3, <1>4, <1>5, <1>6 DEF Run, Dedup, Commit
<1>8. turns[w[p].turn] \in TurnRow
  BY <1>1 DEF TablesInv, TypeInv, TypeOK
<1>9. turns'[w[p].turn] = [turns[w[p].turn] EXCEPT !.state = "committed"] /\ actions' = actions
  BY <1>1, <1>7 DEF Finish, TablesInv, TypeInv, TypeOK
<1>10. turns'[w[p].turn].state = "committed" /\ turns'[w[p].turn].plan = turns[w[p].turn].plan
  BY <1>8, <1>9 DEF TurnRow
<1>11. /\ w[p].plan = turns[w[p].turn].plan /\ w[p].ord = PlanLen[w[p].plan]
       /\ \A o \in Nat : o < w[p].ord => Claimed(<<w[p].turn, w[p].plan, o>>)
  BY <1>7 DEF Finish, TablesInv, Planned, PlanOnly, PlanInv, Backed, Loaded
<1>12. PlanLen[w[p].plan] \in Nat
  BY <1>8, <1>11, DtxAssumption DEF TurnRow
<1>13. \A o \in 0 .. PlanLen[w[p].plan] - 1 : Claimed(<<t, turns[t].plan, o>>)
  BY <1>11, <1>12
<1>14. AllDone(t, turns[t].plan)'
  BY <1>1, <1>9, <1>10, <1>11, <1>13, DoneKept DEF AllDone
<1> QED
  BY <1>10, <1>14 DEF TurnDone

\* What main() waited for stays so: a joined worker never runs again.
LEMMA ExitedKept ==
    ASSUME TypeInv, GateNext, NEW ps \in SUBSET Procs, Exited(ps) PROVE Exited(ps)'
<1>1. CASE \E p \in Procs : Launch(p)
  BY <1>1, LaunchStep DEF Exited
<1>2. CASE \E p \in Procs : Work(p) \/ HardMid(p)
  BY <1>2, WorkStep DEF Exited, Work, HardMid
<1>3. CASE StartSweep \/ Audit
  BY <1>3 DEF StartSweep, Audit, vars, Exited
<1> QED BY <1>1, <1>2, <1>3 DEF GateNext

LEMMA PhasedNext ==
    ASSUME TypeInv, Launched, Phased, GateNext PROVE Launched' /\ Phased'
<1>1. Racers \subseteq Procs /\ Sweepers \subseteq Procs
  BY ConcurrentGateAssumption DEF Racers
<1>2. (Exited(Racers) => Exited(Racers)') /\ (Exited(Sweepers) => Exited(Sweepers)')
  BY <1>1, ExitedKept DEF Racers
<1>3. ASSUME NEW p \in Procs, Launch(p) PROVE Launched' /\ Phased'
  BY <1>2, <1>3, LaunchStep DEF Launched, Phased
<1>4. ASSUME NEW p \in Procs, Work(p) \/ HardMid(p) PROVE Launched' /\ Phased'
  <2>1. (Run(p) \/ Crash(p)) /\ phase' = phase /\ launched' = launched
    BY <1>4 DEF Work, HardMid
  <2>2. Launched'
    BY <2>1, WorkStep DEF Launched
  <2>3. Phased'
    BY <1>2, <2>1 DEF Phased
  <2> QED BY <2>2, <2>3
<1>5. CASE StartSweep \/ Audit
  <2>1. w' = w /\ launched' = launched
    BY <1>5 DEF StartSweep, Audit, vars
  <2>2. Launched'
    BY <2>1 DEF Launched
  <2>3. Phased'
    BY <1>2, <1>5, <2>1 DEF StartSweep, Audit, Phased, Exited
  <2> QED BY <2>2, <2>3
<1> QED BY <1>3, <1>4, <1>5 DEF GateNext

\* A sweeper's lease is the last one of its turn: the racers have all taken
\* theirs, and no other sweeper is started for the turn.
LEMMA SweptNext ==
    ASSUME Recovering, GateInv, GateNext PROVE Swept'
<1>0. [Next]_vars /\ TypeInv /\ Sweepers \subseteq Procs /\ TurnOf \in [Procs -> Turns]
  BY GateIsDtx, ConcurrentGateAssumption DEF GateInv, TablesInv
<1> SUFFICES ASSUME NEW p \in Sweepers PROVE Sweeps(p)'
  BY DEF Swept
<1>1. p \in Procs /\ TurnOf[p] \in Turns /\ Sweeps(p)
  BY <1>0 DEF GateInv, Swept
<1>2. TurnDone(TurnOf[p]) => TurnDone(TurnOf[p])'
  BY <1>0, <1>1, TurnDoneKept DEF GateInv
<1>3. ASSUME NEW q \in Procs, Launch(q), q # p PROVE Sweeps(p)'
  <2>1. p \in launched => TurnOf[q] # TurnOf[p]
    BY <1>1, <1>3, LaunchStep, <1>0, ConcurrentGateAssumption
       DEF GateInv, Phased, Exited, Racers
  <2> QED BY <1>0, <1>1, <1>2, <1>3, <2>1, LaunchStep DEF Sweeps
<1>4. CASE Launch(p)
  BY <1>0, <1>1, <1>4, LaunchStep DEF Sweeps
<1>5. ASSUME NEW q \in Procs, Work(q) \/ HardMid(q), q # p PROVE Sweeps(p)'
  <2>1. (Run(q) \/ Crash(q)) /\ launched' = launched
    BY <1>5 DEF Work, HardMid
  <2> QED BY <1>0, <1>1, <1>2, <1>5, <2>1, WorkStep DEF Sweeps
<1>6. CASE Work(p)
  <2>1. Run(p) /\ launched' = launched
    BY <1>6 DEF Work
  <2>2. w[p].pc # "idle" /\ w[p].turn = TurnOf[p]
    BY <1>0, <1>1, <2>1, WorkStep DEF GateInv, Launched
  <2>3. p \in launched => w[p].epoch = ownerEpoch[TurnOf[p]]
    BY <1>1, <2>2 DEF Sweeps
  <2>4. p \in launched /\ w'[p].pc = "idle" => TurnDone(TurnOf[p])'
    BY <1>1, <2>1, <2>2, <2>3, SweeperEnds DEF GateInv
  <2> QED BY <1>0, <1>1, <2>1, <2>2, <2>3, <2>4, WorkStep DEF Sweeps
<1>7. ~HardMid(p)
  BY ConcurrentGateAssumption DEF HardMid
<1>8. CASE StartSweep \/ Audit
  BY <1>1, <1>2, <1>8 DEF StartSweep, Audit, vars, durable, Sweeps
<1> QED BY <1>3, <1>4, <1>5, <1>6, <1>7, <1>8 DEF GateNext

\* n rows or charges whose ordinals are 0 .. n-1, each once.
LEMMA Counted ==
    ASSUME NEW S, NEW n \in Nat,
           \A x \in S : x.id[3] \in 0 .. n - 1,
           \A x, y \in S : x.id[3] = y.id[3] => x = y,
           \A o \in 0 .. n - 1 : \E x \in S : x.id[3] = o
    PROVE  Cardinality(S) = n
<1> DEFINE f == [i \in 1 .. n |-> CHOOSE x \in S : x.id[3] = i - 1]
<1>1. \A i \in 1 .. n : f[i] \in S /\ f[i].id[3] = i - 1
  <2> SUFFICES ASSUME NEW i \in 1 .. n
               PROVE  f[i] \in S /\ f[i].id[3] = i - 1
    OBVIOUS
  <2>1. \E x \in S : x.id[3] = i - 1
    OBVIOUS
  <2> QED BY <2>1
<1>2. f \in [1 .. n -> S]
  BY <1>1
<1> HIDE DEF f
<1>3. \A i, j \in 1 .. n : f[i] = f[j] => i = j
  <2> SUFFICES ASSUME NEW i \in 1 .. n, NEW j \in 1 .. n, f[i] = f[j] PROVE i = j
    OBVIOUS
  <2>1. i - 1 = j - 1
    BY <1>1
  <2> QED BY <2>1
<1>4. \A x \in S : \E i \in 1 .. n : f[i] = x
  <2> SUFFICES ASSUME NEW x \in S PROVE \E i \in 1 .. n : f[i] = x
    OBVIOUS
  <2>1. x.id[3] + 1 \in 1 .. n /\ (x.id[3] + 1) - 1 = x.id[3]
    OBVIOUS
  <2>2. f[x.id[3] + 1] \in S /\ f[x.id[3] + 1].id[3] = x.id[3]
    BY <1>1, <2>1
  <2> QED BY <2>1, <2>2
<1>5. f \in Bijection(1 .. n, S)
  BY <1>2, <1>3, <1>4 DEF Bijection, Injection, Surjection, IsInjective
<1> QED BY <1>5, FS_CountingElements DEF ExistsBijection

\* A turn that is done has one row and one charge for each action of its plan.
LEMMA DoneCounts ==
    ASSUME TablesInv, NEW t \in Turns, TurnDone(t)
    PROVE  /\ Cardinality(Rows(t)) = Expected(t)
           /\ Cardinality({c \in charges : c.id[1] = t}) = Expected(t)
<1> DEFINE pl == turns[t].plan
           C == {c \in charges : c.id[1] = t}
<1>1. pl \in Plans /\ PlanLen[pl] \in Nat /\ Expected(t) = PlanLen[pl]
  <2>1. turns[t] \in TurnRow
    BY DEF TablesInv, Planned, TypeInv, TypeOK
  <2> QED BY <2>1, DtxAssumption DEF TurnRow, Expected
<1>2. ASSUME NEW r \in actions, r.id[1] = t
      PROVE  r.id = <<t, pl, r.id[3]>> /\ r.id[3] \in 0 .. PlanLen[pl] - 1
  <2>1. r.id \in ActionId
    BY DEF TablesInv, TypeInv, TypeOK, ActionRow
  <2>2. r.id[2] = pl /\ r.id[3] < PlanLen[pl]
    BY <1>2 DEF TablesInv, Planned, RowsOfPlan
  <2> QED BY <1>1, <1>2, <2>1, <2>2 DEF ActionId
<1>3. \A o \in 0 .. PlanLen[pl] - 1 : \E r \in actions : r.id = <<t, pl, o>>
  BY DEF TurnDone, AllDone, Claimed
<1>4. Cardinality(Rows(t)) = PlanLen[pl]
  <2>1. \A r \in Rows(t) : r.id[3] \in 0 .. PlanLen[pl] - 1
    BY <1>2 DEF Rows
  <2>2. \A r, q \in Rows(t) : r.id[3] = q.id[3] => r = q
    BY <1>2 DEF Rows, TablesInv, OneRow
  <2>3. \A o \in 0 .. PlanLen[pl] - 1 : \E r \in Rows(t) : r.id[3] = o
    <3> SUFFICES ASSUME NEW o \in 0 .. PlanLen[pl] - 1 PROVE \E r \in Rows(t) : r.id[3] = o
      OBVIOUS
    <3>1. PICK r \in actions : r.id = <<t, pl, o>>
      BY <1>3
    <3> QED BY <3>1 DEF Rows
  <2> HIDE DEF pl
  <2> QED BY <1>1, <2>1, <2>2, <2>3, Counted
<1>5. ASSUME NEW c \in charges, c.id[1] = t
      PROVE  c.id = <<t, pl, c.id[3]>> /\ c.id[3] \in 0 .. PlanLen[pl] - 1
  <2>1. PICK r \in actions : r.id = c.id
    BY DEF TablesInv, OnceInv, ClaimIffEffect
  <2> QED BY <1>2, <1>5, <2>1
<1>6. Cardinality(C) = PlanLen[pl]
  <2>1. \A c \in C : c.id[3] \in 0 .. PlanLen[pl] - 1
    BY <1>5
  <2>2. \A c, d \in C : c.id[3] = d.id[3] => c = d
    BY <1>5 DEF TablesInv, OnceInv, AtMostOnce
  <2>3. \A o \in 0 .. PlanLen[pl] - 1 : \E c \in C : c.id[3] = o
    <3> SUFFICES ASSUME NEW o \in 0 .. PlanLen[pl] - 1 PROVE \E c \in C : c.id[3] = o
      OBVIOUS
    <3>1. PICK r \in actions : r.id = <<t, pl, o>>
      BY <1>3
    <3>2. PICK c \in charges : c.id = r.id
      BY DEF TablesInv, OnceInv, ClaimIffEffect
    <3> QED BY <3>1, <3>2
  <2> HIDE DEF pl, C
  <2> QED BY <1>1, <2>1, <2>2, <2>3, Counted
<1> QED BY <1>1, <1>4, <1>6

\* PHASE7_PASS can be false in no run of the gate, whatever the number of
\* racers, turns and deaths: once the sweep is joined, every action of every
\* turn has one row and one charge and every turn is committed.
THEOREM GateOracle ==
    ASSUME Recovering PROVE GateSpec => []Phase7Pass
<1>1. GateInit => GateInv
  <2> SUFFICES ASSUME GateInit PROVE GateInv
    OBVIOUS
  <2>1. TypeInv
    BY DtxAssumption
       DEF GateInit, TypeInv, TypeOK, LocalsSet, LocalSet, Local, Idle, Loaded, InTx, TurnRow
  <2>2. OnceInv
    BY DEF GateInit, Idle, OnceInv, AtMostOnce, ClaimIffEffect, ResultsDurable, ClaimPending,
           ClaimExclusive, Pending
  <2>3. PlanInv /\ OneRow
    BY DEF GateInit, PlanInv, NoGap, Backed, Fresh, Idle, Loaded, InTx, OneRow
  <2>4. Planned
    <3>1. \A t \in Turns : turns[t] \in TurnRow
      BY DEF GateInit, TurnRow
    <3> QED BY <3>1, DtxAssumption DEF GateInit, Idle, Planned, RowsOfPlan, PlanOnly, Loaded, InTx
  <2>5. Launched /\ Phased /\ Swept
    BY DEF GateInit, Idle, Launched, Phased, Swept, Sweeps
  <2> QED BY <2>1, <2>2, <2>3, <2>4, <2>5 DEF GateInv, TablesInv
<1>2. GateInv /\ [GateNext]_gateVars => GateInv'
  <2> SUFFICES ASSUME GateInv, [GateNext]_gateVars PROVE GateInv'
    OBVIOUS
  <2>1. TablesInv'
    BY GateIsDtx, TablesInvNext DEF GateInv
  <2>2. CASE GateNext
    BY <2>1, <2>2, PhasedNext, SweptNext DEF GateInv, TablesInv
  <2>3. CASE UNCHANGED gateVars
    BY <2>1, <2>3 DEF gateVars, vars, durable, GateInv, Launched, Phased, Exited, Swept, Sweeps,
                      TurnDone, AllDone, Claimed
  <2> QED BY <2>2, <2>3
<1>3. GateInv => Phase7Pass
  <2> SUFFICES ASSUME GateInv, phase = "audit" PROVE Phase7Pass
    BY DEF Phase7Pass
  <2>1. AtMostOnce
    BY DEF GateInv, TablesInv, OnceInv
  <2>2. ASSUME NEW t \in Turns PROVE TurnDone(t)
    <3>1. PICK p \in Sweepers : TurnOf[p] = t
      BY ConcurrentGateAssumption
    <3> QED BY <3>1 DEF GateInv, Phased, Exited, Swept, Sweeps
  <2> QED BY <2>1, <2>2, DoneCounts DEF Phase7Pass, GateInv, TurnDone
<1> QED BY <1>1, <1>2, <1>3, PTL DEF GateSpec
=============================================================================
