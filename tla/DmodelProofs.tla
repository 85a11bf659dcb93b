---------------------------- MODULE DmodelProofs -----------------------------
(***************************************************************************)
(* Theorems about Dmodel, for any number of coordinators and any bound on  *)
(* the leases, where agenttx/dmodel.py explores two coordinators and five  *)
(* leases.                                                                 *)
(***************************************************************************)
EXTENDS Dmodel, TLAPS

\* A coordinator between its claim and its commit.
Pending(i) == c[i].pc \in {"claimed", "effecting"}

\* A lease is given to one coordinator, and none is ahead of the lease counter.
LeasesUnique ==
    /\ claimed_by <= owner_epoch
    /\ \A i \in Coordinators : c[i].epoch <= owner_epoch
    /\ \A i \in Coordinators : c[i].pc # "start" => c[i].epoch # 0
    /\ \A i, j \in Coordinators : c[i].epoch = c[j].epoch /\ c[i].epoch # 0 => i = j

\* The claim names the only coordinator that may still commit.
ClaimNames ==
    \A i \in Coordinators : Pending(i) =>
        claimed_by = c[i].epoch /\ ~committed /\ klass # "transactional"

\* Whoever held the claim when UNCERTAIN was answered has lost its lease for good.
UncertainIsFenced == uncertain =>
    ~committed /\ klass = "irreversible" /\ claimed_by # 0 /\ claimed_by < owner_epoch

IInv == TypeOK /\ LeasesUnique /\ ClaimNames /\ UncertainIsFenced /\ EffectOnce

\* TypeOK of one coordinator's record, the fields a step looks at.
LEMMA CoordinatorFields ==
    ASSUME TypeOK, NEW i \in Coordinators
    PROVE  c[i].epoch \in 0 .. MAX_EPOCH /\ c[i].pc \in PCs
BY DEF TypeOK

\* What Goto does to every coordinator's record.
LEMMA GotoFields ==
    ASSUME TypeOK, NEW i \in Coordinators, NEW pc \in PCs, Goto(i, pc)
    PROVE  /\ c' \in [Coordinators -> [epoch : 0 .. MAX_EPOCH, pc : PCs]]
           /\ c'[i].pc = pc
           /\ \A j \in Coordinators : c'[j].epoch = c[j].epoch
           /\ \A j \in Coordinators : j # i => c'[j].pc = c[j].pc
BY DEF Goto, TypeOK

LEMMA InitIInv == Init => IInv
<1> SUFFICES ASSUME Init PROVE IInv
  OBVIOUS
<1>1. 0 \in 0 .. MAX_EPOCH /\ "start" \in PCs
  BY DmodelAssumption DEF DmodelAssumption, PCs
<1>2. \A i \in Coordinators : c[i].epoch = 0 /\ c[i].pc = "start"
  BY DEF Init, Start
<1>3. c \in [Coordinators -> [epoch : 0 .. MAX_EPOCH, pc : PCs]]
  BY <1>1 DEF Init, Start
<1>4. TypeOK
  BY <1>1, <1>3 DEF Init, TypeOK
<1>5. LeasesUnique /\ ClaimNames
  BY <1>2 DEF Init, LeasesUnique, ClaimNames, Pending
<1> QED BY <1>4, <1>5 DEF IInv, Init, UncertainIsFenced, EffectOnce

LEMMA CrashIInv == ASSUME IInv, NEW i \in Coordinators, Crash(i) PROVE IInv'
<1>1. Start \in [epoch : 0 .. MAX_EPOCH, pc : PCs] /\ Start.epoch = 0 /\ Start.pc = "start"
  BY DmodelAssumption DEF Start, PCs, DmodelAssumption
<1>2. /\ c' \in [Coordinators -> [epoch : 0 .. MAX_EPOCH, pc : PCs]]
      /\ c'[i].epoch = 0 /\ c'[i].pc = "start"
      /\ \A j \in Coordinators : j # i => c'[j] = c[j]
  BY <1>1 DEF Crash, IInv, TypeOK
<1>3. TypeOK'
  BY <1>2 DEF Crash, action, IInv, TypeOK
<1>4. LeasesUnique'
  BY <1>2, CoordinatorFields DEF Crash, action, IInv, TypeOK, LeasesUnique
<1>5. ClaimNames'
  BY <1>2 DEF Crash, action, IInv, ClaimNames, Pending
<1> QED
BY <1>3, <1>4, <1>5 DEF Crash, action, IInv, UncertainIsFenced, EffectOnce

LEMMA AcquireIInv == ASSUME IInv, NEW i \in Coordinators, Acquire(i) PROVE IInv'
<1>1. owner_epoch + 1 \in 0 .. MAX_EPOCH
  BY DmodelAssumption DEF Acquire, IInv, TypeOK, DmodelAssumption
<1>2. /\ c' \in [Coordinators -> [epoch : 0 .. MAX_EPOCH, pc : PCs]]
      /\ c'[i].epoch = owner_epoch + 1 /\ c'[i].pc = "acquired"
      /\ \A j \in Coordinators : j # i => c'[j] = c[j]
  BY <1>1 DEF Acquire, IInv, TypeOK, PCs
<1>3. TypeOK'
  BY <1>1, <1>2 DEF Acquire, action, IInv, TypeOK
<1>4. LeasesUnique'
  <2>1. \A j \in Coordinators : c[j].epoch \in Int /\ c[j].epoch <= owner_epoch
    BY CoordinatorFields DEF IInv, LeasesUnique
  <2>2. owner_epoch' = owner_epoch + 1 /\ owner_epoch \in Nat
    BY DEF Acquire, IInv, TypeOK
  <2> QED BY <1>2, <2>1, <2>2 DEF Acquire, action, IInv, TypeOK, LeasesUnique
<1>5. ClaimNames'
  BY <1>2 DEF Acquire, action, IInv, ClaimNames, Pending
<1>6. UncertainIsFenced' /\ EffectOnce'
  BY DEF Acquire, action, IInv, TypeOK, UncertainIsFenced, EffectOnce
<1> QED BY <1>3, <1>4, <1>5, <1>6 DEF IInv

\* The steps that only move the pc outside the claim: Fenced, Dedup, BackOff.
LEMMA QuietIInv ==
    ASSUME IInv, NEW i \in Coordinators, NEW pc \in PCs \ {"start", "claimed", "effecting"},
           c[i].pc = "acquired", Goto(i, pc), UNCHANGED <<owner_epoch, action>>
    PROVE  IInv'
<1>1. pc \in PCs /\ TypeOK
  BY DEF IInv
<1>2. TypeOK'
  BY <1>1, GotoFields DEF TypeOK, action
<1>3. LeasesUnique' /\ ClaimNames'
  BY <1>1, GotoFields DEF IInv, LeasesUnique, ClaimNames, Pending, action
<1> QED BY <1>2, <1>3 DEF IInv, UncertainIsFenced, EffectOnce, action

LEMMA TransactIInv == ASSUME IInv, NEW i \in Coordinators, Transact(i) PROVE IInv'
<1>1. TypeOK /\ Goto(i, "done") /\ "done" \in PCs
  BY DEF IInv, Transact, PCs
<1>2. TypeOK'
  BY <1>1, GotoFields, CoordinatorFields DEF Transact, TypeOK
<1>3. LeasesUnique'
  BY <1>1, GotoFields, CoordinatorFields DEF Transact, Owns, IInv, TypeOK, LeasesUnique
<1>4. \A j \in Coordinators : ~Pending(j)'
  BY <1>1, GotoFields DEF Transact, IInv, ClaimNames, Pending
<1>5. UncertainIsFenced' /\ EffectOnce'
  BY DEF Transact, IInv, TypeOK, UncertainIsFenced, EffectOnce
<1> QED BY <1>2, <1>3, <1>4, <1>5 DEF IInv, ClaimNames

LEMMA ClaimIInv == ASSUME IInv, NEW i \in Coordinators, Claim(i) PROVE IInv'
<1>1. TypeOK /\ Goto(i, "claimed") /\ "claimed" \in PCs
  BY DEF IInv, Claim, PCs
<1>2. TypeOK'
  BY <1>1, GotoFields, CoordinatorFields DEF Claim, TypeOK
<1>3. LeasesUnique'
  BY <1>1, GotoFields, CoordinatorFields DEF Claim, Owns, IInv, TypeOK, LeasesUnique
<1>4. \A j \in Coordinators : ~Pending(j)
  BY DEF Claim, IInv, ClaimNames, LeasesUnique, Pending
<1>5. ClaimNames'
  BY <1>1, <1>4, GotoFields DEF Claim, ClaimNames, Pending
<1>6. UncertainIsFenced'
  BY CoordinatorFields DEF Claim, Owns, IInv, TypeOK, UncertainIsFenced, LeasesUnique
<1> QED BY <1>2, <1>3, <1>5, <1>6 DEF IInv, Claim, EffectOnce

LEMMA SurfaceIInv == ASSUME IInv, NEW i \in Coordinators, Surface(i) PROVE IInv'
<1>1. TypeOK /\ Goto(i, "uncertain") /\ "uncertain" \in PCs
  BY DEF IInv, Surface, PCs
<1>2. TypeOK'
  BY <1>1, GotoFields DEF Surface, TypeOK
<1>3. LeasesUnique' /\ ClaimNames'
  BY <1>1, GotoFields DEF Surface, IInv, LeasesUnique, ClaimNames, Pending
<1>4. UncertainIsFenced'
  <2>1. claimed_by # 0 /\ claimed_by # owner_epoch
    BY DEF Surface, Owns
  <2>2. claimed_by <= owner_epoch
    BY DEF IInv, LeasesUnique
  <2> QED BY <2>1, <2>2 DEF Surface, IInv, TypeOK, UncertainIsFenced
<1> QED BY <1>2, <1>3, <1>4 DEF IInv, Surface, EffectOnce

LEMMA BeginEffectIInv == ASSUME IInv, NEW i \in Coordinators, BeginEffect(i) PROVE IInv'
<1>1. TypeOK /\ Goto(i, "effecting") /\ "effecting" \in PCs
  BY DEF IInv, BeginEffect, PCs
<1>2. TypeOK'
  BY <1>1, GotoFields DEF BeginEffect, TypeOK
<1>3. LeasesUnique' /\ ClaimNames'
  BY <1>1, GotoFields DEF BeginEffect, IInv, LeasesUnique, ClaimNames, Pending
<1> QED BY <1>2, <1>3 DEF IInv, BeginEffect, UncertainIsFenced, EffectOnce

LEMMA FinishEffectIInv == ASSUME IInv, NEW i \in Coordinators, FinishEffect(i) PROVE IInv'
<1>1. TypeOK /\ Goto(i, "done") /\ "done" \in PCs
  BY DEF IInv, FinishEffect, PCs
<1>2. claimed_by = c[i].epoch /\ c[i].epoch = owner_epoch /\ ~committed
  BY DEF FinishEffect, Owns, IInv, ClaimNames, Pending
<1>3. TypeOK'
  BY <1>1, GotoFields DEF FinishEffect, TypeOK
<1>4. LeasesUnique'
  BY <1>1, GotoFields DEF FinishEffect, IInv, LeasesUnique
<1>5. \A j \in Coordinators : ~Pending(j)'
  <2>1. \A j \in Coordinators : Pending(j) => j = i
    BY <1>2 DEF IInv, ClaimNames, LeasesUnique, Pending, FinishEffect
  <2> QED BY <1>1, <2>1, GotoFields DEF Pending
<1>6. UncertainIsFenced'
  <2>1. ~uncertain
    BY <1>2 DEF IInv, TypeOK, UncertainIsFenced
  <2> QED BY <2>1 DEF FinishEffect, UncertainIsFenced
<1>7. EffectOnce'
  BY <1>2 DEF FinishEffect, IInv, EffectOnce
<1> QED BY <1>3, <1>4, <1>5, <1>6, <1>7 DEF IInv, ClaimNames

LEMMA NextIInv == IInv /\ [Next]_vars => IInv'
<1> SUFFICES ASSUME IInv, [Next]_vars PROVE IInv'
  OBVIOUS
<1>1. CASE UNCHANGED vars
  BY <1>1 DEF vars, IInv, TypeOK, LeasesUnique, ClaimNames, Pending, UncertainIsFenced, EffectOnce
<1>2. ASSUME NEW i \in Coordinators, Crash(i) PROVE IInv'
  BY <1>2, CrashIInv
<1>3. ASSUME NEW i \in Coordinators, Acquire(i) PROVE IInv'
  BY <1>3, AcquireIInv
<1>4. ASSUME NEW i \in Coordinators, Fenced(i) \/ Dedup(i) \/ BackOff(i) PROVE IInv'
  <2>1. {"stale", "done"} \subseteq PCs \ {"start", "claimed", "effecting"}
    BY DEF PCs
  <2> QED BY <1>4, <2>1, QuietIInv DEF Fenced, Dedup, BackOff
<1>5. ASSUME NEW i \in Coordinators, Transact(i) PROVE IInv'
  BY <1>5, TransactIInv
<1>6. ASSUME NEW i \in Coordinators, Claim(i) PROVE IInv'
  BY <1>6, ClaimIInv
<1>7. ASSUME NEW i \in Coordinators, Surface(i) PROVE IInv'
  BY <1>7, SurfaceIInv
<1>8. ASSUME NEW i \in Coordinators, BeginEffect(i) PROVE IInv'
  BY <1>8, BeginEffectIInv
<1>9. ASSUME NEW i \in Coordinators, FinishEffect(i) PROVE IInv'
  BY <1>9, FinishEffectIInv
<1> QED
BY <1>1, <1>2, <1>3, <1>4, <1>5, <1>6, <1>7, <1>8, <1>9 DEF Next

\* The inductive invariant holds in every reachable state of dmodel.py's machine.
THEOREM IInvSafe == Spec => []IInv
BY InitIInv, NextIInv, PTL DEF Spec

\* I1 and I4 of dmodel.py: the effect is durable exactly when the action is
\* recorded, and once, whatever crashes and takeovers happened in between.
THEOREM EffectOnceSafe == Spec => []EffectOnce
<1>1. IInv => EffectOnce
  BY DEF IInv
<1> QED BY <1>1, IInvSafe, PTL

\* A claim admits one coordinator to the effect, for every number of them: the
\* claim keeps the epoch of its owner, and an epoch has one owner.
THEOREM ClaimIsExclusiveSafe == Spec => []ClaimIsExclusive
<1>1. IInv => ClaimIsExclusive
  BY DEF IInv, ClaimNames, LeasesUnique, Pending, ClaimIsExclusive, PCs
<1> QED BY <1>1, IInvSafe, PTL

\* I3: after UNCERTAIN nobody commits, because the claimant's lease is over and
\* its claim is never taken back.
THEOREM UncertainIsFinalSafe == Spec => []UncertainIsFinal
<1>1. IInv => UncertainIsFinal
  BY DEF IInv, UncertainIsFenced, UncertainIsFinal
<1> QED BY <1>1, IInvSafe, PTL
=============================================================================
