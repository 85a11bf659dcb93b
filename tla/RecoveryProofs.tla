--------------------------- MODULE RecoveryProofs ---------------------------
(***************************************************************************)
(* Theorems about Coordinator and RecoveryCoordinator, for any plan, any   *)
(* classes of its tools and any number of crashes, recoveries and          *)
(* neighbours.  They rest on the invariants of the two parts: GwInv of the *)
(* Gateway and StoreInv of the KV store.                                   *)
(***************************************************************************)
EXTENDS RecoveryCoordinator, GatewayProofs, KVViewProofs

CoState == [pc : {"down", "begin", "next", "call", "wait"}, ord : 0 .. N]
\* The classes whose call returns only once the effect is committed.
Exact(k) == klass[k] \notin {"compensatable", "irreversible"}

\* run_turn is at an action of the plan, and the gateway works on that one.
PlaceInv ==
    /\ co \in CoState
    /\ co.pc \in {"call", "wait"} => co.ord < N
    /\ co.pc # "wait" => g.pc = "idle"
    /\ g.pc # "idle" => g.key = co.ord /\ g.fp = Fp
\* All attempts pass the one fingerprint, so no row has another one.
OneFp == \A k \in Keys : row[k] # None => row[k].fp = Fp
\* A call that has returned was answered.
Answered == (co.pc = "wait" /\ g.pc = "idle" /\ Exact(co.ord)) => Recorded(co.ord)
\* What the WAL has of the turn.
WalInv ==
    /\ wal \in Seq([type : Types, key : Keys \cup {None}])
    /\ \A k \in Keys : Observed(k) /\ Exact(k) => Recorded(k)
    /\ co.pc # "down" => \A k \in Keys : k < co.ord => Observed(k)
    /\ ClosedIsComplete /\ ObservedInOrder

CoInv == GwInv /\ PlaceInv /\ OneFp /\ Answered /\ WalInv

\* Between run_turn and the snapshot the turn is closed.
RcState == [op : {"none", "commit", "recover"}, pc : {"idle", "run", "restore", "snapshot"}]
SnapshotInv ==
    /\ rc \in RcState /\ (rc.pc # "run" => co.pc = "down")
    /\ (rc.pc = "snapshot" \/ (rc.pc = "run" /\ co.pc = "down")) => Has("TURN_COMMITTED")
    /\ SnapshotOfCommittedTurn
RcInv == CoInv /\ StoreInv /\ SnapshotInv
-----------------------------------------------------------------------------
(***************************************************************************)
(* What a step of the gateway means to its caller.                         *)
(***************************************************************************)
\* The call moves on, or it is over.
LEMMA CallMoves ==
    ASSUME GwInv, GwStep
    PROVE  /\ g.pc # "idle" /\ g.key \in Keys /\ g.fp \in Args /\ klass' = klass
           /\ g' = Idle \/ (g'.pc # "idle" /\ g'.key = g.key /\ g'.fp = g.fp)
<1>1. g.pc # "idle" /\ klass' = klass
  BY DEF GwStep, Mismatch, DedupHit, AlreadyCompensated, Uncertain, Compensate, RecordCompensated, Proceed,
         Transact, Intend, Start, Read, Publish, Act, Send, Reply, Commit, Committed, At
<1>2. ASSUME NEW pc \in {"seen", "tx", "intent", "start", "effect", "await", "record", "undone", "done"},
             Goto(pc)
      PROVE  g'.pc # "idle" /\ g'.key = g.key /\ g'.fp = g.fp
  BY <1>2, GotoFields DEF GwInv
<1>3. ASSUME NEW status, Return(status) PROVE g' = Idle
  BY <1>3 DEF Return
<1> DEFINE Over == g' = Idle
           Moved == g'.pc # "idle" /\ g'.key = g.key /\ g'.fp = g.fp
<1>4. Mismatch => Over
  BY DEF Mismatch
<1>5. DedupHit \/ AlreadyCompensated \/ Uncertain \/ RecordCompensated \/ Committed => Over
  BY <1>3 DEF DedupHit, AlreadyCompensated, Uncertain, RecordCompensated, Committed
<1>6. Proceed \/ Intend => Moved
  BY <1>2 DEF Proceed, Intend
<1>7. Compensate \/ Transact \/ Start \/ Read \/ Publish \/ Act \/ Send \/ Reply \/ Commit => Moved
  BY <1>2 DEF Compensate, Transact, Start, Read, Publish, Act, Send, Reply, Commit
<1>8. g.key \in Keys /\ g.fp \in Args
  BY <1>1 DEF GwInv, CallInv
<1> QED BY <1>1, <1>4, <1>5, <1>6, <1>7, <1>8 DEF GwStep

\* What it writes is the row of its own action, and not over 'committed'.
LEMMA RowWrite ==
    ASSUME GwInv, GwStep
    PROVE  \/ row' = row
           \/ \E status \in {"prepared", "effect_started", "committed", "compensated"} :
                  Record(status) /\ (status = "committed" \/ ~Recorded(g.key))
<1>1. CASE RecordCompensated
  BY <1>1 DEF RecordCompensated, At, GwInv, CallInv, Is, Recorded
<1>2. CASE Intend
  BY <1>2 DEF Intend, At, GwInv, CallInv, Seen, Recorded
<1>3. CASE Start
  BY <1>3 DEF Start, At, GwInv, CallInv, Seen, Recorded
<1>4. CASE Transact \/ Commit
  BY <1>4 DEF Transact, Commit
<1>5. CASE Mismatch \/ DedupHit \/ AlreadyCompensated \/ Uncertain \/ Compensate \/ Proceed
  BY <1>5 DEF Mismatch, DedupHit, AlreadyCompensated, Uncertain, Compensate, Proceed
<1>6. CASE Read \/ Publish \/ Act \/ Send \/ Reply \/ Committed
  BY <1>6 DEF Read, Publish, Act, Send, Reply, Committed
<1> QED BY <1>1, <1>2, <1>3, <1>4, <1>5, <1>6 DEF GwStep

\* Committed rows stay, and every row has the fingerprint of the one plan.
LEMMA RowsKept ==
    ASSUME GwInv, GwStep, OneFp, g.fp = Fp
    PROVE  OneFp' /\ \A k \in Keys : Recorded(k) => Recorded(k)'
<1>1. CASE row' = row
  BY <1>1 DEF OneFp, Recorded
<1>2. ASSUME NEW status \in {"prepared", "effect_started", "committed", "compensated"},
             Record(status), status = "committed" \/ ~Recorded(g.key)
      PROVE  OneFp' /\ \A k \in Keys : Recorded(k) => Recorded(k)'
  <2>1. g.key \in Keys /\ g.fp \in Args
    BY CallMoves
  <2>2. /\ row'[g.key] # None /\ row'[g.key].status = status
        /\ row'[g.key].fp = IF row[g.key] = None THEN g.fp ELSE row[g.key].fp
        /\ \A k \in Keys : k # g.key => row'[k] = row[k]
    BY <1>2, <2>1, RecordFields DEF GwInv
  <2> QED BY <1>2, <2>1, <2>2 DEF OneFp, Recorded
<1> QED BY <1>1, <1>2, RowWrite

\* A call of a class that is exactly once, with the args of the row if there is
\* one, is answered when its action is committed.
LEMMA CallAnswers ==
    ASSUME GwInv, GwStep, OneFp, g.fp = Fp, g'.pc = "idle", Exact(g.key)
    PROVE  Recorded(g.key) /\ row' = row
<1>1. g.key \in Keys /\ KeyInv(g.key) /\ klass[g.key] \in Classes
  BY CallMoves DEF GwInv, KeysInv, TypeOK
<1>2. ~Mismatch
  BY <1>1 DEF Mismatch, OneFp
<1>3. CASE DedupHit
  BY <1>3 DEF DedupHit, Seen, Recorded
<1>4. ~AlreadyCompensated
  BY <1>1 DEF AlreadyCompensated, Seen, KeyInv, Is, Exact, Classes
<1>5. ~Uncertain
  BY DEF Uncertain, Class, Exact
<1>6. ~RecordCompensated
  BY DEF RecordCompensated, At, GwInv, CallInv, Class, Exact
<1>7. CASE Committed
  BY <1>7 DEF Committed, At, GwInv, CallInv, Is, Recorded
<1>8. ASSUME NEW pc \in {"seen", "tx", "intent", "start", "effect", "await", "record", "undone", "done"},
             Goto(pc)
      PROVE  FALSE
  BY <1>8, GotoFields DEF GwInv
<1>9. ~Proceed /\ ~Intend
  BY <1>8 DEF Proceed, Intend
<1>10. ~Compensate /\ ~Transact /\ ~Start /\ ~Read /\ ~Publish /\ ~Act /\ ~Send /\ ~Reply /\ ~Commit
  BY <1>8 DEF Compensate, Transact, Start, Read, Publish, Act, Send, Reply, Commit
<1> QED BY <1>2, <1>3, <1>4, <1>5, <1>6, <1>7, <1>9, <1>10 DEF GwStep, DedupHit, Committed
-----------------------------------------------------------------------------
(***************************************************************************)
(* The WAL only grows.                                                     *)
(***************************************************************************)
WalType == Seq([type : Types, key : Keys \cup {None}])

LEMMA LogGrows ==
    ASSUME wal \in WalType, NEW type \in Types, NEW key \in Keys \cup {None}, Log(type, key)
    PROVE  /\ wal' \in WalType
           /\ \A k \in Keys : Observed(k)' <=> (Observed(k) \/ (type = "OBSERVATION_COMMITTED" /\ key = k))
           /\ \A t \in Types : Has(t)' <=> (Has(t) \/ t = type)
<1> DEFINE rec == Rec(type, key)
<1>1. rec \in [type : Types, key : Keys \cup {None}] /\ rec.type = type /\ rec.key = key
  BY DEF Rec
<1>2. wal' = Append(wal, rec)
  BY DEF Log
<1> HIDE DEF rec
<1>3. /\ wal' \in WalType /\ Len(wal') = Len(wal) + 1 /\ Len(wal) \in Nat /\ wal'[Len(wal) + 1] = rec
      /\ \A i \in 1 .. Len(wal) : wal'[i] = wal[i]
  BY <1>1, <1>2 DEF WalType
<1>4. DOMAIN wal = 1 .. Len(wal) /\ DOMAIN wal' = 1 .. Len(wal')
  BY <1>3 DEF WalType
<1>5. 1 .. Len(wal') = 1 .. Len(wal) \cup {Len(wal) + 1}
  BY <1>3
<1>6. ASSUME NEW k \in Keys
      PROVE  Observed(k)' <=> (Observed(k) \/ (type = "OBSERVATION_COMMITTED" /\ key = k))
  <2>1. rec = Rec("OBSERVATION_COMMITTED", k) <=> (type = "OBSERVATION_COMMITTED" /\ key = k)
    BY <1>1 DEF Rec, rec
  <2> QED BY <1>3, <1>5, <2>1 DEF Observed, Contains
<1>7. ASSUME NEW t \in Types PROVE Has(t)' <=> (Has(t) \/ t = type)
  BY <1>1, <1>3, <1>4, <1>5 DEF Has
<1> QED BY <1>3, <1>6, <1>7

\* begin_turn and commit_turn of the WAL: a record that is there is not repeated.
LEMMA OnceGrows ==
    ASSUME wal \in WalType, NEW type \in {"BEGIN_TURN", "TURN_COMMITTED"}, AppendOnce(type)
    PROVE  /\ wal' \in WalType /\ \A k \in Keys : Observed(k)' <=> Observed(k)
           /\ \A t \in Types : Has(t)' <=> (Has(t) \/ t = type)
<1>1. CASE Has(type)
  BY <1>1 DEF AppendOnce, Observed, Has
<1>2. CASE ~Has(type)
  <2>1. Log(type, None) /\ type \in Types
    BY <1>2 DEF AppendOnce, Types
  <2> QED BY <2>1, LogGrows
<1> QED BY <1>1, <1>2
-----------------------------------------------------------------------------
(***************************************************************************)
(* run_turn, step by step.                                                 *)
(***************************************************************************)
LEMMA CoFields ==
    ASSUME PlaceInv
    PROVE  /\ co.pc \in {"down", "begin", "next", "call", "wait"} /\ co.ord \in 0 .. N
           /\ N \in Nat \ {0} /\ Keys = 0 .. N - 1 /\ Fp \in Args
BY CoordinatorAssumption DEF PlaceInv, CoState

\* The gateway and the WAL are as they were: run_turn starts, moves on or ends.
LEMMA QuietCoInv ==
    ASSUME CoInv, UNCHANGED <<gwVars, wal>>, PlaceInv',
           co' = co \/ (co'.pc # "wait" /\ co'.ord = 0)
    PROVE  CoInv'
<1>1. UNCHANGED <<klass, row, g, ran>>
  BY DEF gwVars, world
<1>2. GwInv'
  BY NextGwInv DEF CoInv
<1>3. OneFp' /\ Answered'
  BY <1>1 DEF CoInv, OneFp, Answered, Recorded, Exact
<1>4. WalInv'
  <2>1. \A k \in Keys : (Observed(k)' <=> Observed(k)) /\ (Recorded(k)' <=> Recorded(k))
                        /\ (Exact(k)' <=> Exact(k))
    BY <1>1 DEF Observed, Recorded, Exact
  <2>2. ClosedIsComplete' /\ ObservedInOrder'
    BY DEF CoInv, WalInv, ClosedIsComplete, ObservedInOrder, Has, Observed
  <2>3. co'.pc # "down" => \A k \in Keys : k < co'.ord => Observed(k)
    <3>1. \A k \in Keys : ~(k < 0)
      BY CoFields DEF CoInv
    <3> QED BY <3>1 DEF CoInv, WalInv
  <2> QED BY <2>1, <2>2, <2>3 DEF CoInv, WalInv
<1> QED BY <1>2, <1>3, <1>4 DEF CoInv

LEMMA StartCoInv ==
    ASSUME CoInv, co' = [pc |-> "begin", ord |-> 0], co.pc # "wait", UNCHANGED <<gwVars, wal>>
    PROVE  CoInv'
<1>1. g.pc = "idle" /\ g' = g /\ co'.pc = "begin" /\ co'.ord = 0
  BY DEF CoInv, PlaceInv, gwVars
<1>2. PlaceInv'
  BY <1>1, CoFields DEF CoInv, PlaceInv, CoState
<1> QED BY <1>1, <1>2, QuietCoInv

\* The process dies, wherever it was, and what it was doing in memory is lost.
LEMMA StopCoInv ==
    ASSUME CoInv, co' = [co EXCEPT !.pc = "down"], g' = Idle,
           UNCHANGED <<klass, row, world, calls, answers, wal>>
    PROVE  CoInv'
<1>1. co' \in CoState /\ co'.pc = "down" /\ co'.ord = co.ord
  BY CoFields DEF CoInv, PlaceInv, CoState
<1>2. GwInv'
  BY SilentEndGwInv DEF CoInv
<1>3. PlaceInv'
  BY <1>1, IdleFields DEF CoInv, PlaceInv
<1>4. OneFp' /\ Answered'
  BY <1>1 DEF CoInv, OneFp, Answered
<1>5. WalInv'
  BY <1>1 DEF CoInv, WalInv, Observed, Recorded, Exact, ClosedIsComplete, ObservedInOrder, Has
<1> QED BY <1>2, <1>3, <1>4, <1>5 DEF CoInv

\* A request is served, of this attempt or of an earlier one.
LEMMA ServeCoInv == ASSUME CoInv, Service, UNCHANGED <<wal, co>> PROVE CoInv'
<1>1. UNCHANGED <<klass, row, g>>
  BY DEF Service, Serve
<1>2. GwInv'
  BY NextGwInv DEF CoInv, GwNext
<1>3. PlaceInv' /\ OneFp' /\ Answered'
  BY <1>1 DEF CoInv, PlaceInv, OneFp, Answered, Recorded, Exact
<1>4. WalInv'
  BY <1>1 DEF CoInv, WalInv, Observed, Recorded, Exact, ClosedIsComplete, ObservedInOrder, Has
<1> QED BY <1>2, <1>3, <1>4 DEF CoInv

LEMMA InvokeCoInv == ASSUME CoInv, Invoke PROVE CoInv'
<1>1. /\ co.pc = "call" /\ co.ord < N /\ co.ord \in Keys /\ Fp \in Args
      /\ co' \in CoState /\ co'.pc = "wait" /\ co'.ord = co.ord
  BY CoFields DEF Invoke, CoGoto, CoInv, PlaceInv, CoState
<1>2. Call(co.ord, Fp) /\ wal' = wal
  BY DEF Invoke
<1>3. /\ g'.pc = "seen" /\ g'.key = co.ord /\ g'.fp = Fp /\ UNCHANGED <<klass, row>>
  BY <1>2 DEF Call
<1>4. GwInv'
  BY <1>1, <1>2, NextGwInv DEF CoInv, GwNext
<1>5. PlaceInv' /\ OneFp' /\ Answered'
  BY <1>1, <1>3 DEF CoInv, PlaceInv, OneFp, Answered
<1>6. WalInv'
  BY <1>1, <1>2, <1>3 DEF CoInv, WalInv, Observed, Recorded, Exact, ClosedIsComplete, ObservedInOrder, Has
<1> QED BY <1>4, <1>5, <1>6 DEF CoInv

\* A step of the gateway: when it is the last of the call, the action is
\* committed if its class is exactly once.
LEMMA MechanismCoInv == ASSUME CoInv, Mechanism PROVE CoInv'
<1>1. co.pc = "wait" /\ GwStep /\ wal' = wal /\ co' = co
  BY DEF Mechanism
<1>2. /\ g.pc # "idle" /\ g.key = co.ord /\ g.fp = Fp /\ klass' = klass /\ g.key \in Keys
      /\ g' = Idle \/ (g'.pc # "idle" /\ g'.key = g.key /\ g'.fp = g.fp)
  BY <1>1, CallMoves DEF CoInv, PlaceInv
<1>3. GwInv'
  BY <1>1, NextGwInv DEF CoInv, GwNext
<1>4. PlaceInv'
  BY <1>1, <1>2, IdleFields DEF CoInv, PlaceInv
<1>5. OneFp' /\ \A k \in Keys : Recorded(k) => Recorded(k)'
  BY <1>1, <1>2, RowsKept DEF CoInv
<1>6. Answered'
  <2> SUFFICES ASSUME g'.pc = "idle", Exact(co.ord) PROVE Recorded(co.ord)'
    BY <1>1, <1>2 DEF Answered, Exact
  <2>1. Recorded(g.key)
    BY <1>1, <1>2, CallAnswers DEF CoInv
  <2> QED BY <1>1, <1>2, <1>5, <2>1 DEF Recorded
<1>7. WalInv'
  BY <1>1, <1>2, <1>5 DEF CoInv, WalInv, Observed, Exact, ClosedIsComplete, ObservedInOrder, Has
<1> QED BY <1>3, <1>4, <1>5, <1>6, <1>7 DEF CoInv

\* A record about the turn, or of an intent, says nothing of observations.
LEMMA GrowCoInv ==
    ASSUME CoInv, UNCHANGED gwVars, co.pc \in {"begin", "next"},
           wal' \in WalType, \A k \in Keys : Observed(k)' <=> Observed(k),
           Has("TURN_COMMITTED")' => Has("TURN_COMMITTED") \/ (co.pc = "next" /\ co.ord = N),
           NEW pc \in {"next", "call", "down"}, pc = "call" => co.ord < N,
           co' = [co EXCEPT !.pc = pc]
    PROVE  CoInv'
<1>1. UNCHANGED <<klass, row, g, ran>>
  BY DEF gwVars, world
<1>2. co' \in CoState /\ co'.pc = pc /\ co'.ord = co.ord
  BY DEF CoInv, PlaceInv, CoState
<1>3. GwInv'
  BY NextGwInv DEF CoInv
<1>4. PlaceInv' /\ OneFp' /\ Answered'
  BY <1>1, <1>2 DEF CoInv, PlaceInv, OneFp, Answered
<1>5. \A k \in Keys : (Exact(k)' <=> Exact(k)) /\ (Recorded(k)' <=> Recorded(k))
  BY <1>1 DEF Exact, Recorded
<1>6. \A k \in Keys : k < co.ord => Observed(k)
  BY DEF CoInv, WalInv
<1>7. ClosedIsComplete'
  <2>1. ASSUME co.ord = N, NEW k \in Keys PROVE Observed(k)
    BY <1>6, <2>1, CoFields DEF CoInv
  <2> QED BY <2>1 DEF CoInv, WalInv, ClosedIsComplete
<1>8. ObservedInOrder'
  <2>1. \A k \in Keys : \A j \in 0 .. k : j \in Keys
    BY CoFields DEF CoInv
  <2> QED BY <2>1 DEF CoInv, WalInv, ObservedInOrder
<1>9. WalInv'
  BY <1>2, <1>5, <1>6, <1>7, <1>8 DEF CoInv, WalInv, WalType
<1> QED BY <1>3, <1>4, <1>9 DEF CoInv

LEMMA RecordCoInv == ASSUME CoInv, Begin \/ Prepare \/ Close PROVE CoInv'
<1>1. wal \in WalType /\ "TURN_COMMITTED" \in Types /\ None \in Keys \cup {None}
  BY DEF CoInv, WalInv, WalType, Types
<1>2. CASE Begin
  <2>1. co.pc = "begin" /\ co' = [co EXCEPT !.pc = "next"] /\ UNCHANGED gwVars
        /\ AppendOnce("BEGIN_TURN")
    BY <1>2 DEF Begin, CoGoto
  <2> QED BY <1>1, <2>1, OnceGrows, GrowCoInv
<1>3. CASE Prepare
  <2>1. co.pc = "next" /\ co.ord < N /\ co' = [co EXCEPT !.pc = "call"] /\ UNCHANGED gwVars
        /\ Log("ACTION_PREPARED", None) /\ "ACTION_PREPARED" \in Types
    BY <1>3 DEF Prepare, CoGoto, Types
  <2> QED BY <1>1, <2>1, LogGrows, GrowCoInv
<1>4. CASE Close
  <2>1. co.pc = "next" /\ co.ord = N /\ co' = [co EXCEPT !.pc = "down"] /\ UNCHANGED gwVars
        /\ AppendOnce("TURN_COMMITTED")
    BY <1>4 DEF Close, CoGoto
  <2> QED BY <1>1, <2>1, OnceGrows, GrowCoInv
<1> QED BY <1>2, <1>3, <1>4

\* The observation of an action is logged after its call, and in plan order.
LEMMA ObserveCoInv == ASSUME CoInv, Observe PROVE CoInv'
<1>1. /\ co.pc = "wait" /\ g.pc = "idle" /\ co.ord < N /\ co.ord \in Keys
      /\ co.ord + 1 \in 0 .. N /\ Keys = 0 .. N - 1 /\ N \in Nat
  BY CoFields DEF Observe, At, CoInv, PlaceInv
<1>2. co' \in CoState /\ co'.pc = "next" /\ co'.ord = co.ord + 1 /\ UNCHANGED <<klass, row, g>>
  BY <1>1 DEF Observe, CoState, gwVars
<1>3. /\ wal' \in WalType
      /\ \A k \in Keys : Observed(k)' <=> (Observed(k) \/ k = co.ord)
      /\ Has("TURN_COMMITTED")' <=> Has("TURN_COMMITTED")
  <2>1. wal \in WalType /\ {"OBSERVATION_COMMITTED", "TURN_COMMITTED"} \subseteq Types
    BY DEF CoInv, WalInv, WalType, Types
  <2>2. Log("OBSERVATION_COMMITTED", co.ord)
    BY DEF Observe
  <2> QED BY <1>1, <2>1, <2>2, LogGrows
<1>4. GwInv'
  <2>1. UNCHANGED gwVars
    BY DEF Observe
  <2> QED BY <2>1, NextGwInv DEF CoInv
<1>5. PlaceInv' /\ OneFp' /\ Answered'
  BY <1>1, <1>2 DEF CoInv, PlaceInv, OneFp, Answered
<1>6. Exact(co.ord) => Recorded(co.ord)
  BY <1>1 DEF CoInv, Answered
<1>7. \A k \in Keys : (Exact(k)' <=> Exact(k)) /\ (Recorded(k)' <=> Recorded(k))
  BY <1>2 DEF Exact, Recorded
<1>8. \A k \in Keys : k < co.ord => Observed(k)
  BY <1>1 DEF CoInv, WalInv
<1>9. ClosedIsComplete'
  BY <1>3 DEF CoInv, WalInv, ClosedIsComplete
<1>10. ObservedInOrder'
  <2> SUFFICES ASSUME NEW k \in Keys, Observed(k)', NEW j \in 0 .. k PROVE Observed(j)'
    BY DEF ObservedInOrder
  <2>1. j \in Keys
    BY <1>1
  <2>2. CASE Observed(k)
    BY <1>3, <2>1, <2>2 DEF CoInv, WalInv, ObservedInOrder
  <2>3. CASE k = co.ord
    <3>1. j < co.ord \/ j = co.ord
      BY <1>1, <2>3
    <3> QED BY <1>3, <1>8, <2>1, <3>1
  <2> QED BY <1>3, <2>2, <2>3
<1>11. \A k \in Keys : k < co'.ord => Observed(k)'
  <2> SUFFICES ASSUME NEW k \in Keys, k < co.ord + 1 PROVE Observed(k)'
    BY <1>2
  <2>1. k < co.ord \/ k = co.ord
    BY <1>1
  <2> QED BY <1>3, <1>8, <2>1
<1>12. WalInv'
  BY <1>3, <1>6, <1>7, <1>9, <1>10, <1>11 DEF CoInv, WalInv, WalType
<1> QED BY <1>4, <1>5, <1>12 DEF CoInv

LEMMA CoordinateCoInv == ASSUME CoInv, Coordinate PROVE CoInv'
BY RecordCoInv, InvokeCoInv, MechanismCoInv, ObserveCoInv DEF Coordinate

LEMMA InitCoInv == CoInit => CoInv
<1> SUFFICES ASSUME CoInit PROVE CoInv
  OBVIOUS
<1>1. GwInv /\ g.pc = "idle" /\ \A k \in Keys : row[k] = None
  BY InitGwInv, IdleFields DEF CoInit, GwInit
<1>2. co \in CoState /\ co.pc = "down" /\ co.ord = 0
  BY CoordinatorAssumption DEF CoInit, CoState
<1>3. wal = <<>> /\ Len(wal) = 0 /\ DOMAIN wal = {}
  BY DEF CoInit
<1>4. ~Has("TURN_COMMITTED") /\ \A k : ~Observed(k)
  BY <1>3 DEF Has, Observed, Contains
<1>5. WalInv
  BY <1>2, <1>3, <1>4 DEF WalInv, ClosedIsComplete, ObservedInOrder
<1> QED BY <1>1, <1>2, <1>5 DEF CoInv, PlaceInv, OneFp, Answered

LEMMA CoNextCoInv == ASSUME CoInv, [CoNext]_coVars PROVE CoInv'
<1>1. CASE Boot
  BY <1>1, StartCoInv DEF Boot
<1>2. CASE Die
  BY <1>2, StopCoInv DEF Die
<1>3. CASE CoServe
  BY <1>3, ServeCoInv DEF CoServe
<1>4. CASE UNCHANGED coVars
  <2>1. UNCHANGED <<gwVars, wal, co>>
    BY <1>4 DEF coVars
  <2>2. PlaceInv'
    BY <2>1 DEF CoInv, PlaceInv, gwVars
  <2> QED BY <2>1, <2>2, QuietCoInv
<1> QED BY <1>1, <1>2, <1>3, <1>4, CoordinateCoInv DEF CoNext

\* What CoInv says of every state, in the words of Coordinator's invariants.
LEMMA CoPromises == CoInv => ObservedIsCommitted /\ ClosedIsComplete /\ ObservedInOrder
<1>1. ASSUME CoInv, NEW k \in Keys, Observed(k), Exact(k)
      PROVE  Recorded(k) /\ (klass[k] # "pure" => ran[k] = 1)
  <2>1. Recorded(k) /\ KeyInv(k)
    BY <1>1 DEF CoInv, WalInv, GwInv, KeysInv
  <2> QED BY <2>1 DEF KeyInv, Recorded, Is
<1>2. CoInv => ObservedIsCommitted
  BY <1>1 DEF ObservedIsCommitted, Exact
<1>3. CoInv => ClosedIsComplete /\ ObservedInOrder
  BY DEF CoInv, WalInv
<1> QED BY <1>2, <1>3
-----------------------------------------------------------------------------
(***************************************************************************)
(* The Recovery Coordinator: what each of its steps is to the two parts.   *)
(***************************************************************************)
\* The answer of a restore goes with its caller; the store does not notice.
LEMMA ForgetExact ==
    ASSUME StoreInv, Forget PROVE answer' \in AnswerType /\ RestoredIsExact'
<1>1. Main \in Workers
  BY RecoveryAssumption
<1>2. NoAnswer \in [prov : Provs \cup {NoManifest}, m : Manifest \cup {NoManifest},
                    got : Seq(Blocks \X File), reason : Reasons] /\ NoAnswer.reason # ""
  BY DEF NoAnswer, Reasons
<1>3. /\ answer' \in AnswerType /\ answer'[Main] = NoAnswer
      /\ \A v \in Workers : v # Main => answer'[v] = answer[v]
  BY <1>1, <1>2 DEF Forget, StoreInv, KvTypeOK, AnswerType
<1>4. \A v \in Workers : answer'[v].reason = "" => answer'[v] = answer[v]
  BY <1>2, <1>3
<1>5. RestoredIsExact'
  BY <1>4 DEF StoreInv, RestoredIsExact
<1> QED BY <1>3, <1>5

LEMMA ReturnStoreInv ==
    ASSUME StoreInv, Forget, UNCHANGED <<files, manifest, kw, faults, spoiled>> PROVE StoreInv'
<1>1. answer' \in AnswerType /\ RestoredIsExact'
  BY ForgetExact
<1>2. KvTypeOK'
  BY <1>1 DEF StoreInv, KvTypeOK, AnswerType, files
<1>3. PutInv' /\ GetInv'
  BY DEF StoreInv, PutInv, GetInv, Fine, files
<1>4. SoleWriter' /\ ManifestsFine'
  BY DEF StoreInv, SoleWriter, HasOpen, Here, ManifestsFine, Fine, files
<1> QED BY <1>1, <1>2, <1>3, <1>4 DEF StoreInv

LEMMA DieStoreInv ==
    ASSUME StoreInv, Forget, kw' = [kw EXCEPT ![Main] = KvIdle],
           UNCHANGED <<files, manifest, faults, spoiled>>
    PROVE  StoreInv'
<1>1. Main \in Workers /\ KvIdle.fd = "closed"
  BY RecoveryAssumption DEF KvIdle
<1>2. answer' \in AnswerType /\ RestoredIsExact'
  BY ForgetExact
<1>3. manifest' \in [Workers -> Manifest \cup {NoManifest}] /\ ManifestsFine'
  BY DEF StoreInv, KvTypeOK, ManifestsFine, Fine, files
<1> QED BY <1>1, <1>2, <1>3, IdleIsGood, MoveStoreInv DEF files

\* Every other step of a turn, its KV or a neighbour is one of the store's own.
LEMMA RcStoreInv == ASSUME StoreInv, [RcNext]_rcVars PROVE StoreInv'
<1>1. Main \in Workers /\ Engine \in Provs /\ Engines \subseteq Provs /\ Others \subseteq Workers
  BY RecoveryAssumption DEF Engines, Others
<1>2. CASE [KvNext]_kvVars
  BY <1>2, NextStoreInv
<1>3. CASE CommitTurn \/ Rerun \/ RunTurn \/ RcServe
  BY <1>2, <1>3 DEF CommitTurn, Rerun, RunTurn, RcServe
<1>4. ASSUME NEW p \in Engines, RecoverTurn(p) PROVE StoreInv'
  BY <1>1, <1>2, <1>4 DEF RecoverTurn, KvNext
<1>5. CASE Fetching \/ TakeSnapshot \/ Putting
  BY <1>1, <1>2, <1>5 DEF Fetching, TakeSnapshot, Putting, KvNext
<1>6. CASE RcReturn
  BY <1>6, ReturnStoreInv DEF RcReturn
<1>7. CASE RcDie
  BY <1>7, DieStoreInv DEF RcDie
<1>8. CASE Neighbour
  BY <1>1, <1>2, <1>8 DEF Neighbour, KvNext
<1>9. CASE UNCHANGED rcVars
  BY <1>2, <1>9 DEF rcVars
<1> QED BY <1>3, <1>4, <1>5, <1>6, <1>7, <1>8, <1>9 DEF RcNext, RcStart, RcStep

\* run_turn leaves the turn closed, and never reopens it.
LEMMA Closes ==
    ASSUME CoInv, Coordinate
    PROVE  /\ Has("TURN_COMMITTED") => Has("TURN_COMMITTED")'
           /\ co'.pc = "down" => Has("TURN_COMMITTED")'
<1>1. wal \in WalType /\ {"ACTION_PREPARED", "OBSERVATION_COMMITTED", "TURN_COMMITTED"} \subseteq Types
      /\ None \in Keys \cup {None}
  BY DEF CoInv, WalInv, WalType, Types
<1>2. CASE Begin
  <2>1. AppendOnce("BEGIN_TURN") /\ co'.pc = "next"
    BY <1>2 DEF Begin, CoGoto, CoInv, PlaceInv, CoState
  <2> QED BY <1>1, <2>1, OnceGrows
<1>3. CASE Prepare
  <2>1. Log("ACTION_PREPARED", None) /\ co'.pc = "call"
    BY <1>3 DEF Prepare, CoGoto, CoInv, PlaceInv, CoState
  <2> QED BY <1>1, <2>1, LogGrows
<1>4. CASE Invoke
  <2>1. wal' = wal /\ co'.pc = "wait"
    BY <1>4 DEF Invoke, CoGoto, CoInv, PlaceInv, CoState
  <2> QED BY <2>1 DEF Has
<1>5. CASE Mechanism
  BY <1>5 DEF Mechanism, Has
<1>6. CASE Observe
  <2>1. Log("OBSERVATION_COMMITTED", co.ord) /\ co'.pc = "next" /\ co.ord \in Keys \cup {None}
    BY <1>6, CoFields DEF Observe, CoInv, PlaceInv
  <2> QED BY <1>1, <2>1, LogGrows
<1>7. CASE Close
  BY <1>1, <1>7, OnceGrows DEF Close
<1> QED BY <1>2, <1>3, <1>4, <1>5, <1>6, <1>7 DEF Coordinate

LEMMA RcCoInv == ASSUME CoInv, SnapshotInv, [RcNext]_rcVars PROVE CoInv'
<1>1. CASE CommitTurn
  BY <1>1, StartCoInv DEF CommitTurn, Boot
<1>2. CASE Rerun
  BY <1>2, StartCoInv DEF Rerun, RcGoto, SnapshotInv
<1>3. CASE RunTurn
  BY <1>3, CoordinateCoInv DEF RunTurn
<1>4. CASE RcDie
  BY <1>4, StopCoInv DEF RcDie
<1>5. CASE RcServe
  BY <1>5, ServeCoInv DEF RcServe, CoServe
<1>6. ASSUME UNCHANGED <<gwVars, wal, co>> PROVE CoInv'
  <2>1. PlaceInv'
    BY <1>6 DEF CoInv, PlaceInv, gwVars
  <2> QED BY <1>6, <2>1, QuietCoInv
<1>7. ASSUME NEW p \in Engines, RecoverTurn(p) PROVE CoInv'
  BY <1>6, <1>7 DEF RecoverTurn
<1>8. CASE Fetching \/ TakeSnapshot \/ Putting \/ RcReturn \/ Neighbour
  BY <1>6, <1>8 DEF Fetching, TakeSnapshot, Putting, RcReturn, Neighbour, coVars
<1>9. CASE UNCHANGED rcVars
  BY <1>6, <1>9 DEF rcVars, coVars
<1> QED BY <1>1, <1>2, <1>3, <1>4, <1>5, <1>7, <1>8, <1>9 DEF RcNext, RcStart, RcStep

LEMMA RcSnapshotInv == ASSUME CoInv, StoreInv, SnapshotInv, [RcNext]_rcVars PROVE SnapshotInv'
<1>0. Main \in Workers /\ Others \subseteq Workers /\ Main \notin Others
  BY RecoveryAssumption DEF Others
<1>1. CASE CommitTurn
  <2>1. /\ rc' = [op |-> "commit", pc |-> "run"] /\ co'.pc = "begin"
        /\ UNCHANGED <<wal, manifest>>
    BY <1>1 DEF CommitTurn, Boot, kvVars
  <2> QED BY <2>1 DEF SnapshotInv, RcState, SnapshotOfCommittedTurn, Has
<1>2. ASSUME NEW p \in Engines, RecoverTurn(p) PROVE SnapshotInv'
  <2>1. /\ rc.pc = "idle" /\ rc' = [op |-> "recover", pc |-> "restore"]
        /\ UNCHANGED <<wal, co, manifest>>
    BY <1>2 DEF RecoverTurn, TryRestore, ManifestMissing, ProvenanceMismatch, Restore
  <2> QED BY <2>1 DEF SnapshotInv, RcState, SnapshotOfCommittedTurn, Has
<1>3. CASE Fetching
  <2>1. UNCHANGED <<wal, co, manifest, rc>>
    BY <1>3 DEF Fetching, coVars, Fetch, Get, GetFails, Restored
  <2> QED BY <2>1 DEF SnapshotInv, SnapshotOfCommittedTurn, Has
<1>4. CASE Rerun
  <2>1. rc' \in RcState /\ rc'.pc = "run" /\ co'.pc = "begin" /\ UNCHANGED <<wal, manifest>>
    BY <1>4 DEF Rerun, RcGoto, kvVars, SnapshotInv, RcState
  <2> QED BY <2>1 DEF SnapshotInv, SnapshotOfCommittedTurn, Has
<1>5. CASE RunTurn
  <2>1. rc.pc = "run" /\ Coordinate /\ UNCHANGED <<manifest, rc>>
    BY <1>5 DEF RunTurn, kvVars
  <2> QED BY <2>1, Closes DEF SnapshotInv, SnapshotOfCommittedTurn
<1>6. CASE TakeSnapshot
  <2>1. /\ rc.pc = "run" /\ co.pc = "down" /\ rc' \in RcState /\ rc'.pc = "snapshot"
        /\ UNCHANGED <<wal, co, manifest>>
    BY <1>6 DEF TakeSnapshot, RcGoto, Snapshot, coVars, SnapshotInv, RcState
  <2> QED BY <2>1 DEF SnapshotInv, SnapshotOfCommittedTurn, Has
<1>7. CASE Putting
  <2>1. rc.pc = "snapshot" /\ UNCHANGED <<wal, co, rc>>
    BY <1>7 DEF Putting, coVars
  <2> QED BY <2>1 DEF SnapshotInv, SnapshotOfCommittedTurn, Has
<1>8. CASE RcReturn
  <2>1. co.pc = "down" /\ rc' = RcIdle /\ UNCHANGED <<wal, co, manifest>>
    BY <1>8 DEF RcReturn, coVars, SnapshotInv
  <2> QED BY <2>1 DEF SnapshotInv, RcState, RcIdle, SnapshotOfCommittedTurn, Has
<1>9. CASE RcDie
  <2>1. co'.pc = "down" /\ rc' = RcIdle /\ UNCHANGED <<wal, manifest>>
    BY <1>9, CoFields DEF RcDie, CoInv, PlaceInv, CoState
  <2> QED BY <2>1 DEF SnapshotInv, RcState, RcIdle, SnapshotOfCommittedTurn, Has
<1>10. CASE Neighbour
  <2>1. UNCHANGED <<wal, co, rc>>
    BY <1>10 DEF Neighbour, coVars
  <2>2. manifest'[Main] = manifest[Main]
    <3>1. ASSUME NEW w \in Others, PutManifest(w) PROVE manifest'[Main] = manifest[Main]
      BY <1>0, <3>1 DEF PutManifest, StoreInv, KvTypeOK
    <3> QED BY <1>10, <3>1 DEF Neighbour, Snapshot, Put, PutDedup, PutNew, PutOpen, PutWrite, PutPublish,
                               PutRaises, KvDie, Fault, Corrupt, RemoveBlock
  <2> QED BY <2>1, <2>2 DEF SnapshotInv, SnapshotOfCommittedTurn, Has
<1>11. CASE RcServe \/ UNCHANGED rcVars
  <2>1. UNCHANGED <<wal, co, rc, manifest>>
    BY <1>11 DEF RcServe, CoServe, kvVars, rcVars, coVars
  <2> QED BY <2>1 DEF SnapshotInv, SnapshotOfCommittedTurn, Has
<1> QED
  BY <1>1, <1>2, <1>3, <1>4, <1>5, <1>6, <1>7, <1>8, <1>9, <1>10, <1>11 DEF RcNext, RcStart, RcStep

LEMMA RcInvAlways == RcSpec => []RcInv
<1>1. RcInit => RcInv
  <2> SUFFICES ASSUME RcInit PROVE RcInv
    OBVIOUS
  <2>1. CoInv /\ StoreInv
    BY InitCoInv, InitStoreInv DEF RcInit
  <2>2. SnapshotInv
    BY RecoveryAssumption
       DEF RcInit, CoInit, KvInit, RcIdle, SnapshotInv, RcState, SnapshotOfCommittedTurn
  <2> QED BY <2>1, <2>2 DEF RcInv
<1>2. RcInv /\ [RcNext]_rcVars => RcInv'
  BY RcCoInv, RcStoreInv, RcSnapshotInv DEF RcInv
<1> QED BY <1>1, <1>2, PTL DEF RcSpec
-----------------------------------------------------------------------------
(***************************************************************************)
(* What the runs check.                                                    *)
(***************************************************************************)
\* A Coordinator alone, as the harnesses of phases 3 and 4 run it:
\* what the WAL says of an action is durable, complete and in order.
THEOREM CoordinatorAlone ==
    CoSpec => [](ObservedIsCommitted /\ ClosedIsComplete /\ ObservedInOrder)
BY CoPromises, InitCoInv, CoNextCoInv, PTL DEF CoSpec

\* I2 for the classes that are exactly once: an observation in the WAL is of an
\* action that is committed and has happened, wherever the process died.
THEOREM NoGhost == RcSpec => []ObservedIsCommitted
<1>1. RcInv => ObservedIsCommitted
  BY CoPromises DEF RcInv
<1> QED BY <1>1, RcInvAlways, PTL

\* TURN_COMMITTED is never in the WAL of a turn with an unanswered action.
THEOREM ClosedComplete == RcSpec => []ClosedIsComplete
<1>1. RcInv => ClosedIsComplete
  BY CoPromises DEF RcInv
<1> QED BY <1>1, RcInvAlways, PTL

\* Observations keep the order of the plan across crashes and re-runs.
THEOREM ObservedOrder == RcSpec => []ObservedInOrder
<1>1. RcInv => ObservedInOrder
  BY CoPromises DEF RcInv
<1> QED BY <1>1, RcInvAlways, PTL

\* commit_turn snapshots what is durable: no manifest of an unfinished turn.
THEOREM SnapshotAfterCommit == RcSpec => []SnapshotOfCommittedTurn
<1>1. RcInv => SnapshotOfCommittedTurn
  BY DEF RcInv, SnapshotInv
<1> QED BY <1>1, RcInvAlways, PTL

\* In the composed system too, with a neighbour on the store and crashes in the
\* middle of a snapshot or a restore, RESTORED is exact and manifests are whole.
THEOREM KvPromises == RcSpec => [](RestoredIsExact /\ ManifestWhole)
<1>1. RcInv => RestoredIsExact /\ ManifestWhole
  BY DEF RcInv, StoreInv, ManifestsFine, Fine, ManifestWhole
<1> QED BY <1>1, RcInvAlways, PTL

\* The gateway's promises hold of a turn that crashes and is run again.
THEOREM GatewayPromises ==
    RcSpec => [](EffectAtMostOnce /\ SuccessIsReal /\ FailureIsFinal /\ IntentBeforeEffect
                 /\ ArgsOfEffect)
<1>1. RcInv => GwInv
  BY DEF RcInv, CoInv
<1> QED BY <1>1, GwPromises, RcInvAlways, PTL
=============================================================================
