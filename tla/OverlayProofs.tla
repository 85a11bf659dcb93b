---------------------------- MODULE OverlayProofs ----------------------------
(***************************************************************************)
(* Theorems about Overlay, for any number of coordinators, actions,        *)
(* takeovers and power losses: what do_overlay's rename and directory sync *)
(* guarantee although no lock and no fence protects them; and, from them,  *)
(* the oracle of the gate that races coordinators and sweeps up after them.*)
(***************************************************************************)
EXTENDS OverlayGate, FiniteSetTheorems, TLAPS

Recorded(o) == \E r \in rows : r.ord = o

\* Where a live coordinator stands in its plan, and that its epoch is its own.
LocalsInv ==
    /\ \A p \in Procs : w[p].pc # "idle" =>
           /\ w[p].ord <= N /\ w[p].epoch <= ownerEpoch
           /\ w[p].pc # "call" => w[p].ord < N
           /\ \A o \in Ords : o < w[p].ord => Recorded(o)
    /\ \A p, q \in Procs :
           w[p].pc # "idle" /\ w[q].pc # "idle" /\ w[p].epoch = w[q].epoch => p = q

\* What a coordinator has put in place when it reaches a statement: a synced
\* temp file before the rename, a whole file after it, and one that outlives a
\* power loss before it records itself as the publisher.
FilesInv == \A p \in Procs :
    /\ w[p].pc \in {"write", "rename"} => Temp(p) \in temps
    /\ w[p].pc = "rename" => Temp(p) \in synced
    /\ w[p].pc \in {"sync", "record"} => final[w[p].ord] = "whole"
    /\ w[p].pc = "record" /\ w[p].how = "committed" => onDisk[w[p].ord] = "whole"

\* What is on disk is visible, and neither is ever half a file.
DiskInv == \A o \in Ords :
    /\ final[o] # "partial" /\ onDisk[o] # "partial"
    /\ onDisk[o] = "whole" => final[o] = "whole"

RowsInv == PublisherDurable /\ NoGhostWhilePowered /\ CommittedTurnComplete

IInv == TypeOK /\ LocalsInv /\ FilesInv /\ DiskInv /\ RowsInv

\* TypeOK of one coordinator's locals.
LEMMA LocalFields ==
    ASSUME TypeOK, NEW p \in Procs
    PROVE  /\ w[p].pc \in {"idle", "call", "open", "write", "rename", "sync", "record"}
           /\ w[p].epoch \in Nat /\ w[p].ord \in Nat /\ w[p].how \in {"committed", "dedup"}
<1> w[p] \in Local
  BY DEF TypeOK
<1> QED BY DEF Local

\* What a step does to the locals: one coordinator's fields, nobody else's.
Becomes(p, pc, e, o, h) ==
    /\ w' \in [Procs -> Local]
    /\ w'[p].pc = pc /\ w'[p].epoch = e /\ w'[p].ord = o /\ w'[p].how = h
    /\ \A q \in Procs : q # p => w'[q] = w[q]

\* A live coordinator's action is one of the plan's.
LEMMA OrdInPlan ==
    ASSUME IInv, NEW p \in Procs, w[p].pc \notin {"idle", "call"}
    PROVE  w[p].ord \in Ords
BY LocalFields, OverlayAssumption DEF IInv, LocalsInv, Ords, OverlayAssumption

LEMMA InitIInv == Init => IInv
<1> SUFFICES ASSUME Init PROVE IInv
  OBVIOUS
<1>1. Idle \in Local /\ Idle.pc = "idle"
  BY DEF Idle, Local
<1>2. w \in [Procs -> Local] /\ \A p \in Procs : w[p].pc = "idle"
  BY <1>1 DEF Init
<1>3. TypeOK
  BY <1>2 DEF Init, TypeOK, Contents
<1> QED
BY <1>2, <1>3 DEF Init, IInv, LocalsInv, FilesInv, DiskInv, RowsInv, PublisherDurable,
    NoGhostWhilePowered, CommittedTurnComplete

LEMMA AcquireIInv == ASSUME IInv, NEW p \in Procs, Acquire(p) PROVE IInv'
<1>1. ownerEpoch \in Nat /\ ownerEpoch + 1 \in Nat
  BY DEF IInv, TypeOK
<1>2. Becomes(p, "call", ownerEpoch + 1, 0, "committed")
  BY <1>1 DEF Acquire, Becomes, IInv, TypeOK, Local, Idle
<1>3. TypeOK'
  BY <1>1, <1>2 DEF Acquire, Becomes, IInv, TypeOK, files
<1>4. LocalsInv'
  BY <1>1, <1>2, LocalFields, OverlayAssumption
  DEF Acquire, Becomes, IInv, LocalsInv, Recorded, Ords, OverlayAssumption
<1>5. FilesInv'
  BY <1>2 DEF Acquire, Becomes, IInv, FilesInv, files, Temp
<1> QED
BY <1>3, <1>4, <1>5 DEF Acquire, IInv, DiskInv, RowsInv, PublisherDurable,
    NoGhostWhilePowered, CommittedTurnComplete, files

\* A coordinator that dies, or exits, leaves every other one as it was.
LEMMA IdleIInv ==
    ASSUME IInv, NEW p \in Procs, w' = [w EXCEPT ![p] = Idle],
           UNCHANGED <<ownerEpoch, rows, files, losses>>,
           turn' \in {"open", "committed"}, CommittedTurnComplete'
    PROVE  IInv'
<1>1. Becomes(p, "idle", 0, 0, "committed")
  BY DEF Becomes, IInv, TypeOK, Local, Idle
<1>2. TypeOK'
  BY <1>1 DEF Becomes, IInv, TypeOK, files
<1>3. LocalsInv'
  BY <1>1 DEF Becomes, IInv, LocalsInv, Recorded
<1>4. FilesInv'
  BY <1>1 DEF Becomes, IInv, FilesInv, files, Temp
<1> QED
BY <1>2, <1>3, <1>4 DEF IInv, DiskInv, RowsInv, PublisherDurable, NoGhostWhilePowered, files

LEMMA FinishIInv == ASSUME IInv, NEW p \in Procs, Finish(p) PROVE IInv'
<1>1. \A o \in Ords : o < N
  BY OverlayAssumption DEF Ords, OverlayAssumption
<1>2. CommittedTurnComplete'
  BY <1>1 DEF Finish, At, IInv, LocalsInv, Recorded, CommittedTurnComplete
<1> QED BY <1>2, IdleIInv DEF Finish

LEMMA DieIInv == ASSUME IInv, NEW p \in Procs, Die(p) PROVE IInv'
<1>1. CommittedTurnComplete' /\ turn' \in {"open", "committed"}
  BY DEF Die, db, IInv, TypeOK, RowsInv, CommittedTurnComplete
<1> QED BY <1>1, IdleIInv DEF Die, db

\* The look at the final file: a file seen is whole, because none is partial.
LEMMA SeenIInv == ASSUME IInv, NEW p \in Procs, Seen(p) PROVE IInv'
<1>1. Becomes(p, "record", w[p].epoch, w[p].ord, "dedup")
  BY DEF Seen, Becomes, IInv, TypeOK, Local
<1>2. w[p].ord \in Ords
  BY LocalFields, OverlayAssumption DEF Seen, IInv, Ords, OverlayAssumption
<1>3. final[w[p].ord] = "whole"
  BY <1>2 DEF Seen, IInv, TypeOK, DiskInv, Contents
<1>4. TypeOK'
  BY <1>1 DEF Seen, Becomes, IInv, TypeOK, db, files
<1>5. LocalsInv'
  BY <1>1 DEF Seen, At, Becomes, IInv, LocalsInv, Recorded, db
<1>6. FilesInv'
  BY <1>1, <1>3 DEF Seen, Becomes, IInv, FilesInv, files, Temp
<1> QED
BY <1>4, <1>5, <1>6 DEF Seen, IInv, DiskInv, RowsInv, PublisherDurable,
    NoGhostWhilePowered, CommittedTurnComplete, db, files

LEMMA UnseenIInv == ASSUME IInv, NEW p \in Procs, Unseen(p) PROVE IInv'
<1>1. Becomes(p, "open", w[p].epoch, w[p].ord, "committed")
  BY DEF Unseen, Becomes, IInv, TypeOK, Local
<1>2. TypeOK'
  BY <1>1 DEF Unseen, Becomes, IInv, TypeOK, db, files
<1>3. LocalsInv'
  BY <1>1 DEF Unseen, At, Becomes, IInv, LocalsInv, Recorded, db
<1>4. FilesInv'
  BY <1>1 DEF Unseen, Becomes, IInv, FilesInv, files, Temp
<1> QED
BY <1>2, <1>3, <1>4 DEF Unseen, IInv, DiskInv, RowsInv, PublisherDurable,
    NoGhostWhilePowered, CommittedTurnComplete, db, files

\* Temp files of two live coordinators never share a name.
LEMMA TempsDistinct ==
    ASSUME IInv, NEW p \in Procs, NEW q \in Procs, p # q,
           w[p].pc # "idle", w[q].pc # "idle"
    PROVE  Temp(p) # Temp(q)
BY DEF IInv, LocalsInv, Temp

LEMMA OpenIInv == ASSUME IInv, NEW p \in Procs, Open(p) PROVE IInv'
<1>1. Becomes(p, "write", w[p].epoch, w[p].ord, w[p].how)
  BY DEF Open, Goto, Becomes, IInv, TypeOK, Local
<1>2. Temp(p) \in Ords \X Nat
  BY OrdInPlan, LocalFields DEF Open, At, IInv, Temp
<1>3. TypeOK'
  BY <1>1, <1>2 DEF Open, Becomes, IInv, TypeOK, db
<1>4. LocalsInv'
  BY <1>1 DEF Open, At, Becomes, IInv, LocalsInv, Recorded, db
<1>5. FilesInv'
  <2> SUFFICES ASSUME NEW q \in Procs
               PROVE  /\ w[q].pc' \in {"write", "rename"} => Temp(q)' \in temps'
                      /\ w[q].pc' = "rename" => Temp(q)' \in synced'
                      /\ w[q].pc' \in {"sync", "record"} => final'[w'[q].ord] = "whole"
                      /\ w[q].pc' = "record" /\ w[q].how' = "committed"
                             => onDisk'[w'[q].ord] = "whole"
    BY DEF FilesInv
  <2>1. CASE q = p
    BY <1>1, <2>1 DEF Open, Becomes, Temp
  <2>2. CASE q # p
    BY <1>1, <2>2, TempsDistinct DEF Open, At, Becomes, IInv, FilesInv, Temp
  <2> QED BY <2>1, <2>2
<1> QED
BY <1>3, <1>4, <1>5 DEF Open, IInv, DiskInv, RowsInv, PublisherDurable,
    NoGhostWhilePowered, CommittedTurnComplete, db

LEMMA WriteIInv == ASSUME IInv, NEW p \in Procs, Write(p) PROVE IInv'
<1>1. Becomes(p, "rename", w[p].epoch, w[p].ord, w[p].how)
  BY DEF Write, Goto, Becomes, IInv, TypeOK, Local
<1>2. Temp(p) \in temps
  BY DEF Write, At, IInv, FilesInv
<1>3. TypeOK'
  BY <1>1, <1>2 DEF Write, Becomes, IInv, TypeOK, db
<1>4. LocalsInv'
  BY <1>1 DEF Write, At, Becomes, IInv, LocalsInv, Recorded, db
<1>5. FilesInv'
  BY <1>1, <1>2 DEF Write, Becomes, IInv, FilesInv, Temp
<1> QED
BY <1>3, <1>4, <1>5 DEF Write, IInv, DiskInv, RowsInv, PublisherDurable,
    NoGhostWhilePowered, CommittedTurnComplete, db

\* The rename publishes a synced file, so the name never stands for half a one.
LEMMA PublishIInv == ASSUME IInv, NEW p \in Procs, Publish(p) PROVE IInv'
<1>1. Becomes(p, "sync", w[p].epoch, w[p].ord, w[p].how)
  BY DEF Publish, Goto, Becomes, IInv, TypeOK, Local
<1>2. w[p].ord \in Ords
  BY OrdInPlan DEF Publish, At
<1>3. Content(Temp(p)) = "whole"
  BY DEF Publish, At, IInv, FilesInv, Content
<1>4. /\ final' \in [Ords -> Contents]
      /\ final'[w[p].ord] = "whole"
      /\ \A o \in Ords : o # w[p].ord => final'[o] = final[o]
  BY <1>2, <1>3 DEF Publish, IInv, TypeOK, Contents
<1>5. TypeOK'
  BY <1>1, <1>4 DEF Publish, Becomes, IInv, TypeOK, db
<1>6. LocalsInv'
  BY <1>1 DEF Publish, At, Becomes, IInv, LocalsInv, Recorded, db
<1>7. FilesInv'
  <2> SUFFICES ASSUME NEW q \in Procs
               PROVE  /\ w[q].pc' \in {"write", "rename"} => Temp(q)' \in temps'
                      /\ w[q].pc' = "rename" => Temp(q)' \in synced'
                      /\ w[q].pc' \in {"sync", "record"} => final'[w'[q].ord] = "whole"
                      /\ w[q].pc' = "record" /\ w[q].how' = "committed"
                             => onDisk'[w'[q].ord] = "whole"
    BY DEF FilesInv
  <2>1. CASE q = p
    BY <1>1, <1>4, <2>1 DEF Becomes
  <2>2. CASE q # p
    <3>1. w'[q] = w[q] /\ Temp(q)' = Temp(q)
      BY <1>1, <2>2 DEF Becomes, Temp
    <3>2. w[q].pc \in {"write", "rename"} => Temp(q) # Temp(p)
      BY <2>2, TempsDistinct DEF Publish, At
    <3>3. w[q].pc \in {"sync", "record"} => w[q].ord \in Ords
      BY OrdInPlan
    <3> QED BY <1>4, <3>1, <3>2, <3>3 DEF Publish, IInv, FilesInv
  <2> QED BY <2>1, <2>2
<1>8. DiskInv'
  BY <1>4 DEF Publish, IInv, DiskInv
<1>9. RowsInv'
  BY <1>4 DEF Publish, IInv, TypeOK, RowOf, RowsInv, PublisherDurable,
      NoGhostWhilePowered, CommittedTurnComplete, db
<1> QED BY <1>5, <1>6, <1>7, <1>8, <1>9 DEF IInv

LEMMA FsyncDirIInv == ASSUME IInv, NEW p \in Procs, FsyncDir(p) PROVE IInv'
<1>1. Becomes(p, "record", w[p].epoch, w[p].ord, w[p].how)
  BY DEF FsyncDir, Goto, Becomes, IInv, TypeOK, Local
<1>2. TypeOK'
  BY <1>1 DEF FsyncDir, Becomes, IInv, TypeOK, db
<1>3. LocalsInv'
  BY <1>1 DEF FsyncDir, At, Becomes, IInv, LocalsInv, Recorded, db
<1>4. FilesInv'
  BY <1>1 DEF FsyncDir, At, Becomes, IInv, FilesInv, Temp
<1>5. DiskInv' /\ RowsInv'
  BY DEF FsyncDir, IInv, TypeOK, RowOf, DiskInv, RowsInv, PublisherDurable,
      NoGhostWhilePowered, CommittedTurnComplete, db
<1> QED BY <1>2, <1>3, <1>4, <1>5 DEF IInv

\* The row is written after the file: what it names is whole.
LEMMA RecordIInv == ASSUME IInv, NEW p \in Procs, Record(p) PROVE IInv'
<1> DEFINE row == [ord |-> w[p].ord, epoch |-> w[p].epoch, how |-> w[p].how]
<1>1. Becomes(p, "call", w[p].epoch, w[p].ord + 1, w[p].how)
  BY LocalFields DEF Record, Becomes, IInv, TypeOK, Local
<1>2. w[p].ord \in Ords /\ w[p].ord \in Nat /\ w[p].ord < N
  BY OrdInPlan, LocalFields DEF Record, At, IInv, LocalsInv
<1>3. row \in RowOf
  BY <1>2, LocalFields DEF IInv, RowOf
<1>4. rows' \subseteq rows \cup {row} /\ rows \subseteq rows' /\ \E r \in rows' : r.ord = w[p].ord
  <2>1. CASE \E r \in rows : r.ord = w[p].ord
    BY <2>1 DEF Record
  <2>2. CASE ~ \E r \in rows : r.ord = w[p].ord
    <3>1. rows' = rows \cup {row} /\ row.ord = w[p].ord
      BY <2>2 DEF Record
    <3> HIDE DEF row
    <3> QED BY <3>1
  <2> QED BY <2>1, <2>2
<1>5. TypeOK'
  BY <1>1, <1>3, <1>4 DEF Record, Becomes, IInv, TypeOK, files
<1>6. LocalsInv'
  <2>1. \A o \in Ords : Recorded(o) => Recorded(o)'
    BY <1>4 DEF Recorded
  <2>2. ASSUME NEW o \in Ords, o < w[p].ord + 1 PROVE Recorded(o)'
    <3>1. CASE o = w[p].ord
      BY <1>4, <3>1 DEF Recorded
    <3>2. CASE o < w[p].ord
      BY <2>1, <3>2 DEF Record, At, IInv, LocalsInv
    <3> QED BY <1>2, <2>2, <3>1, <3>2, OverlayAssumption DEF Ords, OverlayAssumption
  <2> QED
  BY <1>1, <1>2, <2>1, <2>2, OverlayAssumption
  DEF Record, At, Becomes, IInv, LocalsInv, OverlayAssumption
<1>7. FilesInv'
  BY <1>1 DEF Record, Becomes, IInv, FilesInv, files, Temp
<1>8. DiskInv'
  BY DEF Record, IInv, DiskInv, files
<1>9. RowsInv'
  BY <1>4 DEF Record, At, IInv, FilesInv, RowsInv, PublisherDurable,
      NoGhostWhilePowered, CommittedTurnComplete, files
<1> QED BY <1>5, <1>6, <1>7, <1>8, <1>9 DEF IInv

\* A power loss takes back only what was not yet on disk.
LEMMA PowerLossIInv == ASSUME IInv, PowerLoss PROVE IInv'
<1>1. PICK kept \in SUBSET Ords :
          final' = [o \in Ords |-> IF o \in kept THEN final[o] ELSE onDisk[o]]
  BY DEF PowerLoss
<1>2. /\ final' \in [Ords -> Contents]
      /\ \A o \in Ords : final'[o] \in {final[o], onDisk[o]}
  BY <1>1 DEF IInv, TypeOK
<1>3. Idle \in Local /\ Idle.pc = "idle"
  BY DEF Idle, Local
<1>4. w' \in [Procs -> Local] /\ \A p \in Procs : w'[p].pc = "idle"
  BY <1>3 DEF PowerLoss
<1>5. TypeOK'
  BY <1>2, <1>4 DEF PowerLoss, IInv, TypeOK, db
<1>6. LocalsInv' /\ FilesInv'
  BY <1>4 DEF LocalsInv, FilesInv
<1>7. DiskInv'
  BY <1>2 DEF PowerLoss, IInv, DiskInv
<1>8. losses' # 0
  BY DEF PowerLoss, IInv, TypeOK
<1>9. RowsInv'
  BY <1>2, <1>8 DEF PowerLoss, IInv, TypeOK, RowOf, DiskInv, RowsInv, PublisherDurable,
      NoGhostWhilePowered, CommittedTurnComplete, db
<1> QED BY <1>5, <1>6, <1>7, <1>9 DEF IInv

LEMMA NextIInv == IInv /\ [Next]_vars => IInv'
<1> SUFFICES ASSUME IInv, [Next]_vars PROVE IInv'
  OBVIOUS
<1>1. CASE UNCHANGED vars
  BY <1>1 DEF vars, db, files, IInv, TypeOK, LocalsInv, Recorded, FilesInv, Temp, DiskInv,
      RowsInv, PublisherDurable, NoGhostWhilePowered, CommittedTurnComplete
<1>2. ASSUME NEW p \in Procs, Acquire(p) \/ Seen(p) \/ Unseen(p) \/ Open(p) \/ Write(p)
      PROVE IInv'
  BY <1>2, AcquireIInv, SeenIInv, UnseenIInv, OpenIInv, WriteIInv
<1>3. ASSUME NEW p \in Procs, Publish(p) \/ FsyncDir(p) \/ Record(p) \/ Finish(p) \/ Die(p)
      PROVE IInv'
  BY <1>3, PublishIInv, FsyncDirIInv, RecordIInv, FinishIInv, DieIInv
<1>4. CASE PowerLoss
  BY <1>4, PowerLossIInv
<1> QED BY <1>1, <1>2, <1>3, <1>4 DEF Next

\* The inductive invariant of do_overlay, TypeOK and the disk's part included.
THEOREM IInvSafe == Spec => []IInv
BY InitIInv, NextIInv, PTL DEF Spec

\* os.replace of a synced temp file with a name of its own: nobody ever sees
\* half a file under an action's name.
THEOREM PublishedWholeSafe == Spec => []PublishedWhole
<1>1. IInv => PublishedWhole
  BY DEF IInv, DiskInv, PublishedWhole
<1> QED BY <1>1, IInvSafe, PTL

\* The publisher syncs the directory before its row: its row is never a ghost,
\* whatever number of power losses follows.
THEOREM PublisherDurableSafe == Spec => []PublisherDurable
<1>1. IInv => PublisherDurable
  BY DEF IInv, RowsInv
<1> QED BY <1>1, IInvSafe, PTL

\* Without a power loss no row at all is a ghost.
THEOREM NoGhostWhilePoweredSafe == Spec => []NoGhostWhilePowered
<1>1. IInv => NoGhostWhilePowered
  BY DEF IInv, RowsInv
<1> QED BY <1>1, IInvSafe, PTL

\* A turn closed without a fence has every row of its plan: each coordinator
\* records, or finds recorded, all it passes.
THEOREM CommittedTurnCompleteSafe == Spec => []CommittedTurnComplete
<1>1. IInv => CommittedTurnComplete
  BY DEF IInv, RowsInv
<1> QED BY <1>1, IInvSafe, PTL
-----------------------------------------------------------------------------
(***************************************************************************)
(* The gate: launches, joins and the recovery sweep around those steps.    *)
(***************************************************************************)
\* ON CONFLICT DO NOTHING: an action has one row.
RowsOnce == \A r, s \in rows : r.ord = s.ord => r = s

\* The sweeper is not one of those that crash: while the machine stays up it is
\* gone only when it has closed the turn.
SweepCloses ==
    /\ Sweeper \in launched /\ w[Sweeper].pc = "idle" /\ losses = 0 => turn = "committed"
    /\ phase = "audit" => Sweeper \in launched /\ w[Sweeper].pc = "idle"

GateInv == IInv /\ RowsOnce /\ SweepCloses

LEMMA InitGateInv == GateInit => GateInv
<1> SUFFICES ASSUME GateInit PROVE GateInv
  OBVIOUS
<1>1. Init
  BY DEF GateInit
<1>2. RowsOnce /\ SweepCloses
  BY <1>1 DEF GateInit, Init, RowsOnce, SweepCloses
<1> QED BY <1>1, <1>2, InitIInv DEF GateInv

\* Whatever the gate does is a step of its workers' coordinators, or none.
LEMMA GateIsNext == GateNext => [Next]_vars
BY DEF GateNext, Launch, Work, HardCrash, StartSweep, Audit, Next

LEMMA NextRowsOnce == ASSUME RowsOnce, [Next]_vars PROVE RowsOnce'
<1>1. CASE rows' = rows
  BY <1>1 DEF RowsOnce
<1>2. ASSUME NEW p \in Procs, Record(p) PROVE RowsOnce'
  <2>1. CASE \E r \in rows : r.ord = w[p].ord
    BY <1>1, <1>2, <2>1 DEF Record
  <2>2. CASE ~ \E r \in rows : r.ord = w[p].ord
    <3> DEFINE row == [ord |-> w[p].ord, epoch |-> w[p].epoch, how |-> w[p].how]
    <3>1. rows' = rows \cup {row} /\ row.ord = w[p].ord
      BY <1>2, <2>2 DEF Record
    <3> HIDE DEF row
    <3> QED BY <2>2, <3>1 DEF RowsOnce
  <2> QED BY <2>1, <2>2
<1> QED
  BY <1>1, <1>2 DEF Next, vars, db, Acquire, Seen, Unseen, Open, Write, Publish, FsyncDir, Finish, Die, PowerLoss

LEMMA NextSweepCloses == ASSUME GateInv, [GateNext]_gateVars PROVE SweepCloses'
<1>1. Sweeper \in Procs /\ w \in [Procs -> Local] /\ losses \in Nat
  BY OverlayGateAssumption DEF GateInv, IInv, TypeOK
<1>2. ASSUME NEW p \in Procs, Launch(p) PROVE SweepCloses'
  <2>1. /\ launched' = launched \cup {p} /\ phase' = phase /\ losses' = losses /\ turn' = turn
        /\ p \notin launched /\ w'[p].pc = "call" /\ \A q \in Procs : q # p => w'[q] = w[q]
    BY <1>1, <1>2 DEF Launch, Acquire, Idle
  <2> QED BY <1>1, <2>1 DEF GateInv, SweepCloses
<1>3. ASSUME NEW p \in Procs, Finish(p), UNCHANGED <<phase, launched>> PROVE SweepCloses'
  <2>1. w'[p].pc = "idle" /\ \A q \in Procs : q # p => w'[q] = w[q]
    BY <1>1, <1>3 DEF Finish, Idle
  <2> QED BY <1>1, <1>3, <2>1 DEF Finish, GateInv, SweepCloses
<1>4. ASSUME NEW p \in Procs, UNCHANGED <<phase, launched>>,
             Seen(p) \/ Unseen(p) \/ Open(p) \/ Write(p) \/ Publish(p) \/ FsyncDir(p) \/ Record(p)
      PROVE  SweepCloses'
  <2>1. /\ w[p].pc # "idle" /\ w'[p].pc # "idle" /\ \A q \in Procs : q # p => w'[q] = w[q]
        /\ losses' = losses /\ turn' = turn
    BY <1>1, <1>4 DEF Seen, Unseen, Open, Write, Publish, FsyncDir, Record, At, Goto, db, Local
  <2> QED BY <1>1, <1>4, <2>1 DEF GateInv, SweepCloses
<1>5. ASSUME NEW p \in Procs, HardCrash(p) PROVE SweepCloses'
  <2>1. p # Sweeper /\ w'[Sweeper] = w[Sweeper] /\ UNCHANGED <<phase, launched, losses, turn>>
    BY <1>1, <1>5 DEF HardCrash, Racers, Die, db
  <2> QED BY <2>1 DEF GateInv, SweepCloses
<1>6. CASE StartSweep
  BY <1>6 DEF StartSweep, vars, db, GateInv, SweepCloses
<1>7. CASE Audit
  BY <1>7 DEF Audit, Exited, At, vars, db, GateInv, SweepCloses
<1>8. CASE PowerLoss /\ UNCHANGED <<phase, launched>>
  <2>1. losses' # 0 /\ w'[Sweeper].pc = "idle"
    BY <1>1, <1>8 DEF PowerLoss, Idle
  <2> QED BY <1>8, <2>1 DEF GateInv, SweepCloses
<1>9. CASE UNCHANGED gateVars
  BY <1>9 DEF gateVars, vars, db, GateInv, SweepCloses
<1> QED BY <1>2, <1>3, <1>4, <1>5, <1>6, <1>7, <1>8, <1>9 DEF GateNext, Work

LEMMA GateInvAlways == GateSpec => []GateInv
<1>1. GateInv /\ [GateNext]_gateVars => GateInv'
  <2> SUFFICES ASSUME GateInv, [GateNext]_gateVars PROVE GateInv'
    OBVIOUS
  <2>1. [Next]_vars
    BY GateIsNext DEF gateVars
  <2> QED BY <2>1, NextIInv, NextRowsOnce, NextSweepCloses DEF GateInv
<1> QED BY <1>1, InitGateInv, PTL DEF GateSpec

\* The gate is one way to run coordinators: do_overlay's promises hold in it.
THEOREM GateKeepsPromises ==
    GateSpec => [](PublishedWhole /\ PublisherDurable /\ NoGhostWhilePowered
                   /\ CommittedTurnComplete)
<1>1. GateInv => PublishedWhole /\ PublisherDurable /\ NoGhostWhilePowered /\ CommittedTurnComplete
  BY DEF GateInv, IInv, DiskInv, RowsInv, PublishedWhole
<1> QED BY <1>1, GateInvAlways, PTL

\* OVERLAY_GATE_PASS for any number of racers that die anywhere: the sweep ends
\* with the turn committed, each action's file whole and one row for it.
THEOREM OverlayGateOracle == GateSpec => []OverlayGatePass
<1>1. ASSUME GateInv, phase = "audit", losses = 0
      PROVE  turn = "committed"
  BY <1>1 DEF GateInv, SweepCloses
<1>2. ASSUME GateInv, phase = "audit", losses = 0, NEW o \in Ords
      PROVE  final[o] = "whole" /\ Cardinality({r \in rows : r.ord = o}) = 1
  <2>1. PICK s \in rows : s.ord = o
    BY <1>1, <1>2 DEF GateInv, IInv, RowsInv, CommittedTurnComplete
  <2>2. final[o] = "whole"
    BY <1>2, <2>1 DEF GateInv, IInv, RowsInv, NoGhostWhilePowered
  <2>3. {r \in rows : r.ord = o} = {s}
    BY <1>2, <2>1 DEF GateInv, RowsOnce
  <2> QED BY <2>2, <2>3, FS_Singleton
<1>3. GateInv => OverlayGatePass
  BY <1>1, <1>2 DEF OverlayGatePass
<1> QED BY <1>3, GateInvAlways, PTL
=============================================================================
