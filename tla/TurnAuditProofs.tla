-------------------------- MODULE TurnAuditProofs --------------------------
(***************************************************************************)
(* Theorems about the twenty harnesses, for any number of crashes, any     *)
(* length of output and any lag of the ACK.  The programs are shown once   *)
(* to be well formed: in a transaction the effect and its completion       *)
(* record are staged before the commit, other effects come before the      *)
(* records that speak of them, and what is passed over has been done.  The *)
(* rest of the proof knows of the programs no more than that.              *)
(***************************************************************************)
EXTENDS TurnAudit, TLAPS

Ops == {"stage", "commit", "append", "effect", "write", "publish", "stream"}
Types == {"EFFECT", "TOKENS", "BEGIN_TURN", "PREPARED", "COMPLETED", "OBSERVED", "OUTBOX", "OUTBOX_DONE",
          "TURN_COMMITTED"}
Acts == Actions \cup {"turn"}
\* The steps that make an effect durable, and the records that say that one is.
Durable == {"commit", "effect", "publish"}
Claims == {"COMPLETED", "OBSERVED", "OUTBOX_DONE"}
Completes(s, a) == s.op \in {"stage", "append"} /\ s.type = "COMPLETED" /\ s.act = a
Observes(s, a) == s.op = "append" /\ s.type = "OBSERVED" /\ s.act = a
DoneBefore(P, i, a) == \E j \in 1 .. i - 1 : P[j].op \in Durable /\ P[j].act = a

StepsFine(P) == Len(P) \in Nat /\ \A i \in 1 .. Len(P) :
    /\ P[i].op \in Ops /\ P[i].type \in Types /\ P[i].act \in Acts
    /\ P[i].op \in Durable \cup {"write"} => P[i].act \in Actions
    /\ "exists" \in P[i].skip => P[i].op \in {"effect", "write", "publish"}
    /\ "logged" \in P[i].skip => P[i].op = "append"
    /\ "recorded" \in P[i].skip => P[i].op # "stream"

\* The one transaction: the charge, perhaps an outbox row, the completion
\* record of the charge, and the commit.
TxFine(P) == \A i \in 1 .. Len(P) :
    /\ P[i].op = "stage" =>
          /\ i < Len(P)
          /\ \/ /\ P[i].type = "EFFECT" /\ P[i].act = "charge" /\ P[i].skip = Once
                /\ P[i + 1].op = "stage" /\ (i > 1 => P[i - 1].op # "stage")
             \/ /\ P[i].type = "COMPLETED" /\ P[i].act = "charge" /\ P[i].skip = Once
                /\ P[i + 1].op = "commit" /\ i > 1 /\ P[i - 1].op = "stage"
             \/ /\ P[i].type = "OUTBOX"
                /\ P[i + 1].op = "stage" /\ i > 1 /\ P[i - 1].op = "stage"
    /\ P[i].op = "commit" =>
          /\ P[i].act = "charge" /\ P[i].skip = Once
          /\ i > 1 /\ P[i - 1].op = "stage" /\ P[i - 1].type = "COMPLETED"
          /\ \A j \in 1 .. Len(P) : P[j].op \in {"effect", "publish"} => P[j].act # "charge"

\* A record that says an action is done comes after the step that does it.
RecordsFine(P) == \A i \in 1 .. Len(P) :
    /\ P[i].op = "append" /\ P[i].type \in Claims =>
          P[i].act \in Actions /\ DoneBefore(P, i, P[i].act)
    /\ P[i].op = "append" /\ P[i].type = "OBSERVED" =>
          /\ "recorded" \notin P[i].skip
          /\ \A j \in 1 .. Len(P) : Completes(P[j], P[i].act) => j < i /\ "recorded" \in P[j].skip

\* Every action is done in the end, and before any token of the output is sent.
EffectsFine(P) == \A i \in 1 .. Len(P) :
    P[i].act \in Actions =>
        /\ DoneBefore(P, Len(P) + 1, P[i].act)
        /\ \A s \in 1 .. Len(P) : P[s].op = "stream" => DoneBefore(P, s, P[i].act)

Fine(P) == StepsFine(P) /\ TxFine(P) /\ RecordsFine(P) /\ EffectsFine(P)

\* What a harness promises to do once: an effect outside a transaction is
\* passed over when it is there.
Guarded(P, a) == \A i \in 1 .. Len(P) : P[i].op = "effect" /\ P[i].act = a => "exists" \in P[i].skip
\* What protocol.py and core.py close: every action observed, then the turn.
Closes(P) ==
    /\ \E i \in 1 .. Len(P) : /\ P[i].op = "append" /\ P[i].type = "TURN_COMMITTED"
                              /\ P[i].act = "turn" /\ "recorded" \notin P[i].skip
    /\ \A i \in 1 .. Len(P) : P[i].act \in Actions => \E j \in 1 .. Len(P) : Observes(P[j], P[i].act)
-----------------------------------------------------------------------------
(***************************************************************************)
(* The inductive invariant.                                                *)
(***************************************************************************)
Prog == Program[kind]
Entry == [type : Types, act : Acts]

AuditTypes ==
    /\ kind \in Kinds /\ phase \in {"ready", "work", "end"} /\ attempts \in 0 .. 2
    /\ pc \in 1 .. Len(Prog) + 1 /\ seq \in 0 .. OutLen + 1
    /\ staged \in Seq(Entry) /\ pending \in [Actions -> Nat]
    /\ records \in Seq(Entry) /\ count \in [Actions -> Nat]

\* The worker is between the first write of the transaction and its commit.
InTx == phase = "work" /\ pc <= Len(Prog) /\ pc > 1 /\ Prog[pc - 1].op = "stage"
Charged == Has("COMPLETED", "charge")
\* Unless the charge is completed, the open transaction has it, and when it is
\* about to commit the completion record too; a transaction that is passed over
\* has neither.
TxInv ==
    /\ \A a \in Actions : pending[a] = IF a = "charge" /\ InTx /\ ~Charged THEN 1 ELSE 0
    /\ \A i \in 1 .. Len(staged) :
          \/ staged[i].type = "OUTBOX"
          \/ /\ staged[i] = [type |-> "COMPLETED", act |-> "charge"]
             /\ InTx /\ ~Charged /\ Prog[pc].op = "commit"
    /\ InTx /\ ~Charged /\ Prog[pc].op = "commit" =>
          \E i \in 1 .. Len(staged) : staged[i] = [type |-> "COMPLETED", act |-> "charge"]

\* A charge made in a transaction is there when its completion record is.
CountInv ==
    /\ (\E i \in 1 .. Len(Prog) : Prog[i].op = "commit") =>
          count["charge"] <= 1 /\ (~Charged => count["charge"] = 0)
    /\ \A a \in Promised : count[a] <= 1

\* What a step that lies behind the worker has left, or found.
Done(s) ==
    /\ s.op \in Durable => count[s.act] > 0
    /\ s.op = "commit" => Has("COMPLETED", s.act)
    /\ s.op = "append" => Has(s.type, s.act) \/ ("recorded" \in s.skip /\ Has("COMPLETED", s.act))
    /\ s.op = "stream" => client.ack = OutLen
PastInv == \A i \in 1 .. pc - 1 : Done(Prog[i])

\* The records: effects behind claims, completion before observation.
RecordsInv ==
    /\ \A i \in 1 .. Len(records) :
          records[i].type \in Claims => records[i].act \in Actions /\ count[records[i].act] > 0
    /\ \A i, j \in 1 .. Len(records) :
          /\ records[i].type = "OBSERVED" /\ records[j].type = "COMPLETED"
          /\ records[i].act = records[j].act
          => j < i
    /\ \A a \in Acts : Has("OBSERVED", a) =>
          /\ \E i \in 1 .. Len(Prog) : Observes(Prog[i], a)
          /\ \A j \in 1 .. Len(Prog) : Completes(Prog[j], a) => Has("COMPLETED", a)

\* The client; that a worker sends nothing ahead of what the client has; and what
\* the driver waits for.
ClientInv ==
    /\ client = [ack |-> client.ack, received |-> [n \in 1 .. client.ack |-> n]]
    /\ client.ack \in 0 .. OutLen
    /\ seq > 0 => seq <= client.ack + 1
    /\ phase = "end" => Clean \/ (Streams /\ client.ack = OutLen)
SentInv == client.ack > 0 => \A i \in 1 .. Len(Prog) : Prog[i].act \in Actions => count[Prog[i].act] > 0

AuditInv == AuditTypes /\ TxInv /\ CountInv /\ PastInv /\ RecordsInv /\ ClientInv /\ SentInv
-----------------------------------------------------------------------------
LEMMA TurnsFine ==
    /\ Fine(RunNone)
    /\ Fine(RunCheckpoint)
    /\ Fine(RunDbos)
    /\ Fine(RunAgenttx)
    /\ Fine(LangGraph)
    /\ Fine(Dbos)
    /\ Fine(TurnIdem)
    /\ Fine(TurnOutbox)
    /\ Fine(CoreTurn)
    /\ Fine(ProtocolTx)
    /\ Fine(ProtocolIdem)
    /\ Fine(ProtocolRaw)
    /\ Fine(Tau2Cancel)
    /\ Fine(Tau2Replay)
    /\ Fine(Tau2AgentTx)
    /\ Fine(Tau2Live)
    /\ Fine(EvalTurn)
    /\ Fine(AgentTurn)
    /\ Fine(StreamTurn)
<1> USE DEF Do, Stage, Append1, Effect1, Tx, Plain, Keyed, Observed, Publish1, TurnOps, HttpKeyed, Once
<1> USE DEF StepsFine, TxFine, RecordsFine, EffectsFine, DoneBefore, Completes, Observes
<1> USE DEF Ops, Types, Acts, Actions, Durable, Claims
<1>1. Fine(RunNone)
  BY DEF RunNone, Fine
<1>2. Fine(RunCheckpoint)
  <2>1. StepsFine(RunCheckpoint)
    BY DEF RunCheckpoint
  <2>2. TxFine(RunCheckpoint)
    BY DEF RunCheckpoint
  <2>3. RecordsFine(RunCheckpoint)
    BY DEF RunCheckpoint
  <2>4. EffectsFine(RunCheckpoint)
    BY DEF RunCheckpoint
  <2> HIDE DEF StepsFine, TxFine, RecordsFine, EffectsFine
  <2> QED
    BY <2>1, <2>2, <2>3, <2>4 DEF Fine
<1>3. Fine(RunDbos)
  <2>1. StepsFine(RunDbos)
    BY DEF RunDbos
  <2>2. TxFine(RunDbos)
    BY DEF RunDbos
  <2>3. RecordsFine(RunDbos)
    BY DEF RunDbos
  <2>4. EffectsFine(RunDbos)
    BY DEF RunDbos
  <2> HIDE DEF StepsFine, TxFine, RecordsFine, EffectsFine
  <2> QED
    BY <2>1, <2>2, <2>3, <2>4 DEF Fine
<1>4. Fine(RunAgenttx)
  <2>1. StepsFine(RunAgenttx)
    BY DEF RunAgenttx
  <2>2. TxFine(RunAgenttx)
    BY DEF RunAgenttx
  <2>3. RecordsFine(RunAgenttx)
    BY DEF RunAgenttx
  <2>4. EffectsFine(RunAgenttx)
    BY DEF RunAgenttx
  <2> HIDE DEF StepsFine, TxFine, RecordsFine, EffectsFine
  <2> QED
    BY <2>1, <2>2, <2>3, <2>4 DEF Fine
<1>5. Fine(LangGraph)
  <2>1. StepsFine(LangGraph)
    BY DEF LangGraph
  <2>2. TxFine(LangGraph)
    BY DEF LangGraph
  <2>3. RecordsFine(LangGraph)
    BY DEF LangGraph
  <2>4. EffectsFine(LangGraph)
    BY DEF LangGraph
  <2> HIDE DEF StepsFine, TxFine, RecordsFine, EffectsFine
  <2> QED
    BY <2>1, <2>2, <2>3, <2>4 DEF Fine
<1>6. Fine(Dbos)
  <2>1. StepsFine(Dbos)
    BY DEF Dbos
  <2>2. TxFine(Dbos)
    BY DEF Dbos
  <2>3. RecordsFine(Dbos)
    BY DEF Dbos
  <2>4. EffectsFine(Dbos)
    BY DEF Dbos
  <2> HIDE DEF StepsFine, TxFine, RecordsFine, EffectsFine
  <2> QED
    BY <2>1, <2>2, <2>3, <2>4 DEF Fine
<1>7. Fine(TurnIdem)
  <2>1. StepsFine(TurnIdem)
    BY DEF TurnIdem
  <2>2. TxFine(TurnIdem)
    BY DEF TurnIdem
  <2>3. RecordsFine(TurnIdem)
    BY DEF TurnIdem
  <2>4. EffectsFine(TurnIdem)
    BY DEF TurnIdem
  <2> HIDE DEF StepsFine, TxFine, RecordsFine, EffectsFine
  <2> QED
    BY <2>1, <2>2, <2>3, <2>4 DEF Fine
<1>8. Fine(TurnOutbox)
  <2>1. StepsFine(TurnOutbox)
    BY DEF TurnOutbox
  <2>2. TxFine(TurnOutbox)
    BY DEF TurnOutbox
  <2>3. RecordsFine(TurnOutbox)
    BY DEF TurnOutbox
  <2>4. EffectsFine(TurnOutbox)
    BY DEF TurnOutbox
  <2> HIDE DEF StepsFine, TxFine, RecordsFine, EffectsFine
  <2> QED
    BY <2>1, <2>2, <2>3, <2>4 DEF Fine
<1>9. Fine(CoreTurn)
  <2>1. StepsFine(CoreTurn)
    BY DEF CoreTurn
  <2>2. TxFine(CoreTurn)
    BY DEF CoreTurn
  <2>3. RecordsFine(CoreTurn)
    BY DEF CoreTurn
  <2>4. EffectsFine(CoreTurn)
    BY DEF CoreTurn
  <2> HIDE DEF StepsFine, TxFine, RecordsFine, EffectsFine
  <2> QED
    BY <2>1, <2>2, <2>3, <2>4 DEF Fine
<1>10. Fine(ProtocolTx)
  <2>1. StepsFine(ProtocolTx)
    BY DEF ProtocolTx
  <2>2. TxFine(ProtocolTx)
    BY DEF ProtocolTx
  <2>3. RecordsFine(ProtocolTx)
    BY DEF ProtocolTx
  <2>4. EffectsFine(ProtocolTx)
    BY DEF ProtocolTx
  <2> HIDE DEF StepsFine, TxFine, RecordsFine, EffectsFine
  <2> QED
    BY <2>1, <2>2, <2>3, <2>4 DEF Fine
<1>11. Fine(ProtocolIdem)
  <2>1. StepsFine(ProtocolIdem)
    BY DEF ProtocolIdem
  <2>2. TxFine(ProtocolIdem)
    BY DEF ProtocolIdem
  <2>3. RecordsFine(ProtocolIdem)
    BY DEF ProtocolIdem
  <2>4. EffectsFine(ProtocolIdem)
    BY DEF ProtocolIdem
  <2> HIDE DEF StepsFine, TxFine, RecordsFine, EffectsFine
  <2> QED
    BY <2>1, <2>2, <2>3, <2>4 DEF Fine
<1>12. Fine(ProtocolRaw)
  <2>1. StepsFine(ProtocolRaw)
    BY DEF ProtocolRaw
  <2>2. TxFine(ProtocolRaw)
    BY DEF ProtocolRaw
  <2>3. RecordsFine(ProtocolRaw)
    BY DEF ProtocolRaw
  <2>4. EffectsFine(ProtocolRaw)
    BY DEF ProtocolRaw
  <2> HIDE DEF StepsFine, TxFine, RecordsFine, EffectsFine
  <2> QED
    BY <2>1, <2>2, <2>3, <2>4 DEF Fine
<1>13. Fine(Tau2Cancel)
  BY DEF Tau2Cancel, Fine
<1>14. Fine(Tau2Replay)
  BY DEF Tau2Replay, Fine
<1>15. Fine(Tau2AgentTx)
  BY DEF Tau2AgentTx, Fine
<1>16. Fine(Tau2Live)
  BY DEF Tau2Live, Fine
<1>17. Fine(EvalTurn)
  <2>1. StepsFine(EvalTurn)
    BY DEF EvalTurn
  <2>2. TxFine(EvalTurn)
    BY DEF EvalTurn
  <2>3. RecordsFine(EvalTurn)
    BY DEF EvalTurn
  <2>4. EffectsFine(EvalTurn)
    BY DEF EvalTurn
  <2> HIDE DEF StepsFine, TxFine, RecordsFine, EffectsFine
  <2> QED
    BY <2>1, <2>2, <2>3, <2>4 DEF Fine
<1>18. Fine(AgentTurn)
  <2>1. StepsFine(AgentTurn)
    BY DEF AgentTurn
  <2>2. TxFine(AgentTurn)
    BY DEF AgentTurn
  <2>3. RecordsFine(AgentTurn)
    BY DEF AgentTurn
  <2>4. EffectsFine(AgentTurn)
    BY DEF AgentTurn
  <2> HIDE DEF StepsFine, TxFine, RecordsFine, EffectsFine
  <2> QED
    BY <2>1, <2>2, <2>3, <2>4 DEF Fine
<1>19. Fine(StreamTurn)
  BY DEF StreamTurn, Fine
<1> QED
  BY <1>1, <1>2, <1>3, <1>4, <1>5, <1>6, <1>7, <1>8, <1>9, <1>10,
     <1>11, <1>12, <1>13, <1>14, <1>15, <1>16, <1>17, <1>18, <1>19

LEMMA ProgramsFine == \A k \in Kinds : Fine(Program[k])
BY TurnsFine DEF Kinds, Program

\* A promised action has no effect that runs twice; what is closed is closed at its end.
LEMMA ProgramsKeep ==
    /\ kind \in Kinds => \A a \in Promised : Guarded(Program[kind], a)
    /\ \A k \in {"core", "protocolTx", "protocolIdem", "protocolRaw"} : Closes(Program[k])
    /\ Streams => \E i \in 1 .. Len(Prog) : Prog[i].op = "stream"
<1> USE DEF Do, Stage, Append1, Effect1, Tx, Plain, Keyed, Observed, Publish1, TurnOps, HttpKeyed, Once
<1> USE DEF Actions
<1>1. /\ Closes(CoreTurn) /\ Closes(ProtocolTx) /\ Closes(ProtocolIdem) /\ Closes(ProtocolRaw)
  <2>1. Closes(CoreTurn)
    <3>1. CoreTurn[11] = Append1("TURN_COMMITTED", "turn", {"logged"}) /\ Len(CoreTurn) = 11
      BY DEF CoreTurn
    <3>2. \A i \in 1 .. Len(CoreTurn) : CoreTurn[i].act \in Actions =>
            \E j \in 1 .. Len(CoreTurn) : Observes(CoreTurn[j], CoreTurn[i].act)
      BY DEF CoreTurn, Observes
    <3> QED
      BY <3>1, <3>2 DEF Closes
  <2>2. Closes(ProtocolTx)
    BY DEF Closes, Observes, ProtocolTx
  <2>3. Closes(ProtocolIdem)
    BY DEF Closes, Observes, ProtocolIdem
  <2>4. Closes(ProtocolRaw)
    BY DEF Closes, Observes, ProtocolRaw
  <2> QED
    BY <2>1, <2>2, <2>3, <2>4
<1>2. \A a \in Actions :
        /\ Guarded(RunAgenttx, a) /\ Guarded(TurnIdem, a) /\ Guarded(TurnOutbox, a)
        /\ Guarded(CoreTurn, a) /\ Guarded(EvalTurn, a) /\ Guarded(AgentTurn, a)
  BY DEF Guarded, RunAgenttx, TurnIdem, TurnOutbox, CoreTurn, EvalTurn, AgentTurn
<1>3. /\ Guarded(RunDbos, "charge") /\ Guarded(Dbos, "charge") /\ Guarded(ProtocolTx, "charge")
      /\ Guarded(ProtocolIdem, "charge") /\ Guarded(Tau2AgentTx, "charge") /\ Guarded(Tau2Live, "charge")
  BY DEF Guarded, RunDbos, Dbos, ProtocolTx, ProtocolIdem, Tau2AgentTx, Tau2Live
<1>4. /\ \E i \in 1 .. Len(EvalTurn) : EvalTurn[i].op = "stream"
      /\ \E i \in 1 .. Len(StreamTurn) : StreamTurn[i].op = "stream"
  <2>1. EvalTurn[10].op = "stream" /\ 10 \in 1 .. Len(EvalTurn)
    BY DEF EvalTurn
  <2>2. StreamTurn[1].op = "stream" /\ 1 \in 1 .. Len(StreamTurn)
    BY DEF StreamTurn
  <2> QED
    BY <2>1, <2>2
<1>5. Streams => Prog \in {EvalTurn, StreamTurn}
  BY DEF Streams, Prog, Program
<1> HIDE DEF Closes, Guarded
<1>6. Streams => \E i \in 1 .. Len(Prog) : Prog[i].op = "stream"
  BY <1>4, <1>5
<1> QED
  BY <1>1, <1>2, <1>3, <1>6 DEF Kinds, Program, Promised

LEMMA Well == ASSUME kind \in Kinds
              PROVE  /\ StepsFine(Prog) /\ TxFine(Prog) /\ RecordsFine(Prog) /\ EffectsFine(Prog)
                     /\ \A a \in Promised : Guarded(Prog, a)
BY ProgramsFine, ProgramsKeep DEF Prog, Fine

LEMMA Fixed == ASSUME [Next]_vars PROVE kind' = kind /\ Prog' = Prog /\ Promised' = Promised
BY DEF Next, Work, Skip, StageEffect, StageRecord, Commit, AppendRecord, RawEffect, WriteTemp, Publish,
       Resume, Send, StreamEnd, Start, Exit, Crash, Stop, Advance, vars, Prog, Promised

\* The steps of the worker that go on to the next step of the program.
LEMMA AtStep == ASSUME AuditTypes, ~Clean
                PROVE  /\ pc \in 1 .. Len(Prog) /\ Current = Prog[pc]
                       /\ Current.op \in Ops /\ Current.type \in Types /\ Current.act \in Acts
                       /\ [type |-> Current.type, act |-> Current.act] \in Entry
<1> USE Well
<1> QED
  BY DEF AuditTypes, Clean, Current, Prog, StepsFine, Entry

(***************************************************************************)
(* The transaction.                                                        *)
(***************************************************************************)
\* Between two stages the worker is in the transaction; the steps of other kinds
\* are outside of it.
LEMMA TxSteps ==
    ASSUME AuditTypes, phase = "work", ~Clean
    PROVE  /\ InTx <=> pc > 1 /\ Prog[pc - 1].op = "stage"
           /\ InTx => Current.op \in {"stage", "commit"}
           /\ Current.op = "commit" => InTx
           /\ Current.op = "stage" => pc < Len(Prog)
<1>1. pc \in 1 .. Len(Prog) /\ Current = Prog[pc] /\ Len(Prog) \in Nat
  BY AtStep, Well DEF AuditTypes, StepsFine
<1>2. TxFine(Prog)
  BY Well DEF AuditTypes
<1>3. InTx <=> pc > 1 /\ Prog[pc - 1].op = "stage"
  BY <1>1 DEF InTx
<1>4. InTx => Current.op \in {"stage", "commit"}
  <2> SUFFICES ASSUME InTx PROVE Prog[pc].op \in {"stage", "commit"}
    BY <1>1
  <2>1. pc - 1 \in 1 .. Len(Prog) /\ pc - 1 + 1 = pc /\ Prog[pc - 1].op = "stage"
    BY <1>1, <1>3
  <2>2. Prog[pc - 1 + 1].op \in {"stage", "commit"}
    BY <1>2, <2>1 DEF TxFine
  <2> QED
    BY <2>1, <2>2
<1>5. Current.op = "commit" => InTx
  BY <1>1, <1>2, <1>3 DEF TxFine
<1>6. Current.op = "stage" => pc < Len(Prog)
  BY <1>1, <1>2 DEF TxFine
<1> QED
  BY <1>3, <1>4, <1>5, <1>6

\* What the commit of the transaction is.
LEMMA CommitSteps ==
    ASSUME AuditTypes, ~Clean, Current.op = "commit"
    PROVE  Current.act = "charge" /\ Current.skip = Once
<1>1. pc \in 1 .. Len(Prog) /\ Current = Prog[pc]
  BY AtStep
<1>2. TxFine(Prog)
  BY Well DEF AuditTypes
<1> QED
  BY <1>1, <1>2 DEF TxFine

\* What a stage of the transaction is.
LEMMA StageSteps ==
    ASSUME AuditTypes, phase = "work", ~Clean, Current.op = "stage"
    PROVE  \/ /\ Current.type = "EFFECT" /\ Current.act = "charge" /\ Current.skip = Once
              /\ Prog[pc + 1].op = "stage" /\ ~InTx
           \/ /\ Current.type = "COMPLETED" /\ Current.act = "charge" /\ Current.skip = Once
              /\ Prog[pc + 1].op = "commit" /\ InTx
           \/ Current.type = "OUTBOX" /\ Prog[pc + 1].op = "stage" /\ InTx
<1>1. pc \in 1 .. Len(Prog) /\ Current = Prog[pc] /\ Len(Prog) \in Nat
  BY AtStep, Well DEF AuditTypes, StepsFine
<1>2. TxFine(Prog)
  BY Well DEF AuditTypes
<1> QED
  BY <1>1, <1>2, TxSteps DEF TxFine

\* After a step of the program the worker is in the transaction if that step
\* was a stage.
LEMMA InTxAfter ==
    ASSUME AuditTypes, phase = "work", ~Clean, Advance, Prog' = Prog
    PROVE  InTx' <=> Current.op = "stage"
<1>1. pc \in 1 .. Len(Prog) /\ Current = Prog[pc] /\ Len(Prog) \in Nat
  BY AtStep, Well DEF AuditTypes, StepsFine
<1> QED
  BY <1>1, TxSteps DEF Advance, InTx

LEMMA TypesNext == ASSUME AuditTypes, ClientInv, [Next]_vars PROVE AuditTypes'
<1>1. kind' = kind /\ Prog' = Prog
  BY Fixed
<1>2. Len(Prog) \in Nat
  BY Well DEF AuditTypes, StepsFine
<1>3. OutLen \in Nat \ {0}
  BY TurnAuditAssumption
<1>4. ASSUME ~Clean, Advance PROVE pc' \in 1 .. Len(Prog) + 1
  BY <1>2, <1>4, AtStep DEF Advance
<1>5. CASE Skip
  BY <1>1, <1>4, <1>5 DEF AuditTypes, Skip, Advance, durable, uncommitted
<1>6. CASE StageEffect \/ StageRecord
  <2>1. CASE StageEffect
    <3>1. Current.act = "charge"
      BY <2>1, StageSteps DEF StageEffect, Now
    <3>2. pending' \in [Actions -> Nat]
      BY <2>1, <3>1 DEF StageEffect, AuditTypes, Actions
    <3> QED
      BY <1>1, <1>4, <2>1, <3>2 DEF AuditTypes, StageEffect, Advance, Now, durable
  <2>2. CASE StageRecord
    <3>1. staged' \in Seq(Entry)
      BY <2>2, AtStep DEF AuditTypes, StageRecord, Now
    <3> QED
      BY <1>1, <1>4, <2>2, <3>1 DEF AuditTypes, StageRecord, Advance, Now, durable
  <2> QED
    BY <1>6, <2>1, <2>2
<1>7. CASE AppendRecord
  BY <1>1, <1>4, <1>7, AtStep DEF AuditTypes, AppendRecord, Advance, Now, uncommitted
<1>8. CASE RawEffect \/ WriteTemp \/ Publish
  <2>1. count' \in [Actions -> Nat]
    BY <1>8 DEF AuditTypes, RawEffect, WriteTemp, Publish
  <2> QED
    BY <1>1, <1>4, <1>8, <2>1 DEF AuditTypes, RawEffect, WriteTemp, Publish, Advance, Now, uncommitted
<1>9. CASE Commit
  BY <1>1, <1>4, <1>9, AtStep DEF AuditTypes, Commit, Advance, Now, NoneYet
<1>10. CASE Resume
  <2>1. seq' \in 0 .. OutLen + 1
    BY <1>3, <1>10 DEF Resume, KnownAcks, ClientInv
  <2> QED
    BY <1>1, <1>10, <2>1 DEF AuditTypes, Resume, durable, uncommitted
<1>11. CASE Send
  <2>1. seq' \in 0 .. OutLen + 1
    BY <1>3, <1>11 DEF Send, AuditTypes
  <2> QED
    BY <1>1, <1>11, <2>1 DEF AuditTypes, Send, uncommitted
<1>12. CASE StreamEnd
  BY <1>1, <1>2, <1>3, <1>12, AtStep DEF AuditTypes, StreamEnd, Now, durable, uncommitted
<1>13. CASE Start \/ Exit \/ Stop
  BY <1>1, <1>2, <1>13 DEF AuditTypes, Start, Exit, Stop, durable, uncommitted
<1>14. CASE Crash
  BY <1>1, <1>2, <1>3, <1>14 DEF AuditTypes, Crash, durable, NoneYet
<1>15. CASE UNCHANGED vars
  BY <1>1, <1>15 DEF vars, durable, uncommitted, AuditTypes
<1> QED
  BY <1>5, <1>6, <1>7, <1>8, <1>9, <1>10, <1>11, <1>12, <1>13, <1>14, <1>15 DEF Next, Work

(***************************************************************************)
(* What is durable only grows.                                             *)
(***************************************************************************)
LEMMA RecordsGrow ==
    ASSUME AuditTypes, ClientInv, [Next]_vars
    PROVE  /\ Len(records) <= Len(records')
           /\ \A i \in 1 .. Len(records) : records'[i] = records[i]
           /\ \A type, a : Has(type, a) => Has(type, a)'
<1>1. /\ Len(records) <= Len(records')
      /\ \A i \in 1 .. Len(records) : records'[i] = records[i]
  <2>1. CASE Commit
    BY <2>1 DEF Commit, AuditTypes
  <2>2. CASE AppendRecord
    <3>1. [type |-> Current.type, act |-> Current.act] \in Entry
      BY <2>2, AtStep DEF AppendRecord, Now
    <3> QED
      BY <2>2, <3>1 DEF AppendRecord, AuditTypes
  <2>3. CASE records' = records
    BY <2>3 DEF AuditTypes
  <2> QED
    BY <2>1, <2>2, <2>3
       DEF Next, Work, Skip, StageEffect, StageRecord, RawEffect, WriteTemp, Publish,
           Resume, Send, StreamEnd, Start, Exit, Crash, Stop, durable, vars
<1>2. Len(records) \in Nat /\ Len(records') \in Nat
  BY TypesNext DEF AuditTypes
<1> QED
  BY <1>1, <1>2 DEF Has

LEMMA CountsGrow ==
    ASSUME AuditTypes, [Next]_vars
    PROVE  \A a \in Actions : count[a] > 0 => count'[a] > 0
<1>1. CASE Commit
  BY <1>1 DEF Commit, AuditTypes
<1>2. CASE RawEffect
  BY <1>2 DEF RawEffect, AuditTypes
<1>3. CASE Publish
  BY <1>3 DEF Publish, AuditTypes
<1>4. CASE count' = count
  BY <1>4
<1> QED
  BY <1>1, <1>2, <1>3, <1>4
     DEF Next, Work, Skip, StageEffect, StageRecord, AppendRecord, WriteTemp,
         Resume, Send, StreamEnd, Start, Exit, Crash, Stop, durable, vars

LEMMA AckGrows ==
    ASSUME AuditTypes, ClientInv, [Next]_vars
    PROVE  client'.ack >= client.ack /\ client'.ack \in 0 .. OutLen
<1>1. client.ack \in 0 .. OutLen /\ OutLen \in Nat
  BY TurnAuditAssumption DEF ClientInv
<1>2. CASE Send
  BY <1>1, <1>2 DEF Send, Delivered
<1>3. CASE client' = client
  BY <1>1, <1>3
<1> QED
  BY <1>2, <1>3
     DEF Next, Work, Skip, StageEffect, StageRecord, Commit, AppendRecord, RawEffect, WriteTemp, Publish,
         Resume, StreamEnd, Start, Exit, Crash, Stop, durable, vars

\* A step that lies behind the worker stays done.
LEMMA DoneStays ==
    ASSUME AuditTypes, ClientInv, [Next]_vars, NEW i \in 1 .. Len(Prog), Done(Prog[i])
    PROVE  Done(Prog[i])'
<1>1. Prog' = Prog
  BY Fixed
<1>2. Prog[i].op \in Durable => Prog[i].act \in Actions
  BY Well DEF AuditTypes, StepsFine
<1>3. client.ack = OutLen => client'.ack = OutLen
  BY AckGrows, TurnAuditAssumption
<1> QED
  BY <1>1, <1>2, <1>3, RecordsGrow, CountsGrow DEF Done

LEMMA TxInvNext ==
    ASSUME AuditTypes, ClientInv, TxInv, [Next]_vars
    PROVE  TxInv'
<1>1. kind' = kind /\ Prog' = Prog /\ AuditTypes' /\ (Charged => Charged')
  BY Fixed, TypesNext, RecordsGrow DEF Charged
<1> DEFINE rec == [type |-> "COMPLETED", act |-> "charge"]
\* Outside of the transaction nothing is pending.
<1>2. ASSUME ~InTx, ~InTx', pending' = pending, staged' = staged PROVE TxInv'
  BY <1>2 DEF TxInv
<1>3. ASSUME ~InTx', pending' = NoneYet, staged' = <<>> PROVE TxInv'
  BY <1>3 DEF TxInv, NoneYet
<1>4. CASE Skip
  <2>1. phase = "work" /\ ~Clean /\ Passed(Current) /\ Advance /\ UNCHANGED <<uncommitted, durable>>
    BY <1>4 DEF Skip
  <2>2. pending' = pending /\ staged' = staged /\ records' = records /\ (Charged <=> Charged')
    BY <2>1 DEF uncommitted, durable, Charged, Has
  <2>3. InTx' <=> Current.op = "stage"
    BY <1>1, <2>1, InTxAfter
  <2>4. ASSUME Current.op = "commit" \/ (Current.op = "stage" /\ Current.type # "OUTBOX") PROVE Charged
    <3>1. Current.skip = Once /\ Current.act = "charge"
      BY <2>1, <2>4, StageSteps, CommitSteps
    <3> QED
      BY <2>1, <3>1 DEF Passed, Once, Charged
  <2>5. CASE Charged
    BY <2>2, <2>5 DEF TxInv
  <2>6. CASE ~Charged /\ InTx
    <3>1. Current.op = "stage" /\ Current.type = "OUTBOX" /\ Prog[pc + 1].op = "stage" /\ Prog[pc].op = "stage"
      BY <2>1, <2>4, <2>6, TxSteps, StageSteps, AtStep
    <3>2. pc' = pc + 1
      BY <2>1 DEF Advance
    <3> QED
      BY <1>1, <2>2, <2>3, <2>6, <3>1, <3>2 DEF TxInv
  <2>7. CASE ~Charged /\ ~InTx
    <3>1. Current.op # "stage"
      BY <2>1, <2>4, <2>7, StageSteps
    <3> QED
      BY <1>2, <2>2, <2>3, <2>7, <3>1
  <2> QED
    BY <2>5, <2>6, <2>7
<1>5. CASE StageEffect
  <2>1. phase = "work" /\ ~Clean /\ Current.op = "stage" /\ Current.type = "EFFECT" /\ ~Passed(Current) /\ Advance
        /\ pending' = [pending EXCEPT ![Current.act] = @ + 1] /\ staged' = staged /\ records' = records
    BY <1>5 DEF StageEffect, Now, durable
  <2>2. Current.act = "charge" /\ Current.skip = Once /\ Prog[pc + 1].op = "stage" /\ ~InTx
    BY <2>1, StageSteps
  <2>3. InTx' /\ pc' = pc + 1
    BY <1>1, <2>1, InTxAfter DEF Advance
  <2>4. ~Charged /\ ~Charged'
    BY <2>1, <2>2 DEF Passed, Once, Charged, Has
  <2>5. \A a \in Actions : pending'[a] = IF a = "charge" THEN 1 ELSE 0
    BY <2>1, <2>2 DEF TxInv, AuditTypes, Actions
  <2> QED
    BY <1>1, <2>1, <2>2, <2>3, <2>4, <2>5 DEF TxInv
<1>6. CASE StageRecord
  <2>1. phase = "work" /\ ~Clean /\ Current.op = "stage" /\ Current.type # "EFFECT" /\ ~Passed(Current) /\ Advance
        /\ staged' = Append(staged, [type |-> Current.type, act |-> Current.act])
        /\ pending' = pending /\ records' = records
    BY <1>6 DEF StageRecord, Now, durable
  <2>2. /\ Len(staged') = Len(staged) + 1 /\ Len(staged) \in Nat
        /\ \A i \in 1 .. Len(staged) : staged'[i] = staged[i]
        /\ staged'[Len(staged) + 1] = [type |-> Current.type, act |-> Current.act]
    BY <2>1, AtStep DEF AuditTypes
  <2>3. InTx /\ InTx' /\ pc' = pc + 1 /\ Prog[pc].op = "stage" /\ (Charged <=> Charged')
    BY <1>1, <2>1, InTxAfter, StageSteps, AtStep DEF Advance, Charged, Has
  <2>4. \A i \in 1 .. Len(staged) : staged[i].type = "OUTBOX"
    BY <2>3 DEF TxInv
  <2>5. CASE Current.type = "OUTBOX"
    <3>1. Prog[pc + 1].op = "stage"
      BY <2>1, <2>5, StageSteps
    <3> QED
      BY <1>1, <2>1, <2>2, <2>3, <2>4, <2>5, <3>1 DEF TxInv
  <2>6. CASE Current.type = "COMPLETED"
    <3>1. Current.act = "charge" /\ Current.skip = Once /\ Prog[pc + 1].op = "commit"
      BY <2>1, <2>6, StageSteps
    <3>2. ~Charged
      BY <2>1, <3>1 DEF Passed, Once, Charged
    <3>3. \A i \in 1 .. Len(staged') : staged'[i].type = "OUTBOX" \/ staged'[i] = rec
      BY <2>2, <2>4, <2>6, <3>1
    <3>4. \E i \in 1 .. Len(staged') : staged'[i] = rec
      BY <2>2, <2>6, <3>1
    <3> QED
      BY <1>1, <2>1, <2>3, <3>1, <3>2, <3>3, <3>4 DEF TxInv
  <2> QED
    BY <2>1, <2>5, <2>6, StageSteps
<1>7. CASE Commit
  BY <1>1, <1>3, <1>7, InTxAfter DEF Commit, Now
<1>8. CASE AppendRecord \/ RawEffect \/ WriteTemp \/ Publish
  <2>1. ~InTx /\ ~InTx'
    BY <1>1, <1>8, InTxAfter, TxSteps DEF AppendRecord, RawEffect, WriteTemp, Publish, Now
  <2> QED
    BY <1>2, <1>8, <2>1 DEF AppendRecord, RawEffect, WriteTemp, Publish, uncommitted
<1>9. CASE Resume \/ Send \/ StreamEnd
  <2>1. phase = "work" /\ ~Clean /\ Current.op = "stream" /\ ~InTx
    BY <1>9, TxSteps DEF Resume, Send, StreamEnd, Now
  <2>2. pc' = pc \/ (pc' = pc + 1 /\ Prog[pc].op = "stream" /\ pc \in Nat)
    BY <1>9, <2>1, AtStep DEF Resume, Send, StreamEnd
  <2>3. ~InTx'
    BY <1>1, <1>9, <2>1, <2>2 DEF InTx, Resume, Send, StreamEnd
  <2> QED
    BY <1>2, <1>9, <2>1, <2>3 DEF Resume, Send, StreamEnd, uncommitted
<1>10. CASE Start \/ Exit \/ Stop
  <2>1. Len(Prog) \in Nat /\ pc \in Nat
    BY Well DEF AuditTypes, StepsFine
  <2>2. ~InTx /\ ~InTx'
    BY <1>10, <2>1 DEF Start, Exit, Stop, InTx, Clean, Prog
  <2> QED
    BY <1>2, <1>10, <2>2 DEF Start, Exit, Stop, uncommitted
<1>11. CASE Crash
  BY <1>3, <1>11 DEF Crash, InTx
<1>12. CASE UNCHANGED vars
  BY <1>1, <1>12 DEF vars, uncommitted, durable, TxInv, InTx, Charged, Has
<1> QED
  BY <1>4, <1>5, <1>6, <1>7, <1>8, <1>9, <1>10, <1>11, <1>12 DEF Next, Work

\* A commit completes the charge, which was not completed before.
LEMMA CommitCompletes ==
    ASSUME AuditTypes, TxInv, Commit
    PROVE  /\ ~Charged /\ Has("COMPLETED", "charge")'
           /\ \A a \in Actions : pending[a] = IF a = "charge" THEN 1 ELSE 0
<1>1. phase = "work" /\ ~Clean /\ Current.op = "commit" /\ ~Passed(Current)
  BY DEF Commit, Now
<1>2. pc \in 1 .. Len(Prog) /\ Current = Prog[pc] /\ InTx /\ Current.act = "charge" /\ Current.skip = Once
  BY <1>1, AtStep, TxSteps, CommitSteps
<1>3. ~Charged
  BY <1>1, <1>2 DEF Passed, Once, Charged
<1>4. \A a \in Actions : pending[a] = IF a = "charge" THEN 1 ELSE 0
  BY <1>2, <1>3 DEF TxInv
<1>5. Has("COMPLETED", "charge")'
  <2>1. PICK i \in 1 .. Len(staged) : staged[i] = [type |-> "COMPLETED", act |-> "charge"]
    BY <1>1, <1>2, <1>3 DEF TxInv
  <2>2. Len(records) + i \in 1 .. Len(records') /\ records'[Len(records) + i] = staged[i]
    BY <2>1 DEF Commit, AuditTypes
  <2> QED
    BY <2>1, <2>2 DEF Has
<1> QED
  BY <1>3, <1>4, <1>5

LEMMA CountInvNext ==
    ASSUME AuditTypes, ClientInv, TxInv, CountInv, [Next]_vars
    PROVE  CountInv'
<1>1. kind' = kind /\ Prog' = Prog /\ Promised' = Promised /\ AuditTypes' /\ (Charged => Charged')
  BY Fixed, TypesNext, RecordsGrow DEF Charged
<1> DEFINE hasTx == \E i \in 1 .. Len(Prog) : Prog[i].op = "commit"
<1>2. CASE count' = count
  BY <1>1, <1>2 DEF CountInv
<1>3. CASE Commit
  <2>1. /\ ~Charged /\ Charged'
        /\ \A a \in Actions : pending[a] = IF a = "charge" THEN 1 ELSE 0
    BY <1>3, CommitCompletes DEF Charged
  <2>2. pc \in 1 .. Len(Prog) /\ Prog[pc].op = "commit"
    BY <1>3, AtStep DEF Commit, Now
  <2>3. count["charge"] = 0
    BY <2>1, <2>2 DEF CountInv
  <2>4. count' = [a \in Actions |-> IF a = "charge" THEN 1 ELSE count[a]]
    BY <1>3, <2>1, <2>3 DEF Commit, AuditTypes, Actions
  <2>5. count'["charge"] = 1 /\ \A a \in Actions : a # "charge" => count'[a] = count[a]
    BY <2>4 DEF Actions
  <2>6. \A a \in Promised : count'[a] <= 1
    BY <2>5 DEF CountInv, Promised
  <2> QED
    BY <1>1, <2>1, <2>5, <2>6 DEF CountInv
<1>4. CASE RawEffect \/ Publish
  <2>1. phase = "work" /\ ~Clean /\ Current.op \in {"effect", "publish"} /\ ~Passed(Current)
    BY <1>4 DEF RawEffect, Publish, Now
  <2>2. pc \in 1 .. Len(Prog) /\ Current = Prog[pc]
    BY <2>1, AtStep
  <2>3. hasTx => Current.act # "charge"
    BY <2>1, <2>2, Well DEF AuditTypes, TxFine
  <2>4. Promised \subseteq Actions
    BY DEF Promised
  <2>5. Current.op = "effect" /\ Current.act \in Promised => count[Current.act] = 0
    <3>1. Current.op = "effect" /\ Current.act \in Promised => "exists" \in Current.skip
      BY <2>2, Well DEF AuditTypes, Guarded
    <3> QED
      BY <2>1, <2>4, <3>1 DEF Passed, AuditTypes
  <2>6. \A a \in Actions : a # Current.act => count'[a] = count[a]
    BY <1>4 DEF RawEffect, Publish, AuditTypes
  <2>7. Current.act \in Promised => count'[Current.act] <= 1
    BY <1>4, <2>4, <2>5 DEF RawEffect, Publish, AuditTypes, Now
  <2>8. \A a \in Promised : count'[a] <= 1
    BY <2>4, <2>6, <2>7 DEF CountInv
  <2>9. hasTx => count'["charge"] = count["charge"]
    BY <2>3, <2>6 DEF Actions
  <2> QED
    BY <1>1, <2>8, <2>9 DEF CountInv
<1> QED
  BY <1>2, <1>3, <1>4
     DEF Next, Work, Skip, StageEffect, StageRecord, AppendRecord, WriteTemp,
         Resume, Send, StreamEnd, Start, Exit, Crash, Stop, durable, vars

LEMMA PastInvNext ==
    ASSUME AuditTypes, ClientInv, TxInv, PastInv, RecordsInv, [Next]_vars
    PROVE  PastInv'
<1>1. kind' = kind /\ Prog' = Prog /\ AuditTypes'
  BY Fixed, TypesNext
<1>2. pc \in 1 .. Len(Prog) + 1 /\ Len(Prog) \in Nat
  BY Well DEF AuditTypes, StepsFine
<1>3. \A i \in 1 .. pc - 1 : Done(Prog[i])'
  BY <1>2, DoneStays DEF PastInv
<1>4. ASSUME ~Clean, pc' = pc + 1, NEW s, s = Prog[pc], Done(s)' PROVE PastInv'
  <2>1. \A i \in 1 .. pc : Done(Prog[i])'
    BY <1>1, <1>2, <1>3, <1>4 DEF Done
  <2> QED
    BY <1>1, <1>2, <1>4, <2>1 DEF PastInv
<1>5. CASE pc' = pc
  BY <1>1, <1>3, <1>5 DEF PastInv
<1>6. CASE pc' = 1
  BY <1>6 DEF PastInv
<1>7. ASSUME phase = "work", ~Clean
      PROVE  /\ Current = Prog[pc] /\ Current.op \in Ops /\ Current.act \in Acts
             /\ Current.op \in Durable => Current.act \in Actions
             /\ "exists" \in Current.skip => Current.op \in {"effect", "write", "publish"}
             /\ "logged" \in Current.skip => Current.op = "append"
             /\ "recorded" \in Current.skip => Current.op # "stream"
  BY <1>2, <1>7, AtStep, Well DEF AuditTypes, StepsFine
<1>8. CASE Skip
  <2> PICK s : s = Prog[pc]
    OBVIOUS
  <2>1. phase = "work" /\ ~Clean /\ Passed(Current) /\ pc' = pc + 1
    BY <1>8 DEF Skip, Advance
  <2>2. Has("COMPLETED", Current.act) => Current.act \in Actions /\ count[Current.act] > 0
    BY DEF Has, RecordsInv, Claims
  <2>3. Done(Current)
    BY <1>7, <2>1, <2>2 DEF Passed, Done, Durable
  <2>4. count' = count /\ records' = records /\ client' = client
    BY <1>8 DEF Skip, durable
  <2>5. Done(s)'
    BY <1>7, <2>1, <2>3, <2>4 DEF Done, Has
  <2> QED
    BY <1>4, <2>1, <2>5
<1>9. CASE StageEffect \/ StageRecord \/ WriteTemp
  <2> PICK s : s = Prog[pc]
    OBVIOUS
  <2>1. phase = "work" /\ ~Clean /\ Current.op \notin Durable \cup {"append", "stream"} /\ pc' = pc + 1
    BY <1>9 DEF StageEffect, StageRecord, WriteTemp, Now, Advance, Durable
  <2> QED
    BY <1>1, <1>4, <1>7, <2>1 DEF Done, Durable
<1>10. CASE Commit
  <2> PICK s : s = Prog[pc]
    OBVIOUS
  <2>1. phase = "work" /\ ~Clean /\ Current.op = "commit" /\ pc' = pc + 1
    BY <1>10 DEF Commit, Now, Advance
  <2>2. s.act = "charge" /\ s.op = "commit"
    BY <1>7, <2>1, CommitSteps
  <2>3. Has("COMPLETED", "charge")' /\ pending["charge"] = 1
    BY <1>10, CommitCompletes DEF Actions
  <2>4. count'["charge"] > 0
    BY <1>10, <2>3 DEF Commit, AuditTypes, Actions
  <2> QED
    BY <1>4, <2>1, <2>2, <2>3, <2>4 DEF Done
<1>11. CASE AppendRecord
  <2> PICK s : s = Prog[pc]
    OBVIOUS
  <2>1. phase = "work" /\ ~Clean /\ Current.op = "append" /\ pc' = pc + 1
    BY <1>11 DEF AppendRecord, Now, Advance
  <2>2. Has(s.type, s.act)'
    <3> PICK r : r = [type |-> s.type, act |-> s.act]
      OBVIOUS
    <3>1. records' = Append(records, r) /\ r \in Entry
      BY <1>7, <1>11, <2>1, AtStep DEF AppendRecord
    <3>2. Len(records) + 1 \in 1 .. Len(records') /\ records'[Len(records) + 1] = r
      BY <3>1 DEF AuditTypes
    <3> QED
      BY <3>2 DEF Has
  <2> QED
    BY <1>1, <1>4, <1>7, <2>1, <2>2 DEF Done, Durable
<1>12. CASE RawEffect \/ Publish
  <2> PICK s : s = Prog[pc]
    OBVIOUS
  <2>1. phase = "work" /\ ~Clean /\ Current.op \in {"effect", "publish"} /\ pc' = pc + 1
    BY <1>12 DEF RawEffect, Publish, Now, Advance
  <2>2. count'[s.act] > 0
    BY <1>7, <1>12, <2>1 DEF RawEffect, Publish, AuditTypes, Durable
  <2> QED
    BY <1>1, <1>4, <1>7, <2>1, <2>2 DEF Done
\* The worker has sent all it has, and it sends nothing ahead of the client.
<1>13. CASE StreamEnd
  <2> PICK s : s = Prog[pc]
    OBVIOUS
  <2>1. /\ phase = "work" /\ ~Clean /\ Current.op = "stream" /\ pc' = pc + 1
        /\ seq > OutLen /\ client' = client
    BY <1>13 DEF StreamEnd, Now, durable
  <2>2. client.ack = OutLen
    BY <2>1, TurnAuditAssumption DEF AuditTypes, ClientInv
  <2> QED
    BY <1>4, <1>7, <2>1, <2>2 DEF Done, Durable
<1> QED
  BY <1>5, <1>6, <1>8, <1>9, <1>10, <1>11, <1>12, <1>13
     DEF Next, Work, Resume, Send, Start, Exit, Crash, Stop, vars

LEMMA HasEntry == ASSUME AuditTypes, NEW i \in 1 .. Len(records)
                  PROVE  Has(records[i].type, records[i].act)
<1>1. records[i] \in Entry
  BY DEF AuditTypes
<1>2. records[i] = [type |-> records[i].type, act |-> records[i].act]
  BY <1>1 DEF Entry
<1> QED
  BY <1>2 DEF Has

\* What the step that appends a record knows of the others.
LEMMA AppendSteps ==
    ASSUME AuditTypes, PastInv, RecordsInv, phase = "work", ~Clean, Current.op = "append", ~Passed(Current)
    PROVE  /\ Current.type \in Claims => Current.act \in Actions /\ count[Current.act] > 0
           /\ Current.type = "COMPLETED" => ~Has("OBSERVED", Current.act)
           /\ Current.type = "OBSERVED" =>
                 /\ \E i \in 1 .. Len(Prog) : Observes(Prog[i], Current.act)
                 /\ \A j \in 1 .. Len(Prog) : Completes(Prog[j], Current.act) => Has("COMPLETED", Current.act)
<1>1. pc \in 1 .. Len(Prog) /\ Len(Prog) \in Nat /\ Current = Prog[pc] /\ Current.act \in Acts
  BY AtStep, Well DEF AuditTypes, StepsFine
<1>2. StepsFine(Prog) /\ TxFine(Prog) /\ RecordsFine(Prog)
  BY Well DEF AuditTypes
<1>3. ASSUME Current.type \in Claims PROVE Current.act \in Actions /\ count[Current.act] > 0
  <2>1. Current.act \in Actions /\ DoneBefore(Prog, pc, Current.act)
    BY <1>1, <1>2, <1>3 DEF RecordsFine
  <2>2. PICK j \in 1 .. pc - 1 : Prog[j].op \in Durable /\ Prog[j].act = Current.act
    BY <2>1 DEF DoneBefore
  <2> QED
    BY <2>1, <2>2 DEF PastInv, Done
<1>4. ASSUME Current.type = "COMPLETED", Has("OBSERVED", Current.act) PROVE FALSE
  <2>1. Completes(Prog[pc], Current.act)
    BY <1>1, <1>4 DEF Completes
  <2>2. Has("COMPLETED", Current.act)
    BY <1>1, <1>4, <2>1 DEF RecordsInv
  <2>3. PICK i \in 1 .. Len(Prog) : Observes(Prog[i], Current.act)
    BY <1>1, <1>4 DEF RecordsInv
  <2>4. "recorded" \in Current.skip
    BY <1>1, <1>2, <2>1, <2>3 DEF RecordsFine, Observes
  <2> QED
    BY <2>2, <2>4 DEF Passed
<1>5. ASSUME Current.type = "OBSERVED" PROVE Observes(Prog[pc], Current.act)
  BY <1>1, <1>5 DEF Observes
<1>6. ASSUME Current.type = "OBSERVED", NEW j \in 1 .. Len(Prog), Completes(Prog[j], Current.act)
      PROVE  Has("COMPLETED", Current.act)
  <2>1. j \in 1 .. pc - 1
    BY <1>1, <1>2, <1>6 DEF RecordsFine
  <2>2. CASE Prog[j].op = "append"
    BY <1>6, <2>1, <2>2 DEF PastInv, Done, Completes
  <2>3. CASE Prog[j].op = "stage"
    <3>1. Prog[j].act = "charge" /\ Prog[j + 1].op = "commit" /\ j + 1 \in 1 .. Len(Prog)
      BY <1>1, <1>2, <1>6, <2>1, <2>3 DEF TxFine, Completes
    <3>2. j + 1 # pc
      BY <1>1, <3>1
    <3>3. j + 1 \in 1 .. pc - 1 /\ Prog[j + 1].act = "charge"
      BY <1>1, <1>2, <2>1, <3>1, <3>2 DEF TxFine
    <3> QED
      BY <1>6, <3>1, <3>3 DEF PastInv, Done, Completes
  <2> QED
    BY <1>6, <2>2, <2>3 DEF Completes
<1> QED
  BY <1>1, <1>3, <1>4, <1>5, <1>6

\* A charge that is about to be committed was not observed before, and a commit
\* writes no other record that claims an effect.
LEMMA CommitUnobserved ==
    ASSUME AuditTypes, TxInv, RecordsInv, Commit
    PROVE  /\ ~Has("OBSERVED", "charge")
           /\ \A i \in 1 .. Len(staged) :
                 staged[i].type = "OUTBOX" \/ staged[i] = [type |-> "COMPLETED", act |-> "charge"]
<1>1. pc \in 1 .. Len(Prog) /\ Len(Prog) \in Nat /\ Prog[pc].op = "commit"
  BY AtStep, Well DEF AuditTypes, StepsFine, Commit, Now
<1>2. TxFine(Prog)
  BY Well DEF AuditTypes
<1>3. pc > 1 /\ Prog[pc - 1].op = "stage" /\ Prog[pc - 1].type = "COMPLETED"
  BY <1>1, <1>2 DEF TxFine
<1>4. Completes(Prog[pc - 1], "charge") /\ pc - 1 \in 1 .. Len(Prog)
  BY <1>1, <1>2, <1>3 DEF Completes, TxFine
<1>5. ~Has("OBSERVED", "charge")
  BY <1>4, CommitCompletes DEF RecordsInv, Charged, Acts, Actions
<1> QED
  BY <1>5 DEF TxInv

LEMMA RecordsInvNext ==
    ASSUME AuditTypes, ClientInv, TxInv, PastInv, RecordsInv, [Next]_vars
    PROVE  RecordsInv'
<1>1. kind' = kind /\ Prog' = Prog /\ AuditTypes'
  BY Fixed, TypesNext
<1>2. CASE UNCHANGED records
  BY <1>1, <1>2, CountsGrow DEF RecordsInv, Has
<1>3. CASE AppendRecord
  <2> PICK r : r = [type |-> Current.type, act |-> Current.act]
    OBVIOUS
  <2>1. phase = "work" /\ ~Clean /\ Current.op = "append" /\ ~Passed(Current) /\ r \in Entry
    BY <1>3, AtStep DEF AppendRecord, Now
  <2>2. /\ records' = Append(records, r) /\ count' = count
    BY <1>3 DEF AppendRecord
  <2>3. /\ Len(records') = Len(records) + 1 /\ Len(records) \in Nat /\ records'[Len(records) + 1] = r
        /\ \A i \in 1 .. Len(records) : records'[i] = records[i]
    BY <2>1, <2>2 DEF AuditTypes
  <2>4. /\ r.type \in Claims => r.act \in Actions /\ count[r.act] > 0
        /\ r.type = "COMPLETED" => ~Has("OBSERVED", r.act)
        /\ r.type = "OBSERVED" =>
              /\ \E i \in 1 .. Len(Prog) : Observes(Prog[i], r.act)
              /\ \A j \in 1 .. Len(Prog) : Completes(Prog[j], r.act) => Has("COMPLETED", r.act)
    BY <2>1, AppendSteps
  <2>5. \A i \in 1 .. Len(records') :
          records'[i].type \in Claims => records'[i].act \in Actions /\ count'[records'[i].act] > 0
    BY <2>2, <2>3, <2>4 DEF RecordsInv
  <2>6. \A i \in 1 .. Len(records) : records[i].type = "OBSERVED" => Has("OBSERVED", records[i].act)
    BY HasEntry
  <2>7. \A i, j \in 1 .. Len(records') :
          /\ records'[i].type = "OBSERVED" /\ records'[j].type = "COMPLETED"
          /\ records'[i].act = records'[j].act
          => j < i
    BY <2>3, <2>4, <2>6 DEF RecordsInv
  <2>8. ASSUME NEW a \in Acts, Has("OBSERVED", a)'
        PROVE  Has("OBSERVED", a) \/ (r.type = "OBSERVED" /\ r.act = a)
    BY <2>3, <2>8 DEF Has
  <2>9. \A a : Has("COMPLETED", a) => Has("COMPLETED", a)'
    BY RecordsGrow
  <2> QED
    BY <1>1, <2>4, <2>5, <2>7, <2>8, <2>9 DEF RecordsInv
<1>4. CASE Commit
  <2>1. records' = records \o staged /\ count' = [a \in Actions |-> count[a] + pending[a]]
    BY <1>4 DEF Commit
  <2>2. /\ pending["charge"] = 1 /\ ~Has("OBSERVED", "charge")
        /\ \A i \in 1 .. Len(staged) :
              staged[i].type = "OUTBOX" \/ staged[i] = [type |-> "COMPLETED", act |-> "charge"]
    BY <1>4, CommitCompletes, CommitUnobserved DEF Actions
  <2>3. /\ Len(records) \in Nat /\ Len(staged) \in Nat /\ Len(records') = Len(records) + Len(staged)
        /\ \A i \in 1 .. Len(records) : records'[i] = records[i]
        /\ \A i \in 1 .. Len(records') :
              i > Len(records) => i - Len(records) \in 1 .. Len(staged) /\ records'[i] = staged[i - Len(records)]
    BY <2>1 DEF AuditTypes
  <2>4. \A i \in 1 .. Len(records') :
          i > Len(records) =>
              records'[i].type = "OUTBOX" \/ records'[i] = [type |-> "COMPLETED", act |-> "charge"]
    BY <2>2, <2>3
  <2>5. count'["charge"] > 0
    BY <2>1, <2>2 DEF AuditTypes, Actions
  <2>6. ASSUME NEW i \in 1 .. Len(records'), records'[i].type \in Claims
        PROVE  records'[i].act \in Actions /\ count'[records'[i].act] > 0
    <3>1. CASE i \in 1 .. Len(records)
      BY <2>3, <2>6, <3>1, CountsGrow DEF RecordsInv
    <3>2. CASE i > Len(records)
      BY <2>4, <2>5, <2>6, <3>2 DEF Claims, Actions
    <3> QED
      BY <2>3, <3>1, <3>2
  <2>7. \A i \in 1 .. Len(records) : records[i].type = "OBSERVED" => records[i].act # "charge"
    BY <2>2, HasEntry
  <2>8. ASSUME NEW i \in 1 .. Len(records'), NEW j \in 1 .. Len(records'),
               records'[i].type = "OBSERVED", records'[j].type = "COMPLETED", records'[i].act = records'[j].act
        PROVE  j < i
    <3>1. i \in 1 .. Len(records) /\ records'[i] = records[i] /\ records[i].act # "charge"
      BY <2>3, <2>4, <2>7, <2>8
    <3>2. CASE j \in 1 .. Len(records)
      BY <2>3, <2>8, <3>1, <3>2 DEF RecordsInv
    <3>3. CASE j > Len(records)
      BY <2>4, <2>8, <3>1, <3>3
    <3> QED
      BY <2>3, <3>2, <3>3
  <2>9. ASSUME NEW a \in Acts, Has("OBSERVED", a)' PROVE Has("OBSERVED", a)
    BY <2>3, <2>4, <2>9 DEF Has
  <2>10. \A a : Has("COMPLETED", a) => Has("COMPLETED", a)'
    BY RecordsGrow
  <2> QED
    BY <1>1, <2>6, <2>8, <2>9, <2>10 DEF RecordsInv
<1> QED
  BY <1>2, <1>3, <1>4
     DEF Next, Work, Skip, StageEffect, StageRecord, RawEffect, WriteTemp, Publish,
         Resume, Send, StreamEnd, Start, Exit, Crash, Stop, durable, vars

(***************************************************************************)
(* The client.                                                             *)
(***************************************************************************)
LEMMA OneMore == ASSUME NEW k \in Nat
                 PROVE  Append([n \in 1 .. k |-> n], k + 1) = [n \in 1 .. k + 1 |-> n]
<1>1. [n \in 1 .. k |-> n] \in Seq(Nat) /\ Len([n \in 1 .. k |-> n]) = k
  OBVIOUS
<1> QED
  BY <1>1

LEMMA ClientInvNext ==
    ASSUME AuditTypes, ClientInv, [Next]_vars
    PROVE  ClientInv'
<1>1. kind' = kind /\ Prog' = Prog /\ Streams' = Streams
  BY Fixed DEF Streams
<1>2. CASE Send
  <2>1. /\ client' = Delivered(seq) /\ seq \in 1 .. OutLen /\ phase' = "work" /\ OutLen \in Nat
        /\ seq' = seq + 1
    BY <1>2, TurnAuditAssumption DEF Send, Now
  <2>2. CASE seq = client.ack + 1
    <3>1. client.received = [n \in 1 .. client.ack |-> n] /\ client.ack \in Nat
      BY DEF ClientInv
    <3>2. client' = [ack |-> client.ack + 1, received |-> [n \in 1 .. client.ack + 1 |-> n]]
      BY <2>1, <2>2, <3>1, OneMore DEF Delivered
    <3> QED
      BY <2>1, <2>2, <3>2 DEF ClientInv
  <2>3. CASE seq # client.ack + 1
    BY <2>1, <2>3 DEF Delivered, ClientInv
  <2> QED
    BY <2>2, <2>3
<1>3. CASE Stop
  <2>1. Clean \/ (Streams /\ client.ack = OutLen)
    BY <1>3, TurnAuditAssumption DEF Stop, MayEnd, Wanted, Streams, ClientInv
  <2> QED
    BY <1>1, <1>3, <2>1 DEF Stop, ClientInv, Clean, Prog, durable
<1>4. CASE UNCHANGED vars
  BY <1>1, <1>4 DEF vars, durable, ClientInv, Clean
<1>5. CASE Resume
  <2>1. seq' <= client.ack + 1
    BY <1>5, TurnAuditAssumption DEF Resume, KnownAcks, ClientInv
  <2> QED
    BY <1>5, <2>1 DEF Resume, Now, durable, ClientInv
<1>6. ASSUME client' = client, phase' # "end", seq' = seq \/ seq' = 0 PROVE ClientInv'
  BY <1>6 DEF ClientInv
<1> QED
  BY <1>2, <1>3, <1>4, <1>5, <1>6
     DEF Next, Work, Skip, StageEffect, StageRecord, Commit, AppendRecord, RawEffect, WriteTemp, Publish,
         StreamEnd, Start, Exit, Crash, Now, Advance, durable

LEMMA SentInvNext ==
    ASSUME AuditTypes, ClientInv, PastInv, SentInv, [Next]_vars
    PROVE  SentInv'
<1>1. kind' = kind /\ Prog' = Prog
  BY Fixed
<1>2. CASE Send
  <2>1. phase = "work" /\ ~Clean /\ Current.op = "stream" /\ count' = count
    BY <1>2 DEF Send, Now
  <2>2. pc \in 1 .. Len(Prog) /\ Prog[pc].op = "stream"
    BY <2>1, AtStep
  <2>3. ASSUME NEW i \in 1 .. Len(Prog), Prog[i].act \in Actions PROVE count[Prog[i].act] > 0
    <3>1. DoneBefore(Prog, pc, Prog[i].act)
      BY <2>2, <2>3, Well DEF AuditTypes, EffectsFine
    <3>2. PICK j \in 1 .. pc - 1 : Prog[j].op \in Durable /\ Prog[j].act = Prog[i].act
      BY <3>1 DEF DoneBefore
    <3> QED
      BY <3>2 DEF PastInv, Done
  <2> QED
    BY <1>1, <2>1, <2>3 DEF SentInv
<1>3. CASE client' = client
  BY <1>1, <1>3, CountsGrow DEF SentInv
<1> QED
  BY <1>2, <1>3
     DEF Next, Work, Skip, StageEffect, StageRecord, Commit, AppendRecord, RawEffect, WriteTemp, Publish,
         Resume, StreamEnd, Start, Exit, Crash, Stop, durable, vars
-----------------------------------------------------------------------------
LEMMA AuditInit == ASSUME Init PROVE AuditInv
<1>1. Len(Prog) \in Nat /\ OutLen \in Nat \ {0}
  BY Well, TurnAuditAssumption DEF Init, StepsFine
<1>2. AuditTypes
  BY <1>1 DEF Init, AuditTypes, NoneYet
<1>3. ~InTx /\ ~Charged /\ \A t, a : ~Has(t, a)
  BY DEF Init, InTx, Charged, Has
<1>4. client = [ack |-> 0, received |-> <<>>] /\ [n \in 1 .. 0 |-> n] = <<>>
  BY DEF Init
<1>5. ClientInv
  BY <1>1, <1>4 DEF Init, ClientInv
<1>6. Promised \subseteq Actions
  BY DEF Promised
<1>7. TxInv
  BY <1>3 DEF Init, TxInv, NoneYet
<1>8. CountInv
  <2>1. \A a \in Actions : count[a] = 0
    BY DEF Init, NoneYet
  <2>2. "charge" \in Actions
    BY DEF Actions
  <2> QED
    BY <1>6, <2>1, <2>2 DEF CountInv
<1>9. PastInv /\ SentInv
  BY DEF Init, PastInv, SentInv
<1>10. RecordsInv
  <2>1. 1 .. Len(records) = {}
    BY DEF Init
  <2> QED
    BY <1>3, <2>1 DEF RecordsInv
<1> QED
  BY <1>2, <1>5, <1>7, <1>8, <1>9, <1>10 DEF AuditInv

LEMMA AuditNext == ASSUME AuditInv, [Next]_vars PROVE AuditInv'
BY TypesNext, TxInvNext, CountInvNext, PastInvNext, RecordsInvNext, ClientInvNext, SentInvNext DEF AuditInv

LEMMA AuditInvariant == Spec => []AuditInv
<1>1. Init => AuditInv
  BY AuditInit
<1>2. AuditInv /\ [Next]_vars => AuditInv'
  BY AuditNext
<1> QED
  BY <1>1, <1>2, PTL DEF Spec

\* When the driver stops the client has the whole output: it was the driver's
\* condition, or the last worker came to the end of the program, streaming included.
LEMMA EndAck == ASSUME AuditInv, phase = "end", Streams PROVE client.ack = OutLen
<1>1. CASE Clean
  <2>1. PICK i \in 1 .. Len(Prog) : Prog[i].op = "stream"
    BY ProgramsKeep
  <2>2. pc = Len(Prog) + 1 /\ Len(Prog) \in Nat
    BY <1>1, Well DEF AuditInv, AuditTypes, Clean, Prog, StepsFine
  <2> QED
    BY <2>1, <2>2 DEF AuditInv, PastInv, Done
<1> QED
  BY <1>1 DEF AuditInv, ClientInv

\* When the driver stops, every action of the turn has taken effect: the last
\* attempt reached the end, or the client has tokens that no one sent before.
LEMMA NothingLost == ASSUME AuditInv, phase = "end", NEW a \in Performed PROVE count[a] > 0
<1>1. PICK i \in 1 .. Len(Prog) : Prog[i].act = a /\ a \in Actions
  BY DEF Performed, Prog
<1>2. CASE Streams
  BY <1>1, <1>2, EndAck, TurnAuditAssumption DEF AuditInv, SentInv
<1>3. CASE ~Streams
  <2>1. pc = Len(Prog) + 1
    BY <1>3 DEF AuditInv, ClientInv, Clean, Prog
  <2>2. DoneBefore(Prog, Len(Prog) + 1, a)
    BY <1>1, Well DEF AuditInv, AuditTypes, EffectsFine
  <2>3. PICK j \in 1 .. pc - 1 : Prog[j].op \in Durable /\ Prog[j].act = a
    BY <2>1, <2>2 DEF DoneBefore
  <2> QED
    BY <2>3 DEF AuditInv, PastInv, Done
<1> QED
  BY <1>2, <1>3

\* Whatever a harness promises takes effect at most once, wherever its workers and
\* its recoveries die, and nothing it performs is lost when its driver stops.
THEOREM EveryHarness == Spec => []OracleCorrect
<1>1. ASSUME AuditInv PROVE OracleCorrect
  <2>1. Performed \subseteq Actions
    BY DEF Performed
  <2>2. phase = "end" => \A a \in Performed : count[a] >= 1
    BY <1>1, <2>1, NothingLost DEF AuditInv, AuditTypes
  <2> QED
    BY <1>1, <2>2 DEF OracleCorrect, AuditInv, CountInv
<1> QED
  BY <1>1, AuditInvariant, PTL

\* The records of every harness are true, and in the order protocol.py asks for.
THEOREM RecordsTell == Spec => []RecordsSound
<1>1. ASSUME AuditInv PROVE RecordsSound
  <2>1. ASSUME phase = "end", kind \in {"core", "protocolTx", "protocolIdem", "protocolRaw"}
        PROVE  Has("TURN_COMMITTED", "turn") /\ \A a \in Performed : Has("OBSERVED", a)
    <3>1. Closes(Prog) /\ RecordsFine(Prog)
      BY <1>1, <2>1, ProgramsKeep, Well DEF Prog, AuditInv, AuditTypes
    <3>2. pc = Len(Prog) + 1 /\ Len(Prog) \in Nat
      BY <1>1, <2>1, Well DEF AuditInv, ClientInv, Streams, Clean, Prog, AuditTypes, StepsFine
    <3>3. \A i \in 1 .. Len(Prog) : Done(Prog[i])
      BY <1>1, <3>2 DEF AuditInv, PastInv
    <3>4. Has("TURN_COMMITTED", "turn")
      BY <3>1, <3>3 DEF Closes, Done
    <3>5. ASSUME NEW a \in Performed PROVE Has("OBSERVED", a)
      <4>1. PICK i \in 1 .. Len(Prog) : Prog[i].act = a /\ a \in Actions
        BY <3>5 DEF Performed, Prog
      <4>2. PICK j \in 1 .. Len(Prog) : Observes(Prog[j], a)
        BY <3>1, <4>1 DEF Closes
      <4> QED
        BY <3>1, <3>3, <4>2 DEF Done, Observes, RecordsFine
    <3> QED
      BY <3>4, <3>5
  <2> QED
    BY <1>1, <2>1 DEF RecordsSound, AuditInv, RecordsInv, Claims
<1> QED
  BY <1>1, AuditInvariant, PTL

\* The client's output is exact at every moment, whatever crashes, reroutes and
\* stale ACKs the workers meet, and complete when the driver stops, for a worker
\* that ends its stream has resumed no later than the client's next token.
THEOREM StreamKept == Spec => []StreamExact
<1>1. ASSUME AuditInv PROVE StreamExact
  BY <1>1, EndAck DEF AuditInv, ClientInv, StreamExact
<1> QED
  BY <1>1, AuditInvariant, PTL
=============================================================================
