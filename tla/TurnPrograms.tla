---------------------------- MODULE TurnPrograms ----------------------------
(***************************************************************************)
(* The turns that the crash-and-recover harnesses run, each as the         *)
(* sequence of durable steps one worker takes, in program order.  A crash  *)
(* is possible between any two steps, and a recovery runs the same program *)
(* again from its first step: what a step passes over because of what      *)
(* earlier attempts left behind is the step's "skip" set.                  *)
(*   op    stage    write inside an open transaction (or on a snapshot)    *)
(*         commit   the transaction, or the snapshot, becomes durable      *)
(*         append   one durable record of its own                          *)
(*         effect   an effect no key protects: a row or a new unique file  *)
(*         write    a temporary file                                       *)
(*         publish  its rename to the name that is keyed by the action     *)
(*         stream   the output, token by token                             *)
(*   skip  recorded the action has a completion record                     *)
(*         exists   the action's file or row is there                      *)
(*         logged   a record of this type is there                         *)
(***************************************************************************)
EXTENDS Sequences

Do(op, type, act, skip) == [op |-> op, type |-> type, act |-> act, skip |-> skip]
Stage(type, act, skip) == Do("stage", type, act, skip)
Append1(type, act, skip) == Do("append", type, act, skip)
Effect1(act, skip) == Do("effect", "EFFECT", act, skip)

\* Once its completion record is there, an action is passed over.
Once == {"recorded"}
\* Mutant: the completion record in a transaction of its own, after the effect's.
TxSplit(a) ==
    <<Stage("EFFECT", a, Once), Do("commit", "EFFECT", a, Once),
      Stage("COMPLETED", a, Once), Do("commit", "EFFECT", a, Once)>>
\* The effect and its completion record, in one transaction.
Tx(a) == <<Stage("EFFECT", a, Once), Stage("COMPLETED", a, Once), Do("commit", "EFFECT", a, Once)>>
\* An unprotected effect, and its completion record after it.
Plain(a, skip) == <<Effect1(a, skip), Append1("COMPLETED", a, skip)>>
\* A temporary file, renamed to the name the action's key gives.
Keyed(a, skip) == <<Do("write", "EFFECT", a, skip), Do("publish", "EFFECT", a, skip)>>
-----------------------------------------------------------------------------
(* gate1/failure_audit.py: charge an order, then write its receipt.        *)

\* run_none: no persistence.
RunNone == <<Effect1("charge", {}), Effect1("receipt", {})>>
\* run_checkpoint: a state file is saved after each effect.
RunCheckpoint == Plain("charge", Once) \o Plain("receipt", Once)
\* run_dbos: the charge's record is in its transaction, the receipt's is not.
RunDbos == Tx("charge") \o Plain("receipt", Once)
\* run_agenttx: the receipt is named by the turn's key.
RunAgenttx == Tx("charge") \o Keyed("receipt", Once) \o <<Append1("COMPLETED", "receipt", Once)>>
-----------------------------------------------------------------------------
(* adapters/: the same turn on the real orchestrators.                     *)

\* LangGraph: invoke with an input starts again from START, so what the
\* checkpointer holds of an earlier attempt is not consulted.
LangGraph == Plain("charge", {}) \o Plain("receipt", {})
\* DBOS: a transaction, then a step whose output is stored after it.
Dbos == Tx("charge") \o Plain("receipt", Once)
\* _idempotent_publish: nothing to do when the file exists.
Publish1 == Keyed("receipt", {"recorded", "exists"})
\* Variant A: a deterministic key inside a plain step.
TurnIdem == Tx("charge") \o Publish1 \o <<Append1("COMPLETED", "receipt", Once)>>
\* Variant B: the intent in the charge's transaction; the relay publishes
\* without reading it, and marks it done.
TurnOutbox ==
    <<Stage("EFFECT", "charge", Once), Stage("OUTBOX", "receipt", Once),
      Stage("COMPLETED", "charge", Once), Do("commit", "EFFECT", "charge", Once)>>
    \o Publish1
    \o <<Append1("OUTBOX_DONE", "receipt", Once), Append1("COMPLETED", "receipt", Once)>>
-----------------------------------------------------------------------------
(* agenttx/core.py, the coordinator of gate2/fault_audit.py.               *)

\* Mutant: the observation is recorded before the effect.
ObservedEarly(a, steps) == <<Append1("PREPARED", a, {}), Append1("OBSERVED", a, {})>> \o steps
\* run_turn's own records around one action's effect.
Observed(a, steps) == <<Append1("PREPARED", a, {})>> \o steps \o <<Append1("OBSERVED", a, {})>>
\* Only BEGIN_TURN and TURN_COMMITTED look for themselves in the WAL.  A
\* receipt leaves no completion record: the file is its own.
CoreTurn ==
    <<Append1("BEGIN_TURN", "turn", {"logged"})>>
    \o Observed("charge", Tx("charge"))
    \o Observed("receipt", Keyed("receipt", {"exists"}))
    \o <<Append1("TURN_COMMITTED", "turn", {"logged"})>>

\* agenttx/protocol.py: the three configurations of its exhaustive checker.
\* recover_and_finish passes over what is recorded, except the begin.
TurnOps(effect) ==
    <<Append1("BEGIN_TURN", "turn", {})>> \o effect
    \o <<Append1("OBSERVED", "charge", {"logged"}), Append1("TURN_COMMITTED", "turn", {"logged"})>>
ProtocolTx == TurnOps(Tx("charge"))
ProtocolIdem ==
    TurnOps(<<Effect1("charge", {"recorded", "exists"}), Append1("COMPLETED", "charge", Once)>>)
ProtocolRaw == TurnOps(Plain("charge", Once))
-----------------------------------------------------------------------------
(* phase6 and phase8: one money-moving tau2 call.                          *)

\* The retail tool credits, then closes the order; a closed order is refused.
Tau2Cancel == Plain("charge", Once)
\* A replay that nothing guards.
Tau2Replay == <<Effect1("charge", {})>>
\* The call runs on a snapshot; {DB', action key} is swapped in at once.
Tau2AgentTx == Tx("charge")
\* Inside the live orchestrator: a rollback copies the snapshot back, and
\* {DB', action id} is committed once the call has returned.
Tau2Live == Tx("charge")
-----------------------------------------------------------------------------
(* phase5 and agenttx/stream.py.                                           *)

\* The whole turn through the Tool Gateway.  No index makes its INSERT OR
\* IGNOREs ignore anything.  The KV steps only decide, see KVView.
EvalTurn ==
    <<Append1("BEGIN_TURN", "turn", {})>>
    \o Tx("charge") \o <<Append1("OBSERVED", "charge", {})>>
    \o Keyed("receipt", {"recorded", "exists"}) \o <<Append1("COMPLETED", "receipt", Once)>>
    \o <<Append1("OBSERVED", "receipt", {})>>
    \o <<Do("stream", "TOKENS", "turn", {}), Append1("TURN_COMMITTED", "turn", {})>>

\* The service of the HTTP tool keeps what it has answered under the call's key.
HttpKeyed(a) == <<Effect1(a, {"recorded", "exists"}), Append1("COMPLETED", a, Once)>>
\* phase5/agent_e2e.py: the model's three calls, through the Tool Gateway.
AgentTurn ==
    Tx("charge") \o Keyed("receipt", {"recorded", "exists"}) \o <<Append1("COMPLETED", "receipt", Once)>>
    \o HttpKeyed("http")

\* A streaming worker: the committed log is all it needs.
StreamTurn == <<Do("stream", "TOKENS", "turn", {})>>
-----------------------------------------------------------------------------
\* The harnesses, each with the turn it runs.
Program ==
    [none |-> RunNone, checkpoint |-> RunCheckpoint, dbos |-> RunDbos, agenttx |-> RunAgenttx,
     langgraph |-> LangGraph, realDbos |-> Dbos, idempotencyKey |-> TurnIdem, outbox |-> TurnOutbox,
     core |-> CoreTurn, protocolTx |-> ProtocolTx, protocolIdem |-> ProtocolIdem,
     protocolRaw |-> ProtocolRaw, tau2Cancel |-> Tau2Cancel, tau2Replay |-> Tau2Replay,
     tau2AgentTx |-> Tau2AgentTx, tau2Live |-> Tau2Live,
     eval |-> EvalTurn, agent |-> AgentTurn, stream |-> StreamTurn, socket |-> StreamTurn]
Kinds == DOMAIN Program
=============================================================================
