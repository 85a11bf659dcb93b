----------------------------- MODULE TurnAudit -----------------------------
(***************************************************************************)
(* The crash-and-recover harnesses that run a turn of TurnPrograms: the    *)
(* driver starts a worker process, the worker may die between any two of   *)
(* its steps, and the driver starts another until the harness's own        *)
(* condition for stopping holds.  What is durable survives; an open        *)
(* transaction, a snapshot and the position in the program do not.  Which  *)
(* harness it is, is chosen once.                                          *)
(***************************************************************************)
EXTENDS TurnPrograms, Integers

CONSTANTS
    OutLen,         \* tokens of a committed output
    MaxLag,         \* how far the server's ACK may lag the client's
    MaxCrashes      \* bound on worker deaths

ASSUME TurnAuditAssumption == OutLen \in Nat \ {0} /\ MaxLag \in Nat /\ MaxCrashes \in Nat

VARIABLES
    kind,       \* the harness
    phase,      \* the driver: "ready" to start a worker, "work", "end"
    attempts,   \* workers started: 0, 1, or 2 for more
    crashes,    \* worker deaths so far
    pc,         \* the worker's next step of Program[kind]
    staged,     \* the records of its open transaction
    pending,    \* pending[a]: the effects of action a in its open transaction
    seq,        \* the next token it sends; 0 when it is not streaming
    records,    \* every durable record, in commit order
    count,      \* count[a]: rows or files of action a, what the oracle counts
    temp,       \* actions with a temporary file
    client      \* the client's watermark and what it has materialized

durable == <<records, count, temp, client>>
uncommitted == <<staged, pending>>
vars == <<kind, phase, attempts, crashes, pc, uncommitted, seq, durable>>
-----------------------------------------------------------------------------
Actions == {"charge", "receipt", "http"}
Has(type, a) == \E i \in 1 .. Len(records) : records[i] = [type |-> type, act |-> a]
\* The last attempt reached the end of the program.
Clean == pc = Len(Program[kind]) + 1
Streams == kind \in {"eval", "stream", "socket"}
NoneYet == [a \in Actions |-> 0]

Passed(s) ==
    \/ "recorded" \in s.skip /\ Has("COMPLETED", s.act)
    \/ "exists" \in s.skip /\ count[s.act] > 0
    \/ "logged" \in s.skip /\ Has(s.type, s.act)

Init ==
    /\ kind \in Kinds
    /\ phase = "ready" /\ attempts = 0 /\ crashes = 0
    /\ pc = 1 /\ staged = <<>> /\ pending = NoneYet /\ seq = 0
    /\ records = <<>> /\ count = NoneYet /\ temp = {}
    /\ client = [ack |-> 0, received |-> <<>>]
-----------------------------------------------------------------------------
(* The worker.                                                             *)

Current == Program[kind][pc]
Now(op) == phase = "work" /\ ~Clean /\ Current.op = op /\ ~Passed(Current)
Advance == pc' = pc + 1 /\ UNCHANGED <<kind, phase, attempts, crashes, seq>>

Skip ==
    /\ phase = "work" /\ ~Clean /\ Passed(Current)
    /\ Advance /\ UNCHANGED <<uncommitted, durable>>

\* Writes inside the transaction, or on the snapshot: nobody else sees them yet.
StageEffect ==
    /\ Now("stage") /\ Current.type = "EFFECT"
    /\ pending' = [pending EXCEPT ![Current.act] = @ + 1]
    /\ Advance /\ UNCHANGED <<staged, durable>>

StageRecord ==
    /\ Now("stage") /\ Current.type # "EFFECT"
    /\ staged' = Append(staged, [type |-> Current.type, act |-> Current.act])
    /\ Advance /\ UNCHANGED <<pending, durable>>

\* COMMIT, or the swap of the snapshot: all that is staged, at once.
Commit ==
    /\ Now("commit")
    /\ count' = [a \in Actions |-> count[a] + pending[a]]
    /\ records' = records \o staged
    /\ staged' = <<>> /\ pending' = NoneYet
    /\ Advance /\ UNCHANGED <<temp, client>>

AppendRecord ==
    /\ Now("append")
    /\ records' = Append(records, [type |-> Current.type, act |-> Current.act])
    /\ Advance /\ UNCHANGED <<uncommitted, count, temp, client>>

RawEffect ==
    /\ Now("effect")
    /\ count' = [count EXCEPT ![Current.act] = @ + 1]
    /\ Advance /\ UNCHANGED <<uncommitted, records, temp, client>>

WriteTemp ==
    /\ Now("write")
    /\ temp' = temp \cup {Current.act}
    /\ Advance /\ UNCHANGED <<uncommitted, records, count, client>>

\* os.replace to the keyed name: one file however often it is done.
Publish ==
    /\ Now("publish") /\ Current.act \in temp
    /\ count' = [count EXCEPT ![Current.act] = 1]
    /\ temp' = temp \ {Current.act}
    /\ Advance /\ UNCHANGED <<uncommitted, records, client>>
-----------------------------------------------------------------------------
(* The worker's stream and its client.                                     *)

\* The ACKs a worker may be told: eval and the socket's client name the client's
\* own, a reroute may see one that lags.
KnownAcks ==
    IF kind = "stream" THEN {n \in 0 .. client.ack : n >= client.ack - MaxLag} ELSE {client.ack}

\* Mutant: the worker resumes after the token in flight.
ResumeSkips ==
    /\ Now("stream") /\ seq = 0
    /\ \E n \in KnownAcks : seq' = n + 2
    /\ UNCHANGED <<kind, phase, attempts, crashes, pc, uncommitted, durable>>

Resume ==
    /\ Now("stream") /\ seq = 0
    /\ \E n \in KnownAcks : seq' = n + 1
    /\ UNCHANGED <<kind, phase, attempts, crashes, pc, uncommitted, durable>>

\* deliver: the next token in order is taken, a re-send is dropped, a gap is ignored.
Delivered(n) ==
    IF n = client.ack + 1
    THEN [ack |-> n, received |-> Append(client.received, n)]
    ELSE client

Send ==
    /\ Now("stream") /\ seq \in 1 .. OutLen
    /\ client' = Delivered(seq) /\ seq' = seq + 1
    /\ UNCHANGED <<kind, phase, attempts, crashes, pc, uncommitted, records, count, temp>>

StreamEnd ==
    /\ Now("stream") /\ seq > OutLen
    /\ seq' = 0 /\ pc' = pc + 1
    /\ UNCHANGED <<kind, phase, attempts, crashes, uncommitted, durable>>
-----------------------------------------------------------------------------
(* The driver.                                                             *)

\* The drivers that look at the client: eval and the socket's go on while it lacks
\* tokens; the reroutes of stream_audit also end with a worker that came to the end
\* of its log, whatever the client has then.
LoopsUntilWhole == {"eval", "socket"}
\* gate1 and tau2 go on after a crash; the rest run one recovery in any case.  eval's
\* recovery_crash mode makes a second attempt whatever the first one did.
AfterCrashOnly ==
    {"none", "checkpoint", "dbos", "agenttx", "tau2Cancel", "tau2AgentTx", "tau2Live", "stream", "socket"}
Wanted ==
    \/ attempts = 0
    \/ Streams /\ client.ack < OutLen /\ (kind \in LoopsUntilWhole \/ ~Clean)
    \/ ~Streams /\ ~Clean
    \/ attempts = 1 /\ kind \notin AfterCrashOnly
\* eval's second attempt is only in that mode.
MayEnd == attempts > 0 /\ (~Wanted \/ (kind = "eval" /\ client.ack = OutLen))

Start ==
    /\ phase = "ready" /\ Wanted
    /\ phase' = "work" /\ pc' = 1
    /\ attempts' = IF attempts = 0 THEN 1 ELSE 2
    /\ UNCHANGED <<kind, crashes, uncommitted, seq, durable>>

Exit ==
    /\ phase = "work" /\ Clean
    /\ phase' = "ready"
    /\ UNCHANGED <<kind, attempts, crashes, pc, uncommitted, seq, durable>>

\* os._exit, or the Crash exception with a rollback.
Crash ==
    /\ phase = "work" /\ crashes < MaxCrashes /\ ~Clean
    /\ phase' = "ready" /\ crashes' = crashes + 1
    /\ staged' = <<>> /\ pending' = NoneYet /\ seq' = 0
    /\ UNCHANGED <<kind, attempts, pc, durable>>

Stop ==
    /\ phase = "ready" /\ MayEnd
    /\ phase' = "end"
    /\ UNCHANGED <<kind, attempts, crashes, pc, uncommitted, seq, durable>>

Work ==
    \/ Skip \/ StageEffect \/ StageRecord \/ Commit \/ AppendRecord \/ RawEffect
    \/ WriteTemp \/ Publish \/ Resume \/ Send \/ StreamEnd
Next == Work \/ Start \/ Exit \/ Crash \/ Stop

\* A process that is not killed runs on, and the driver waits for it; nothing
\* obliges a crash.
Spec == Init /\ [][Next]_vars /\ WF_vars(Work \/ Exit \/ Start) /\ WF_vars(Stop)
-----------------------------------------------------------------------------
TypeOK ==
    /\ kind \in Kinds /\ phase \in {"ready", "work", "end"}
    /\ attempts \in 0 .. 2 /\ crashes \in 0 .. MaxCrashes
    /\ pc \in Nat \ {0} /\ seq \in 0 .. OutLen + 1
    /\ staged \in Seq([type : STRING, act : STRING]) /\ pending \in [Actions -> Nat]
    /\ records \in Seq([type : STRING, act : STRING])
    /\ count \in [Actions -> Nat] /\ temp \subseteq Actions
    /\ client.ack \in 0 .. OutLen /\ client.received \in Seq(1 .. OutLen)

\* What each harness performs, and what it claims to perform exactly once.
Performed == {Program[kind][i].act : i \in 1 .. Len(Program[kind])} \cap Actions
Promised ==
    {a \in Actions :
        \/ kind \in {"agenttx", "idempotencyKey", "outbox", "core", "eval", "agent"}
        \/ /\ a = "charge"
           /\ kind \in {"dbos", "realDbos", "protocolTx", "protocolIdem", "tau2AgentTx", "tau2Live"}}

\* The oracles (failure_audit.classify, fault_audit.classify, eval's counts):
\* whatever is promised never takes effect twice, wherever the workers and the
\* recoveries died, and when the driver stops nothing is lost.
OracleCorrect ==
    /\ \A a \in Promised : count[a] <= 1
    /\ phase = "end" => \A a \in Performed : count[a] >= 1

\* I2, I3 and I5 of protocol.py, and eval's ghost check: every record that says
\* an action is done has its effect behind it; an observation is preceded by the
\* completion record, where there is one, and no completion record comes later;
\* where the turn is promised to finish, the driver stops with every action
\* observed and the turn committed.
RecordsSound ==
    /\ \A i \in 1 .. Len(records) :
          records[i].type \in {"COMPLETED", "OBSERVED", "OUTBOX_DONE"} => count[records[i].act] > 0
    /\ \A i, j \in 1 .. Len(records) :
          /\ records[i].type = "OBSERVED" /\ records[j].type = "COMPLETED"
          /\ records[i].act = records[j].act
          => j < i
    /\ phase = "end" /\ kind \in {"core", "protocolTx", "protocolIdem", "protocolRaw"} =>
          Has("TURN_COMMITTED", "turn") /\ \A a \in Performed : Has("OBSERVED", a)

\* StreamClient: what is materialized is at every moment the output's prefix up
\* to the watermark, each token once and in order, across crashes, reroutes and
\* stale ACKs, and it is the whole output when the driver stops.  stream_audit's
\* driver stops after any worker that has served its log to the end: that the
\* client then lacks nothing is up to where that worker resumed.
StreamExact ==
    /\ client.received = [n \in 1 .. client.ack |-> n]
    /\ phase = "end" /\ Streams => client.ack = OutLen

\* Every audit comes to its end: no recovery loop waits for something that no
\* attempt will bring about.
AuditEnds == <>(phase = "end")
=============================================================================
