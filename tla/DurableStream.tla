--------------------------- MODULE DurableStream ---------------------------
(***************************************************************************)
(* agenttx/durable_stream.py as phase9/durable_stream_gate.py runs it: a   *)
(* turn's output is committed to a durable log, and streaming workers send *)
(* it to a client that keeps its own durable receipts.  A worker may die   *)
(* anywhere, its ACKs may be dropped, and the client may restart without   *)
(* its receipts.  The log is committed before any worker starts, and a     *)
(* token is named by its seq.  Workers are stateless, so one may still run *)
(* when the next is started, and the client restarts when it likes: the    *)
(* gate, which runs them in turn, is a special case.                       *)
(***************************************************************************)
EXTENDS Integers, FiniteSetsExt

CONSTANTS
    Workers,        \* worker processes
    N,              \* tokens of the output
    MaxDeaths,      \* bound on worker deaths
    MaxRestarts     \* bound on client restarts

ASSUME DurableStreamAssumption == N \in Nat \ {0} /\ MaxDeaths \in Nat /\ MaxRestarts \in Nat

VARIABLES
    log,        \* output_log: the seqs committed
    serverAck,  \* stream_ack, 0 when no row
    recv,       \* client_recv: the seqs the client holds
    deaths,     \* worker deaths so far
    restarts,   \* client restarts so far
    w           \* w[k]: the locals of worker k

vars == <<log, serverAck, recv, deaths, restarts, w>>

Seqs == 1 .. N
\* DurableClient.ack: the end of the contiguous prefix of what was received.
Ack == Max({n \in 0 .. N : 1 .. n \subseteq recv})
Local == [pc : {"idle", "resume", "send", "ack", "record"}, c0 : 0 .. N, next : 1 .. N + 1,
          got : 0 .. N, drop : BOOLEAN, born : Nat]
Idle == [pc |-> "idle", c0 |-> 0, next |-> 1, got |-> 0, drop |-> FALSE, born |-> 0]
At(k, pc) == w[k].pc = pc
-----------------------------------------------------------------------------
Init ==
    /\ log = {} /\ serverAck = 0 /\ recv = {} /\ deaths = 0 /\ restarts = 0
    /\ w = [k \in Workers |-> Idle]

\* commit_output: INSERT OR IGNORE every token, one commit; persist before send.
CommitOutput ==
    /\ log = {} /\ log' = Seqs
    /\ UNCHANGED <<serverAck, recv, deaths, restarts, w>>

\* The driver starts a worker while the client lacks tokens; it reads the
\* client's watermark first.
Start(k, drop) ==
    /\ log # {} /\ Ack < N /\ At(k, "idle")
    /\ w' = [w EXCEPT ![k] = [Idle EXCEPT !.pc = "resume", !.c0 = Ack, !.drop = drop, !.born = restarts]]
    /\ UNCHANGED <<log, serverAck, recv, deaths, restarts>>

\* Mutant: the server's ACK alone decides where to resume.
ResumeServer(k) ==
    /\ At(k, "resume")
    /\ w' = [w EXCEPT ![k].pc = "send", ![k].next = serverAck + 1]
    /\ UNCHANGED <<log, serverAck, recv, deaths, restarts>>

\* Mutant: the token after the watermark is taken to be there.
ResumeSkips(k) ==
    /\ At(k, "resume")
    /\ w' = [w EXCEPT ![k].pc = "send", ![k].next = Min({serverAck + 2, w[k].c0 + 2, N + 1})]
    /\ UNCHANGED <<log, serverAck, recv, deaths, restarts>>

\* resume = min(server_ack, c0) + 1, and tokens_from(resume).
Resume(k) ==
    /\ At(k, "resume")
    /\ w' = [w EXCEPT ![k].pc = "send", ![k].next = Min({serverAck, w[k].c0}) + 1]
    /\ UNCHANGED <<log, serverAck, recv, deaths, restarts>>

\* deliver(seq): INSERT OR IGNORE into the client's receipts.
Deliver(k) ==
    /\ At(k, "send") /\ w[k].next \in log
    /\ recv' = recv \cup {w[k].next}
    /\ w' = [w EXCEPT ![k].next = w[k].next + 1, ![k].pc = IF w[k].drop THEN "send" ELSE "ack"]
    /\ UNCHANGED <<log, serverAck, deaths, restarts>>

\* Mutant: the seq to be sent next is acknowledged.
AckNext(k) ==
    /\ At(k, "ack")
    /\ w' = [w EXCEPT ![k].pc = "record", ![k].got = Min({w[k].next, N})]
    /\ UNCHANGED <<log, serverAck, recv, deaths, restarts>>

\* client.ack(), the argument of record_ack.
ReadAck(k) ==
    /\ At(k, "ack")
    /\ w' = [w EXCEPT ![k].pc = "record", ![k].got = Ack]
    /\ UNCHANGED <<log, serverAck, recv, deaths, restarts>>

\* Mutant: ACKs are added up.
RecordAdds(k) ==
    /\ At(k, "record")
    /\ serverAck' = serverAck + w[k].got
    /\ w' = [w EXCEPT ![k].pc = "send"]
    /\ UNCHANGED <<log, recv, deaths, restarts>>

\* record_ack: MAX(stream_ack.ack_seq, excluded.ack_seq).
RecordAck(k) ==
    /\ At(k, "record")
    /\ serverAck' = Max({serverAck, w[k].got})
    /\ w' = [w EXCEPT ![k].pc = "send"]
    /\ UNCHANGED <<log, recv, deaths, restarts>>

\* The worker has sent the last token and exits.
Exit(k) ==
    /\ At(k, "send") /\ w[k].next \notin log
    /\ w' = [w EXCEPT ![k] = Idle]
    /\ UNCHANGED <<log, serverAck, recv, deaths, restarts>>

\* os._exit in mid-stream; what it delivered and recorded stays.
Die(k) ==
    /\ ~At(k, "idle") /\ deaths < MaxDeaths /\ deaths' = deaths + 1
    /\ w' = [w EXCEPT ![k] = Idle]
    /\ UNCHANGED <<log, serverAck, recv, restarts>>

\* restart(): the client loses its receipts, the server keeps its ACK.
Restart ==
    /\ 0 < Ack /\ Ack < N /\ restarts < MaxRestarts /\ restarts' = restarts + 1
    /\ recv' = {}
    /\ UNCHANGED <<log, serverAck, deaths, w>>

Begin(k) == \E drop \in BOOLEAN : Start(k, drop)
Stream(k) == Resume(k) \/ Deliver(k) \/ ReadAck(k) \/ RecordAck(k) \/ Exit(k)

Next ==
    \/ CommitOutput \/ Restart
    \/ \E k \in Workers : Begin(k) \/ Stream(k) \/ Die(k)

\* The coordinator commits the output, the driver keeps starting workers while
\* tokens are missing, and the operating system runs those that live.
Spec ==
    /\ Init /\ [][Next]_vars
    /\ WF_vars(CommitOutput)
    /\ \A k \in Workers : WF_vars(Begin(k)) /\ WF_vars(Stream(k))
-----------------------------------------------------------------------------
TypeOK ==
    /\ log \in {{}, Seqs} /\ serverAck \in 0 .. N /\ recv \subseteq Seqs
    /\ deaths \in 0 .. MaxDeaths /\ restarts \in 0 .. MaxRestarts
    /\ w \in [Workers -> Local]

\* No token is skipped: a worker that reaches the end of the log, in whatever
\* state its predecessors left the two ACKs, has made the client whole, unless
\* the client restarted while it ran.
FullPass ==
    \A k \in Workers : (At(k, "send") /\ w[k].next > N /\ w[k].born = restarts) => Ack = N

\* What the server believes is never ahead of what the client holds, unless the
\* client has lost receipts it had acknowledged.
AckNotAhead == restarts = 0 => serverAck <= Ack

\* The client ends up with the whole output however many workers die, ACKs are
\* lost and restarts happen.
Materialized == <>[](Ack = N)
=============================================================================
