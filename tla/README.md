# AgentTX: a TLA+ verification project

AgentTX makes a *turn* of an LLM agent a transaction. A turn is a plan of tool
calls (*actions*) decided by one model output; a crash anywhere must leave every
action executed as its tool class promises, the turn's log consistent, and the
client's token stream whole. This directory models the parts of the code that
carry that promise, model-checks them with TLC and proves the central ones with
TLAPS. Paths below are relative to `src/`.

## The system

| Component | Code | State | Operations |
|---|---|---|---|
| Distributed turn transactions (DTX) | `agenttx/dtx.py`, `db.py`, `identity.py` | tables `turn_owner`, `turns`, `actions`, `charges`; row locks | `acquire`, `begin_turn`, `load_plan`, `do_charge`, `run_turn` |
| Distributed OVERLAY effects | `dtx.py` `do_overlay`, `phase7/overlay_gate.py` | `overlay/` temp files, `committed/` files, `actions` rows | write temp, rename, fsync the directory, record |
| Protocol model | `agenttx/dmodel.py` | its own state dictionary | `successors` per tool class |
| Concurrent-recovery gate | `phase7/concurrent_gate.py` | worker processes | start, join, sweep, audit |
| Tool Gateway | `agenttx/gateway.py`, `tools.py`, `phase3/mock_service.py` | `gw_keys`, the service's ledger and idempotency table | `call`, per class |
| Coordinator and WAL | `agenttx/coordinator.py`, `wal.py` | table `wal` | `run_turn`, `recover` |
| Durable output stream | `agenttx/durable_stream.py`, `phase9/durable_stream_gate.py` | `output_log`, `stream_ack`, `client_recv` | `commit_output`, resume, `deliver`, `record_ack`, `restart` |
| KV view | `agenttx/kvview.py` | block files under their hashes, one temp name per block, table `kv_manifest` | `put`, `get`, `snapshot`, `restore` |
| Recovery coordinator | `agenttx/recovery.py` | none of its own | `commit_turn`, `recover_turn` |
| Single-owner core | `agenttx/core.py`, `gate2/fault_audit.py` | `wal`, `actions`, `charges`, receipts | `run_turn`, crash, recover |
| Abstract single-owner protocol | `agenttx/protocol.py` | a log and an effect count | `turn_ops`, `recover_and_finish`, `check_invariants` |
| In-memory stream | `agenttx/stream.py`, `phase4/` | the log, the client's `ack` and `received` | `serve`, `deliver`, reroute |
| Orchestrator baselines | `gate1/failure_audit.py`, `adapters/` | each its own tables or checkpointer | one turn, crashed and recovered |
| tau2 and end-to-end harnesses | `phase5/`, `phase6/`, `phase8/tau2_live_ft.py` | as the components they drive | one turn or one call, crashed and recovered |
| KV CAS tier | `agenttx/kv_cas_tier.py` | provenance sidecar | `__init__`, `lookup` |
| Measurement | the remaining `gate*/`, `phase*/` | none | timing, reports |

How they interact. DTX coordinators are operating-system processes that share
nothing but the database (and, for OVERLAY, the file system); the gate's `main`
starts and joins them. The Gateway is the single-owner counterpart: the
Coordinator calls it synchronously for each action and logs around the call; it
calls the database, the file system or an HTTP service. The stream workers share
one database with the client's receipts. The recovery coordinator joins a
Coordinator and a KV view, whose block store other workers use at the same time. The
harnesses of the gates start a worker process, let it die and start another, until a
condition of their own holds; then an oracle counts the effects.

What is hard: races of coordinators over one action; a lease lost between the
fence and the commit; death between any two statements; an effect that cannot
join the transaction which records it; a reply lost, or a request served after
its sender is gone; power loss between a rename and the sync of its directory;
two acknowledgements that lag each other; a temp file whose name all workers share;
recovery that is itself interrupted.
`PROJECT.json` lists each hazard at its line with the properties that watch it.

What makes each component correct:

- DTX: an action takes effect at most once, with its claim; a fenced owner
  commits nothing; actions commit in plan order; a committed turn is complete.
- OVERLAY: no partial file under an action's name; a recorded action has its file.
- Gateway: at most one effect per action id in every class; answers that stay true.
- Coordinator: observations are of committed effects, complete and in order;
  every turn that is recovered ends in `TURN_COMMITTED`.
- Stream: no token skipped, and the client ends up whole.
- KV view: a restore returns the bytes that were stored, under the same
  provenance, or fails closed; a manifest names whole blocks and a committed turn.
- Harnesses: each delivers exactly once what it claims to deliver exactly once, its
  records follow its effects, its client gets the output, and it ends.

## The modules

**`Dtx`** models `dtx.py` for the TRANSACTIONAL class. One TLA+ action per database
statement of `do_charge`, so that another process, or a death, can come between
any two. `w[p]` holds the locals of process `p`. The writes of an open
transaction are visible to nobody, so they are implied by the process's `pc` and
reach the tables in `Commit`; a rollback is then no more than forgetting the
locals and releasing the locks (`End`). `lock` is the `FOR UPDATE` row lock on
PostgreSQL and the one write lock on SQLite, chosen by `Backend`, because
`db.py` runs the same code on both. `Insertable` is the wait of `INSERT ... ON
CONFLICT` for another open transaction that holds the same key. An action id is
the triple (turn, plan, ordinal) it hashes; a plan is its commit id; sha256 is
taken to be free of collisions. `results` records what calls have returned; it
is the only history variable. `Finish` is unfenced, as in the code.

**`Dmodel`** restates `dmodel.py`, the repository's own bounded model. It is checked
by itself for the four classes, and it is the abstract specification for
**`DtxRefinesDmodel`**: for one watched action, a `Dtx` behaviour seen through the
mapping (a process is `acquired` until it has passed the action and `done` after;
the statements between fence and commit collapse into `Commit`) is a behaviour of
`Dmodel`'s TRANSACTIONAL coordinators.

**`ConcurrentGate`** composes `Dtx` with the phases of `phase7/concurrent_gate.py`.
A worker runs once: `Launch` is its `acquire`, `Work` the rest. Deaths are the
gate's own `hard_mid`, after the effect and before COMMIT.

**`Overlay`** models `do_overlay`. `final` is what processes see in `committed/`,
`onDisk` what a power loss would leave for certain; `FsyncDir` makes them equal.
`PowerLoss` keeps an arbitrary part of what was not synced, keeps the rows
(PostgreSQL commits are durable) and kills every process. What POSIX allows a
directory that was not synced to lose is outside the repository and is marked
external in the map.

**`OverlayGate`** composes `Overlay` with `main()` of `phase7/overlay_gate.py`: racers are
started at once and joined, one clean worker sweeps, then the audit looks. A worker
runs once and a racer may die at any step, where the gate kills it at two.

**`Gateway`** models `Gateway.call` for the six classes. The single owner has one
call in progress, `g`; `row` is `gw_keys`; `ran` counts what really happened
outside. HTTP is asynchronous: `Send` puts a request on the wire, `Serve` is the
service's handler under its lock, `Reply` the answer, and `Raise` may end the call
at any point (the clock's crash, death, or the five-second timeout) while the
request stays on the wire. No concrete COMPENSATABLE tool exists in the
repository: its effect is atomic and its compensation idempotent, as the base
class says. `Args` are the fingerprints callers pass under one action id:
`phase3/identity_guard.py` does pass two.

**`Coordinator`** composes `Gateway` with `run_turn` and the WAL. The plan's commit id
binds the tools and their args, so every attempt passes the same fingerprint.

**`KVView`** models `kvview.py`: `put` statement by statement, `get`, the manifest, and
`restore` with its four answers, for workers that share a store. A block is named by
its content, as its file is by its hash; a file is `whole` when it holds it. All
workers use one temp name per block, so a worker may truncate, publish or rename away
the file another has open: `fd` says under which name a worker's open file is now,
and a write goes there. `Corrupt` and `Remove` are the faults `phase2/test_kvview.py`
and `phase5/eval.py` inject. `spoiled` is a history variable: the blocks hit by a
fault or opened by two workers at once.

**`RecoveryCoordinator`** composes `Coordinator` (with its `Gateway`) and `KVView` as
`recovery.py` does: `commit_turn` is `run_turn`, then the snapshot; `recover_turn` is
the restore, then the same `run_turn`, whatever the restore answered. A neighbour
snapshots a turn with a block in common. Two reductions, both stated in the module:
the neighbour moves only while the KV is being handled, because `run_turn` does not
touch the store, and only for the plans in `Crowded`, because no KV step looks at the
class of a tool.

**`TurnPrograms`** and **`TurnAudit`** model the harnesses that run one turn in one worker,
kill it and run it again. `TurnPrograms` gives the turn of each of the twenty as the
sequence of its durable steps, each with the condition under which a recovery passes
over it; `TurnAudit` is the machine that runs them: one action per kind of step, a
crash between any two, the stream and its client, and the driver's loop with its own
condition for another attempt. `staged` and `pending` are the records and the effects of the
open transaction, which a crash forgets. The harnesses are gate 1's four orchestrators, the
DBOS and LangGraph adapters (four turns), `core.py`, the three configurations of
`protocol.py`, four forms of a tau2 call, `eval.py`, `agent_e2e.py` and the two drivers
of the in-memory stream. These two stop differently: `stream_realsocket.py` (`socket`), like
`eval.py`, goes on until the client is whole, with the client's own ACK; `stream_audit.py`
(`stream`) resumes from an ACK that lags and stops as soon as one worker has served its log
to the end (`stream_audit.py:32`), without looking at the client, so that `StreamExact`
rests on where that worker resumed. The caps of the loops (`max_workers = 200` in
`stream_audit.py`, 40 recoveries in `eval.py`, 25 in `fault_audit.py`) are left out: the
bound on crashes is far below them. Of DBOS it is assumed that a transaction stores its completion in its own
commit and a step after it, of LangGraph that `invoke` with an input starts at START;
both are what the adapters' comments rely on. The atomic commit of the tau2 harnesses is
a swap in memory and is taken at its word: they have no crash point inside it. A crash in the middle of a transaction
loses the transaction, so the steps inside it are `stage`d and reach the tables in
`Commit`.

**`DurableStream`** models the log, the two ACKs, the client's receipts and the
workers. `born` remembers the client's restarts at a worker's start, for `FullPass`
only. The model lets workers overlap and the client restart at any time, which the
gate does not do; the gate's schedules are among the model's.

Left out everywhere: formatting, JSON, logging, `resends_deduped`-style counters
that nothing reads back, and the content of tokens, receipts and charges beyond
what a property tells apart.

## The runs

| Run | Bounds | Shows |
|---|---|---|
| `dtx_postgres` | 3 coordinators, 1 turn of 2 actions, 2 fingerprints, 4 leases | exactly once, fenced, in order, complete; refines `Dmodel` |
| `dtx_sqlite` (violation) | 2 coordinators, 2 leases | the fence does not fence on SQLite |
| `dtx_redecided` (violation) | 2 coordinators, 2 offered plans | another plan executed, the durable one marked committed |
| `concurrent_gate` | 2 turns of 2 actions, 3 racers, 2 sweepers, 2 mortal | the gate's oracle in every schedule, and that it ends |
| `dmodel` | 2 coordinators, 5 epochs, 4 classes (dmodel.py's own bounds) | what `dmodel.py` asserts, and that claims and UNCERTAIN are exclusive |
| `overlay` | 3 racers and a sweeper, 2 actions, 1 power loss | no partial files, no ghost rows short of power loss, the gate's oracle |
| `overlay_powerloss` (violation) | 2 coordinators, 3 leases, 1 power loss | the dedup path's row can outlive its file |
| `gateway` | 2 actions, every pair of classes, 2 fingerprints, 4 calls | one effect per id; answers stay true |
| `coordinator` | 2 actions, every pair of classes, 3 attempts, 2 workers on 1 shared block, 2 engines, 1 fault | the WAL's observations; the turn closes; snapshots are of committed turns, restores are exact |
| `ghost_observation` (violation) | `run_turn` alone, the same | uncertain and compensated actions are logged as observed |
| `durable_stream` | 3 tokens, 2 overlapping workers, 1 death, 2 restarts | no token skipped; the client ends up whole |
| `turn_audit` | 20 harnesses, 2 deaths, 4 tokens, an ACK that lags by up to 3 | each harness keeps what it promises, and ends |

Why the bounds are enough for the interesting cases. Three coordinators allow a
stale one, the owner and one that waits; two actions allow a coordinator to be
ahead of another in the same plan; four leases allow each a turn and one a second.
In the gate every turn has a racer that may die in mid-transaction and one turn has
two racers. Two calls of a gateway action are an interruption and its recovery, and
four let both actions be interrupted, or one three times, while a request of the
other is still under way. Three tokens let a restart leave a gap in front of what an
older worker goes on delivering. Two deaths are one of the turn and one of its
recovery. Three is
the lag `stream_audit.py` draws, and four tokens let it be reached. Four overlay
workers are the racers that publish, dedup and die, and the sweeper. One shared block
with two workers is enough for the shared temp name, which only ever concerns two
open files of one block; one fault is enough to damage it at any step. Symmetry is used for coordinators, racers, action ids and
fingerprints, which are interchangeable, and in no run that checks liveness.
`CHECK_DEADLOCK FALSE` is set where leases, calls or attempts run out or the driver
ends: the bounded system stops there.

Fairness. `ConcurrentGate` assumes that every live worker is scheduled, that
PostgreSQL grants a free lock to its waiter and that `join` returns; no worker is
required to die. `Coordinator` assumes that a harness recovers after a crash, that a
live process runs and that the service, which stays up across crashes
(`mock_service.py`), serves; the last attempt is not interrupted, as in every
harness of the repository. `DurableStream` assumes the driver's loop (`while the
client lacks tokens, start a worker`) and live workers being scheduled.
`RecoveryCoordinator` assumes of `recovery.py` what `Coordinator` assumes of
`run_turn`, and nothing of the neighbour or the faults. `TurnAudit` assumes that a
worker that is not killed runs on and that the driver waits for it and then acts. All are weak
fairness of actions that stay enabled until they are taken.

Mutants: each property of a passing run is violated when one definition is replaced
by a plausible bug, defined beside it under a comment that begins with "Mutant".

## Where code and documentation disagree

Four runs are counterexamples to a sentence of the repository:

1. `dtx_sqlite`: the fence of `do_charge` is a read outside the write lock on
   SQLite (`dtx.py:104`), against `dtx.py:14-16`. Exactly-once still holds
   there: the theorem `ExactlyOnce` makes no assumption on the backend.
2. `dtx_redecided`: `begin_turn` keeps the stored plan and answers with the identity of
   the one it was passed (`dtx.py:88-94`), against "WAL is the source of truth"
   (`dtx.py:18-19`). `TurnComplete` proves what holds when one plan is offered.
3. `overlay_powerloss`: `do_overlay` records on the dedup path without a directory
   sync (`dtx.py:144-146`), against "a committed row always has its file"
   (`dtx.py:136-137`). `PublisherDurable` is what holds of power losses;
   `NoGhostWhilePowered` says of a machine that stays up that the row never comes before
   the rename, and nothing of a power loss.
4. `ghost_observation`: `run_turn` logs `OBSERVATION_COMMITTED` for every answer
   (`coordinator.py:28-30`), against I2 of the README. `ObservedIsCommitted` is what
   holds for the four exactly-once classes.

Not a disagreement but what gate 1 is there to show: the harnesses without a promise
(`none`, `checkpoint`, LangGraph, the receipt of plain DBOS, an unguarded tau2 replay,
`protocol.py`'s raw effect) do repeat their effects in the model, and `OracleCorrect`
speaks only of what `Promised` lists.

A fifth limit is visible in `Gateway`: for OVERLAY and IDEMPOTENT the row follows the
effect, so after a crash between them a call with other args finds no row, keeps the
old effect and records the new fingerprint. `ArgsOfEffect` therefore speaks of the
other classes only.

## The proofs

Eight modules hold theorems, each for any values of the constants its model
declares: any number of coordinators, workers, turns, actions, plans, leases,
deaths, restarts and faults. The only assumptions are the `ASSUME`s of the models,
which the runs evaluate, and the hypotheses named here.

| Theorem | Statement | Hypothesis |
|---|---|---|
| **`DtxProofs`** | | |
| `TypeCorrect`, `TypeSafe` | `[]TypeInv`, `[]TypeOK` | |
| `ExactlyOnce` | `[]AtMostOnce` | |
| `ClaimWithEffect` | `[]ClaimIffEffect` | |
| `ToldIsDurable` | `[]ResultsDurable` | |
| `Fencing` | `FencedCommit` | `Backend = "postgres"` |
| `LeaseOrder` | `[]OwnersInOrder` | `Backend = "postgres"` |
| `InOrder` | `[]NoGap` | |
| `TurnComplete` | `[]CommittedTurnComplete` | at most one plan is offered per turn |
| `Implements` | `Spec => RefinesDmodel` | `Backend = "postgres"` |
| `GateOracle` | `GateSpec => []Phase7Pass` | the workers offer no plan of their own, one fingerprint |
| **`DmodelProofs`** | | |
| `EffectOnceSafe`, `ClaimIsExclusiveSafe`, `UncertainIsFinalSafe` | the invariants of that name | |
| **`OverlayProofs`** | | |
| `PublishedWholeSafe`, `PublisherDurableSafe`, `NoGhostWhilePoweredSafe`, `CommittedTurnCompleteSafe` | the invariants of that name | |
| `GateKeepsPromises` | the same four of `GateSpec` | |
| `OverlayGateOracle` | `GateSpec => []OverlayGatePass` | |
| **`GatewayProofs`** | | |
| `GatewayTypes` | `[]TypeOK` | |
| `ActionUniqueness` | `[]EffectAtMostOnce` | |
| `SuccessStands`, `FailureStands` | `[]SuccessIsReal`, `[]FailureIsFinal` | |
| `IntentFirst`, `ArgsRecorded` | `[]IntentBeforeEffect`, `[]ArgsOfEffect` | |
| **`KVViewProofs`** | | |
| `RestoredIsExactSafe`, `ManifestWholeSafe` | the invariants of that name | |
| **`RecoveryProofs`** | | |
| `CoordinatorAlone` | the WAL's three invariants, of `CoSpec` | |
| `NoGhost`, `ClosedComplete`, `ObservedOrder` | the same, of `RcSpec` | |
| `SnapshotAfterCommit` | `[]SnapshotOfCommittedTurn` | |
| `KvPromises`, `GatewayPromises` | what `KVViewProofs` and `GatewayProofs` prove, of `RcSpec` | |
| **`DurableStreamProofs`** | | |
| `StreamTypes`, `NoTokenSkipped`, `AckBehindClient` | `[]TypeOK`, `[]FullPass`, `[]AckNotAhead` | |
| **`TurnAuditProofs`** | | |
| `EveryHarness`, `RecordsTell`, `StreamKept` | `[]OracleCorrect`, `[]RecordsSound`, `[]StreamExact` | |

**Dtx.** `TypeOK` is not inductive: the code uses `turn`, `plan` and `args` as set
by earlier statements, so `TypeInv` adds `LocalsSet`, that a process past a statement
has the locals it assigns. The lemmas `...Locals` say once what each action does to
the locals; the later proofs work from them.

`AtMostOnce` is not inductive either. What keeps a second charge out is the claim still
uncommitted: `ClaimPending`, that the action of a pending claim is in no row, and
`ClaimExclusive`, that no two pending claims are on one action. `Insertable` gives the
second, the lookup of the claim the first, and `Commit` needs both. Locks play no
part, so the result holds on SQLite as well. The same invariant gives `ClaimIffEffect`
and `ResultsDurable`.

`Fencing` rests on `OwnerLocked`: a process past the fence holds its turn's lock and
its epoch is current. `acquire` cannot bump the epoch under the lock. On SQLite the
first half fails, and so does the theorem. `LeaseOrder` adds to it that no row's epoch
is above the turn's and no charge's number above the next.

`InOrder` rests on `Backed`: every ordinal before a process's own is claimed, because
`do_charge` returns only after a commit or a dedup hit. `TurnComplete` adds that with
one plan offered per turn every process runs the durable plan, so the process that
closes the turn, stale or not, has passed all of its ordinals.

**The refinement.** `Implements` shows every step of `Dtx` to be, under the mapping of
`DtxRefinesDmodel`, a step of `Dmodel` or a stutter. `acquire` of the watched turn is
`Dmodel`'s acquire; `Commit` of the watched action is its atomic claim, effect and
commit, and is allowed there because the process still holds the lease (`OwnerLocked`)
and the action is unclaimed (`ClaimPending`); a process that passes the action without
committing it has found it claimed (`Backed`); everything else stutters. On SQLite
the step of a stale owner has no counterpart, so the hypothesis is needed.

**The gate of phase 7.** `GateOracle` composes the invariants of `Dtx`, which hold
because every step of the gate is a step of `Dtx` (`GateIsDtx`), with three of the
gate: plans and committed turns stay (`Monotonic`), a phase follows the exits it waits
for, and a sweeper that has exited leaves its turn committed (`Swept`): it does not
die, and after the join of the racers nobody can take its lease. The oracle counts rows, so
the proof ends with a bijection between a turn's rows and its plan's ordinals. The
proof made explicit that there must be one sweeper a turn, as
`concurrent_gate.py:92` starts them: `ConcurrentGateAssumption` now says so.

**Dmodel.** The invariant says that a lease has one holder (`LeasesUnique`), that
whoever is between claim and commit is named by the claim (`ClaimNames`), and that
after UNCERTAIN the claim is older than the current lease (`UncertainIsFenced`). The
last is why the claimant, dead or alive, cannot commit: it needs the lease back, and
leases only grow.

**Overlay.** `LocalsInv` has the uniqueness of epochs, and with it of temp names;
`FilesInv` what a coordinator has put in place when it reaches a statement; `DiskInv`
that what is on disk is visible and whole. A power loss keeps `DiskInv` whatever it
takes back, because it leaves either the visible file or the one on disk. For the
gate `RowsOnce` is added, that an action has one row, and `SweepCloses`, that while the
machine stays up a sweeper that is gone has closed the turn.

**Gateway.** `GwInv` has, beside the types, what the call in progress has established
at each statement (`CallInv`), what a row says about its effect in each class
(`KeyInv`), that an IRREVERSIBLE request is sent once and is on the wire or served
(`WireInv`), and that an answer stands for a state of the row that no later call leaves
(`ToldInv`). `EffectAtMostOnce` fails to be inductive exactly where the classes differ:
for TRANSACTIONAL the absence of the row says that nothing happened; for IDEMPOTENT
and OVERLAY nothing in the gateway does, and the service's table or the file decides;
for COMPENSATABLE and IRREVERSIBLE it takes the intent.

**KV view.** `RestoredIsExact` rests on `GetInv`, what a restore has got so far, and on
nothing that `put` does: `get` verifies. `ManifestWhole` rests on `SoleWriter`, that
unless a block is spoiled at most one worker has its file open, under the temp name,
and has written it when it renames it. The lemma `MoveStoreInv` leaves, for every step
that does not touch the store, an obligation about one worker's locals only. A block that
was damaged, or that two workers had open at once, may be broken under its final name:
`ManifestWhole` leaves it out, and what still holds of it is `RestoredIsExact`, that no
restore hands it out. That every committed turn has a manifest holds of nothing: a crash or
a failing `put` leaves one without, and the restore then answers missing.

**Coordinator and recovery.** `CoInv` adds to `GwInv` where `run_turn` is and that the
gateway works on that action (`PlaceInv`), that every attempt passes the one
fingerprint (`OneFp`), that a call of an exactly-once class returns only when its
action is committed (`Answered`), and what the WAL has (`WalInv`). `Answered` carries
`ObservedIsCommitted`: with one fingerprint there is no `ContentMismatch`, so the call can
end only in a dedup hit or a commit. `RcInv` joins `CoInv`, `StoreInv` and
`SnapshotInv`; its proof shows of each step of `recovery.py` what it is to the two
parts. Thus `KvPromises` and `GatewayPromises` are not assumed of the composition but
proved of it.

**Durable stream.** `StreamInv` reads every watermark as a prefix: the client holds
`1 .. n` for the `n` a worker has read, is about to record, or has sent up to, as long as
the client has not restarted since the worker was started. `Ack` is the longest prefix
held; that there is one is the only place where well-foundedness of the naturals is
needed (`LeastNat`).

**The harnesses.** The proof does not go through the twenty programs at every step of
the machine. `ProgramsFine` says once what they have in common: in a transaction the
effect and its completion record are staged one after the other and then committed,
and all of them are passed over once the record is there (`TxFine`); a record that
claims an effect follows the step that makes it, and an observation follows whatever
completes its action (`RecordsFine`); every action is done somewhere, and before any
token is sent (`EffectsFine`). `ProgramsKeep` adds that a promised effect outside a
transaction is passed over when it is there, and which programs close their turn.
From there on the programs are not opened again. `AuditInv` then says that an open transaction
holds the charge exactly while the charge is not recorded (`TxInv`), so a crash or a
recovery neither doubles nor splits it; that every step behind the worker is done
(`PastInv`), whether it was taken or passed over; and that once the client has a token
every effect is there (`SentInv`), which is why a streaming harness may stop on the client's
watermark alone, even when its last worker has died. Where the driver stops without looking
at the client, a `stream` step that lies behind the worker means that the client is whole
(`Done`), because no worker sends ahead of the client's next token (`ClientInv`): the worst
ACK it can resume from lags, it never leads. `EndAck` joins the two.

Each inductive invariant was first checked by TLC on the instance of its run.

Only model-checked: liveness (`AuditReached`, `TurnCloses`, `Materialized`,
`AuditEnds`), which is out of the prover's reach. Every invariant and action property
of the runs that are to pass is a theorem. What the runs that find a violation check
(see "Where code and documentation disagree") is false, and stays with TLC.

## Plan

1. The hazards that no property covers yet (`PROJECT.json`), where the modules already
   have the state for it: two gateways on one database, a `run_turn` after the close, two
   tiers that publish one sidecar.
2. The two-process form of `Gateway`, with `EffectAtMostOnce` proved for the classes where
   a unique key protects it and refuted where `_seen` alone does.

## Not modelled

- `kv_cas_tier.py`: forty lines around vLLM's `FileSystemTierManager`, which does the
  loading and storing and is not in the repository. Its open questions (two first
  workers, the stores of a tier that fails closed) are listed as a hazard.
- vLLM, GPU memory, generation and timing: `phase2/kvview_gpu.py`, `phase8/kv_durable.py`,
  `phase8/xproc_recovery.py`, `phase11/`, `gate1/recovery_cost.py`, `gate2/overhead.py`,
  `gate2/e2e_llm.py`, and reports (`phase10/`, `phase5/summary.py`). None of them keeps
  protocol state.
- What an LLM decides, and the tools of tau2-bench: external; the harness around a
  call is modelled.
- Two plans committed for one turn's output stream, and changed args under one OVERLAY
  action id: no schedule is needed to see either.
