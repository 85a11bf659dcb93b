------------------------------- MODULE KVView -------------------------------
(***************************************************************************)
(* agenttx/kvview.py: workers that share one content-addressed store       *)
(* snapshot their turns' KV blocks and restore them.  A block's name is    *)
(* the hash of its content, so a block is named here by what it holds, and *)
(* a file is "whole" when it holds that.  The temporary file of a block    *)
(* has one name for all workers, so a file one worker has open may be      *)
(* truncated, published or replaced by another: fd says under which name   *)
(* the open file is now.  A worker may die between any two steps, and a    *)
(* block at rest may be corrupted or removed, as phase2/test_kvview.py and *)
(* phase5/eval.py do.                                                      *)
(***************************************************************************)
EXTENDS Integers, Sequences

CONSTANTS
    Workers,        \* the processes on the store; a worker snapshots one turn
    Blocks,         \* the contents
    BlocksOf,       \* BlocksOf[w]: the blocks of worker w's turn
    Provs,          \* provenance fingerprints
    MaxFaults,      \* bound on blocks corrupted or removed
    NoManifest

Manifest == [prov : Provs, blocks : Seq(Blocks)]

ASSUME KvAssumption ==
    /\ BlocksOf \in [Workers -> Seq(Blocks)]
    /\ MaxFaults \in Nat /\ NoManifest \notin Manifest

VARIABLES
    block,      \* block[b]: the file under the hash of b
    tmp,        \* tmp[b]: the file under its temporary name
    manifest,   \* manifest[w]: the manifest of w's turn, or NoManifest
    kw,         \* kw[w]: the locals of w's snapshot or restore
    answer,     \* answer[w]: the last answer of w's restore
    faults,     \* blocks corrupted or removed so far
    spoiled     \* blocks corrupted, or put by two workers at once

files == <<block, tmp>>
kvVars == <<files, manifest, kw, answer, faults, spoiled>>

File == {"absent", "bad", "whole"}
KvIdle == [pc |-> "idle", i |-> 1, fd |-> "closed", prov |-> NoManifest, m |-> NoManifest, got |-> <<>>]
NoAnswer == [prov |-> NoManifest, m |-> NoManifest, got |-> <<>>, reason |-> "none"]
\* RESTORED, RECOMPUTE's three reasons, and no answer yet.
Reasons == {"", "manifest_missing", "provenance_mismatch", "block_corrupt_or_missing", "none"}
KvAt(w, pc) == kw[w].pc = pc
\* The block that w's snapshot has come to.
Here(w) == BlocksOf[w][kw[w].i]
\* The workers that have a file of block b open.
HasOpen(b) == {w \in Workers : kw[w].fd # "closed" /\ Here(w) = b}
\* Where an open file of b is once its temporary name has moved to the final one.
Published(fd) == [tmp |-> "block", block |-> "gone", gone |-> "gone"][fd]
-----------------------------------------------------------------------------
KvInit ==
    /\ block = [b \in Blocks |-> "absent"] /\ tmp = [b \in Blocks |-> "absent"]
    /\ manifest = [w \in Workers |-> NoManifest]
    /\ kw = [w \in Workers |-> KvIdle]
    /\ answer = [w \in Workers |-> NoAnswer] /\ faults = 0 /\ spoiled = {}

\* snapshot(turn, prov, blocks): put every block, then the manifest.
Snapshot(w, p) ==
    /\ KvAt(w, "idle")
    /\ kw' = [kw EXCEPT ![w].pc = "put", ![w].prov = p]
    /\ UNCHANGED <<files, manifest, answer, faults, spoiled>>

\* put: a file that exists is taken for the block.
PutDedup(w) ==
    /\ KvAt(w, "put") /\ kw[w].i <= Len(BlocksOf[w]) /\ block[Here(w)] # "absent"
    /\ kw' = [kw EXCEPT ![w].i = @ + 1]
    /\ UNCHANGED <<files, manifest, answer, faults, spoiled>>

PutNew(w) ==
    /\ KvAt(w, "put") /\ kw[w].i <= Len(BlocksOf[w]) /\ block[Here(w)] = "absent"
    /\ kw' = [kw EXCEPT ![w].pc = "open"]
    /\ UNCHANGED <<files, manifest, answer, faults, spoiled>>

\* Mutant: the block is written under its final name.
PutOpenInPlace(w) ==
    /\ KvAt(w, "open")
    /\ block' = [block EXCEPT ![Here(w)] = "bad"] /\ tmp' = [tmp EXCEPT ![Here(w)] = "whole"]
    /\ kw' = [kw EXCEPT ![w].pc = "write", ![w].fd = "block"]
    /\ UNCHANGED <<manifest, answer, faults, spoiled>>

\* open(tmp, "wb"): create, or truncate what another worker has there.
PutOpen(w) ==
    /\ KvAt(w, "open")
    /\ tmp' = [tmp EXCEPT ![Here(w)] = "bad"]
    /\ spoiled' = IF HasOpen(Here(w)) = {} THEN spoiled ELSE spoiled \cup {Here(w)}
    /\ kw' = [kw EXCEPT ![w].pc = "write", ![w].fd = "tmp"]
    /\ UNCHANGED <<block, manifest, answer, faults>>

\* write, flush, fsync: into the file that was opened, whatever its name is by
\* now.  All writers of a file write the same content.
PutWrite(w) ==
    /\ KvAt(w, "write")
    /\ tmp' = IF kw[w].fd = "tmp" THEN [tmp EXCEPT ![Here(w)] = "whole"] ELSE tmp
    /\ block' = IF kw[w].fd = "block" THEN [block EXCEPT ![Here(w)] = "whole"] ELSE block
    /\ kw' = [kw EXCEPT ![w].pc = "publish"]
    /\ UNCHANGED <<manifest, answer, faults, spoiled>>

\* os.replace(tmp, p).
PutPublish(w) ==
    LET b == Here(w) IN
    /\ KvAt(w, "publish") /\ tmp[b] # "absent"
    /\ block' = [block EXCEPT ![b] = tmp[b]] /\ tmp' = [tmp EXCEPT ![b] = "absent"]
    /\ kw' = [v \in Workers |->
                 IF v = w THEN [kw[w] EXCEPT !.pc = "put", !.i = @ + 1, !.fd = "closed"]
                 ELSE IF v \in HasOpen(b) THEN [kw[v] EXCEPT !.fd = Published(@)]
                 ELSE kw[v]]
    /\ UNCHANGED <<manifest, answer, faults, spoiled>>

\* FileNotFoundError: another worker has published the file.
PutRaises(w) ==
    /\ KvAt(w, "publish") /\ tmp[Here(w)] = "absent"
    /\ kw' = [kw EXCEPT ![w] = KvIdle]
    /\ UNCHANGED <<files, manifest, answer, faults, spoiled>>

\* The manifest replaces an older one of the turn: an upsert, one commit.
PutManifest(w) ==
    /\ KvAt(w, "put") /\ kw[w].i > Len(BlocksOf[w])
    /\ manifest' = [manifest EXCEPT ![w] = [prov |-> kw[w].prov, blocks |-> BlocksOf[w]]]
    /\ kw' = [kw EXCEPT ![w] = KvIdle]
    /\ UNCHANGED <<files, answer, faults, spoiled>>
-----------------------------------------------------------------------------
(* restore(turn, current)                                                  *)

KvAnswer(w, p, m, got, reason) ==
    /\ answer' = [answer EXCEPT ![w] = [prov |-> p, m |-> m, got |-> got, reason |-> reason]]
    /\ kw' = [kw EXCEPT ![w] = KvIdle]

ManifestMissing(w, p) ==
    /\ KvAt(w, "idle") /\ manifest[w] = NoManifest
    /\ KvAnswer(w, p, NoManifest, <<>>, "manifest_missing")
    /\ UNCHANGED <<files, manifest, faults, spoiled>>

ProvenanceMismatch(w, p) ==
    /\ KvAt(w, "idle") /\ manifest[w] # NoManifest /\ manifest[w].prov # p
    /\ KvAnswer(w, p, manifest[w], <<>>, "provenance_mismatch")
    /\ UNCHANGED <<files, manifest, faults, spoiled>>

\* Mutant: any field of the fingerprint may differ.
RestoreAnyEngine(w, p) ==
    /\ KvAt(w, "idle") /\ manifest[w] # NoManifest
    /\ kw' = [kw EXCEPT ![w].pc = "get", ![w].prov = p, ![w].m = manifest[w]]
    /\ UNCHANGED <<files, manifest, answer, faults, spoiled>>

Restore(w, p) ==
    /\ KvAt(w, "idle") /\ manifest[w] # NoManifest /\ manifest[w].prov = p
    /\ kw' = [kw EXCEPT ![w].pc = "get", ![w].prov = p, ![w].m = manifest[w]]
    /\ UNCHANGED <<files, manifest, answer, faults, spoiled>>

\* get(h): the bytes, verified against the hash.
Get(w) ==
    LET k == kw[w] IN
    /\ KvAt(w, "get") /\ k.i <= Len(k.m.blocks) /\ block[k.m.blocks[k.i]] = "whole"
    /\ kw' = [kw EXCEPT ![w].i = @ + 1, ![w].got = Append(@, <<k.m.blocks[k.i], block[k.m.blocks[k.i]]>>)]
    /\ UNCHANGED <<files, manifest, answer, faults, spoiled>>

GetFails(w) ==
    LET k == kw[w] IN
    /\ KvAt(w, "get") /\ k.i <= Len(k.m.blocks) /\ block[k.m.blocks[k.i]] # "whole"
    /\ KvAnswer(w, k.prov, k.m, <<>>, "block_corrupt_or_missing")
    /\ UNCHANGED <<files, manifest, faults, spoiled>>

Restored(w) ==
    LET k == kw[w] IN
    /\ KvAt(w, "get") /\ k.i > Len(k.m.blocks)
    /\ KvAnswer(w, k.prov, k.m, k.got, "")
    /\ UNCHANGED <<files, manifest, faults, spoiled>>
-----------------------------------------------------------------------------
KvDie(w) ==
    /\ ~KvAt(w, "idle") /\ kw' = [kw EXCEPT ![w] = KvIdle]
    /\ UNCHANGED <<files, manifest, answer, faults, spoiled>>

\* A byte of a block at rest flips.
Corrupt(b) ==
    /\ block[b] = "whole" /\ block' = [block EXCEPT ![b] = "bad"]
    /\ faults < MaxFaults /\ faults' = faults + 1 /\ spoiled' = spoiled \cup {b}
    /\ UNCHANGED <<tmp, manifest, kw, answer>>

\* A block at rest is removed; whoever has it open keeps a file without a name.
RemoveBlock(b) ==
    /\ block[b] # "absent" /\ block' = [block EXCEPT ![b] = "absent"]
    /\ kw' = [w \in Workers |-> IF w \in HasOpen(b) /\ kw[w].fd = "block" THEN [kw[w] EXCEPT !.fd = "gone"] ELSE kw[w]]
    /\ faults < MaxFaults /\ faults' = faults + 1 /\ spoiled' = spoiled \cup {b}
    /\ UNCHANGED <<tmp, manifest, answer>>

Put(w) ==
    \/ PutDedup(w) \/ PutNew(w) \/ PutOpen(w) \/ PutWrite(w) \/ PutPublish(w) \/ PutRaises(w)
    \/ PutManifest(w)
TryRestore(w, p) == ManifestMissing(w, p) \/ ProvenanceMismatch(w, p) \/ Restore(w, p)
Fetch(w) == Get(w) \/ GetFails(w) \/ Restored(w)
Fault == \E b \in Blocks : Corrupt(b) \/ RemoveBlock(b)

KvNext ==
    \/ \E w \in Workers, p \in Provs : Snapshot(w, p) \/ TryRestore(w, p)
    \/ \E w \in Workers : Put(w) \/ Fetch(w) \/ KvDie(w)
    \/ Fault

KvSpec == KvInit /\ [][KvNext]_kvVars
-----------------------------------------------------------------------------
KvTypeOK ==
    /\ block \in [Blocks -> File] /\ tmp \in [Blocks -> File]
    /\ manifest \in [Workers -> Manifest \cup {NoManifest}]
    /\ kw \in [Workers -> [pc : {"idle", "put", "open", "write", "publish", "get"}, i : Nat \ {0},
                           fd : {"closed", "tmp", "block", "gone"}, prov : Provs \cup {NoManifest},
                           m : Manifest \cup {NoManifest}, got : Seq(Blocks \X File)]]
    /\ answer \in [Workers -> [prov : Provs \cup {NoManifest}, m : Manifest \cup {NoManifest},
                               got : Seq(Blocks \X File), reason : Reasons]]
    /\ faults \in 0 .. MaxFaults /\ spoiled \subseteq Blocks

\* RESTORED is byte-exact: the engine's provenance is that of the manifest, and
\* every block handed out was read whole, whatever other workers and faults did
\* to the store meanwhile.
RestoredIsExact ==
    \A w \in Workers : LET r == answer[w] IN r.reason = "" =>
        /\ r.m # NoManifest /\ r.prov = r.m.prov
        /\ Len(r.got) = Len(r.m.blocks)
        /\ \A i \in 1 .. Len(r.got) : r.got[i] = <<r.m.blocks[i], "whole">>

\* put() publishes atomically: a manifest names only whole blocks, wherever
\* workers died, except for a block that was damaged at rest or that two
\* workers put at the same time.
ManifestWhole ==
    \A w \in Workers : manifest[w] # NoManifest =>
        \A i \in 1 .. Len(manifest[w].blocks) :
            block[manifest[w].blocks[i]] = "whole" \/ manifest[w].blocks[i] \in spoiled
=============================================================================
