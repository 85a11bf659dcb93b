---------------------------- MODULE KVViewProofs -----------------------------
(***************************************************************************)
(* Theorems about KVView, for any number of workers, blocks, engines and   *)
(* faults: what a restore hands out is exact, and put() publishes whole    *)
(* blocks although all workers share a block's temporary name.             *)
(***************************************************************************)
EXTENDS KVView, TLAPS

KvRow == [pc : {"idle", "put", "open", "write", "publish", "get"}, i : Nat \ {0},
        fd : {"closed", "tmp", "block", "gone"}, prov : Provs \cup {NoManifest},
        m : Manifest \cup {NoManifest}, got : Seq(Blocks \X File)]

AnswerType == [Workers -> [prov : Provs \cup {NoManifest}, m : Manifest \cup {NoManifest},
                           got : Seq(Blocks \X File), reason : Reasons]]

\* A block as a manifest may name it.
Fine(b) == block[b] = "whole" \/ b \in spoiled
InPut(k) == k.pc \in {"put", "open", "write", "publish"}

\* A snapshot has come to block i of its turn, and a file is open while it is
\* written and published.
PutInv == \A w \in Workers :
    /\ kw[w].fd # "closed" <=> kw[w].pc \in {"write", "publish"}
    /\ kw[w].pc \in {"open", "write", "publish"} => kw[w].i <= Len(BlocksOf[w])
    /\ kw[w].pc = "idle" => kw[w].i = 1
    /\ InPut(kw[w]) => kw[w].prov \in Provs
    /\ InPut(kw[w]) => \A j \in 1 .. Len(BlocksOf[w]) : j < kw[w].i => Fine(BlocksOf[w][j])

\* A restore has got the first blocks of its manifest, each of them whole.
GetRow(k) ==
    /\ k.pc # "get" => k.got = <<>>
    /\ k.pc = "get" =>
           /\ k.m \in Manifest /\ k.prov = k.m.prov
           /\ Len(k.got) = k.i - 1 /\ Len(k.got) <= Len(k.m.blocks)
           /\ \A j \in 1 .. Len(k.got) : k.got[j] = <<k.m.blocks[j], "whole">>
GetInv == \A w \in Workers : GetRow(kw[w])

\* One worker at a time has a block's file open, unless the block is spoiled;
\* it is then under its temporary name, and whole when it is published.
SoleWriter == \A b \in Blocks \ spoiled :
    /\ block[b] # "bad"
    /\ \A v, w \in HasOpen(b) : v = w
    /\ \A w \in HasOpen(b) : kw[w].fd = "tmp" /\ (kw[w].pc = "publish" => tmp[b] = "whole")

ManifestsFine == \A w \in Workers : manifest[w] # NoManifest =>
    \A j \in 1 .. Len(manifest[w].blocks) : Fine(manifest[w].blocks[j])

StoreInv == KvTypeOK /\ PutInv /\ GetInv /\ SoleWriter /\ ManifestsFine /\ RestoredIsExact

\* KvTypeOK of one worker's locals, and of the block it has come to.
LEMMA RowFields ==
    ASSUME KvTypeOK, NEW w \in Workers
    PROVE  /\ kw[w] \in KvRow
           /\ kw[w].pc \in {"idle", "put", "open", "write", "publish", "get"}
           /\ kw[w].i \in Nat \ {0} /\ kw[w].fd \in {"closed", "tmp", "block", "gone"}
           /\ kw[w].prov \in Provs \cup {NoManifest} /\ kw[w].m \in Manifest \cup {NoManifest}
           /\ kw[w].got \in Seq(Blocks \X File)
<1> kw[w] \in KvRow
  BY DEF KvTypeOK, KvRow
<1> QED BY DEF KvRow

LEMMA HereIsBlock ==
    ASSUME KvTypeOK, NEW w \in Workers, kw[w].i <= Len(BlocksOf[w])
    PROVE  Here(w) \in Blocks
<1>1. BlocksOf[w] \in Seq(Blocks)
  BY KvAssumption DEF KvAssumption
<1> QED BY <1>1, RowFields DEF Here

LEMMA ManifestBlocks ==
    ASSUME KvTypeOK, NEW w \in Workers, manifest[w] # NoManifest, NEW j \in 1 .. Len(manifest[w].blocks)
    PROVE  manifest[w].blocks[j] \in Blocks
BY DEF KvTypeOK, Manifest

LEMMA IdleRow == KvIdle \in KvRow
BY DEF KvIdle, KvRow, File

\* A step that leaves the store alone and moves one worker's locals to r keeps
\* the invariant if r does: the obligations are then about r only.
GoodRow(w, r) ==
    /\ r \in KvRow
    /\ r.fd # "closed" <=> r.pc \in {"write", "publish"}
    /\ r.pc \in {"open", "write", "publish"} => r.i <= Len(BlocksOf[w])
    /\ r.pc = "idle" => r.i = 1
    /\ InPut(r) => r.prov \in Provs
    /\ InPut(r) => \A j \in 1 .. Len(BlocksOf[w]) : j < r.i => Fine(BlocksOf[w][j])
    /\ GetRow(r)

\* Neither the invariant of a restore nor that of a snapshot looks at anything else.
LEMMA SameGet ==
    ASSUME NEW k, NEW l, GetRow(k), l.pc = k.pc, l.i = k.i, l.prov = k.prov, l.m = k.m, l.got = k.got
    PROVE  GetRow(l)
BY DEF GetRow

LEMMA RowsAreGood == ASSUME StoreInv, NEW w \in Workers PROVE GoodRow(w, kw[w])
BY RowFields DEF StoreInv, PutInv, GetInv, GoodRow

LEMMA IdleIsGood == ASSUME NEW w \in Workers PROVE GoodRow(w, KvIdle)
BY IdleRow DEF GoodRow, GetRow, KvIdle, InPut

\* Type correctness of a step that leaves the store alone.
LEMMA TypesStay ==
    ASSUME KvTypeOK, kw' \in [Workers -> KvRow], UNCHANGED <<files, faults, spoiled>>,
           manifest' \in [Workers -> Manifest \cup {NoManifest}],
           answer' \in AnswerType
    PROVE  KvTypeOK'
BY DEF KvTypeOK, KvRow, AnswerType, files

LEMMA MoveStoreInv ==
    ASSUME StoreInv, NEW w \in Workers, NEW r, GoodRow(w, r), r.fd = "closed",
           kw' = [kw EXCEPT ![w] = r], UNCHANGED <<files, faults, spoiled>>,
           manifest' \in [Workers -> Manifest \cup {NoManifest}], ManifestsFine',
           answer' \in AnswerType, RestoredIsExact'
    PROVE  StoreInv'
<1>1. r \in KvRow /\ kw' \in [Workers -> KvRow] /\ kw'[w] = r
      /\ \A v \in Workers : v # w => kw'[v] = kw[v]
  BY DEF GoodRow, StoreInv, KvTypeOK, KvRow
<1>2. KvTypeOK'
  BY <1>1, TypesStay DEF StoreInv
<1>3. \A v \in Workers : GoodRow(v, kw'[v])
  BY <1>1, RowsAreGood
<1>4. PutInv' /\ GetInv'
  BY <1>3 DEF GoodRow, PutInv, GetInv, Fine, files
<1>5. SoleWriter'
  <2>1. \A b \in Blocks : HasOpen(b)' \subseteq HasOpen(b)
    BY <1>1 DEF HasOpen, Here
  <2>2. \A b \in Blocks : \A v \in HasOpen(b)' : kw'[v] = kw[v]
    BY <1>1 DEF HasOpen
  <2> QED BY <2>1, <2>2 DEF StoreInv, SoleWriter, files
<1> QED BY <1>2, <1>4, <1>5 DEF StoreInv

\* The same for a step that says nothing of manifests and answers.
LEMMA QuietStoreInv ==
    ASSUME StoreInv, NEW w \in Workers, NEW r, GoodRow(w, r), r.fd = "closed",
           kw' = [kw EXCEPT ![w] = r], UNCHANGED <<files, manifest, answer, faults, spoiled>>
    PROVE  StoreInv'
<1>1. manifest' \in [Workers -> Manifest \cup {NoManifest}] /\ answer' \in AnswerType
  BY DEF StoreInv, KvTypeOK, AnswerType
<1>2. ManifestsFine' /\ RestoredIsExact'
  BY DEF StoreInv, ManifestsFine, Fine, RestoredIsExact, files
<1> QED BY <1>1, <1>2, MoveStoreInv DEF files

\* The answer of a restore: exact if it is RESTORED, and the worker is idle again.
LEMMA AnswerStoreInv ==
    ASSUME StoreInv, NEW w \in Workers, NEW p \in Provs \cup {NoManifest},
           NEW m \in Manifest \cup {NoManifest}, NEW got \in Seq(Blocks \X File),
           NEW reason \in Reasons, KvAnswer(w, p, m, got, reason),
           UNCHANGED <<files, manifest, faults, spoiled>>,
           reason = "" => /\ m # NoManifest /\ p = m.prov /\ Len(got) = Len(m.blocks)
                          /\ \A j \in 1 .. Len(got) : got[j] = <<m.blocks[j], "whole">>
    PROVE  StoreInv'
<1> DEFINE a == [prov |-> p, m |-> m, got |-> got, reason |-> reason]
           AnswerRow == [prov : Provs \cup {NoManifest}, m : Manifest \cup {NoManifest},
                         got : Seq(Blocks \X File), reason : Reasons]
<1>1. a \in AnswerRow
  OBVIOUS
<1>2. /\ answer' \in [Workers -> AnswerRow] /\ answer'[w] = a
      /\ \A v \in Workers : v # w => answer'[v] = answer[v]
  <2> HIDE DEF a
  <2>1. answer' = [answer EXCEPT ![w] = a]
    BY DEF KvAnswer, a
  <2> QED BY <1>1, <2>1 DEF StoreInv, KvTypeOK
<1>3. RestoredIsExact'
  <2> DEFINE Exact(x) == x.reason = "" =>
                 /\ x.m # NoManifest /\ x.prov = x.m.prov
                 /\ Len(x.got) = Len(x.m.blocks)
                 /\ \A i \in 1 .. Len(x.got) : x.got[i] = <<x.m.blocks[i], "whole">>
  <2>1. Exact(a)
    OBVIOUS
  <2>2. \A v \in Workers : Exact(answer[v])
    BY DEF StoreInv, RestoredIsExact
  <2>3. \A v \in Workers : Exact(answer'[v])
    <3> HIDE DEF a, Exact
    <3> QED BY <1>2, <2>1, <2>2
  <2> QED BY <2>3 DEF RestoredIsExact
<1>4. manifest' \in [Workers -> Manifest \cup {NoManifest}] /\ ManifestsFine'
  BY DEF StoreInv, KvTypeOK, ManifestsFine, Fine, files
<1>5. KvIdle.fd = "closed" /\ kw' = [kw EXCEPT ![w] = KvIdle]
  BY DEF KvIdle, KvAnswer
<1>6. answer' \in AnswerType
  BY <1>2 DEF AnswerType
<1> QED BY <1>3, <1>4, <1>5, <1>6, IdleIsGood, MoveStoreInv DEF files

LEMMA InitStoreInv == KvInit => StoreInv
<1> SUFFICES ASSUME KvInit PROVE StoreInv
  OBVIOUS
<1>1. kw \in [Workers -> KvRow] /\ \A w \in Workers : kw[w] = KvIdle
  BY IdleRow DEF KvInit
<1>2. \A w \in Workers : GoodRow(w, kw[w])
  BY <1>1, IdleIsGood
<1>3. PutInv /\ GetInv
  BY <1>2 DEF GoodRow, PutInv, GetInv
<1>4. SoleWriter
  BY <1>1 DEF KvInit, SoleWriter, HasOpen, KvIdle
<1>5. KvTypeOK
  BY <1>1, KvAssumption DEF KvInit, KvTypeOK, KvRow, File, NoAnswer, Reasons, KvAssumption
<1> QED BY <1>3, <1>4, <1>5 DEF KvInit, StoreInv, ManifestsFine, RestoredIsExact, NoAnswer

LEMMA SnapshotStoreInv == ASSUME StoreInv, NEW w \in Workers, NEW p \in Provs, Snapshot(w, p) PROVE StoreInv'
<1> DEFINE r == [[kw[w] EXCEPT !.pc = "put"] EXCEPT !.prov = p]
<1>1. kw' = [kw EXCEPT ![w] = r]
  BY RowFields DEF Snapshot, StoreInv, KvTypeOK, KvRow
<1>2. r \in KvRow /\ r.pc = "put" /\ r.prov = p /\ r.i = 1 /\ r.fd = "closed" /\ r.got = <<>>
  BY RowFields DEF Snapshot, KvAt, StoreInv, PutInv, GetInv, GetRow, KvRow
<1>3. GoodRow(w, r)
  BY <1>2 DEF GoodRow, GetRow, InPut
<1> QED BY <1>1, <1>2, <1>3, QuietStoreInv DEF Snapshot

\* An existing file that put() trusts is whole, or the block is spoiled.
LEMMA PutDedupStoreInv == ASSUME StoreInv, NEW w \in Workers, PutDedup(w) PROVE StoreInv'
<1> DEFINE r == [kw[w] EXCEPT !.i = kw[w].i + 1]
<1>1. kw' = [kw EXCEPT ![w] = r]
  BY DEF PutDedup
<1>2. r \in KvRow /\ r.pc = "put" /\ r.prov = kw[w].prov /\ r.i = kw[w].i + 1
      /\ r.fd = "closed" /\ r.got = <<>>
  BY RowFields DEF PutDedup, KvAt, StoreInv, PutInv, GetInv, GetRow, KvRow
<1>3. Here(w) \in Blocks
  BY HereIsBlock DEF PutDedup, StoreInv
<1>4. Fine(Here(w))
  BY <1>3 DEF PutDedup, StoreInv, KvTypeOK, File, SoleWriter, Fine
<1>5. \A j \in 1 .. Len(BlocksOf[w]) : j < r.i => Fine(BlocksOf[w][j])
  BY <1>2, <1>4, RowFields DEF PutDedup, KvAt, StoreInv, PutInv, InPut, Here
<1>6. GoodRow(w, r)
  BY <1>2, <1>5 DEF GoodRow, GetRow, InPut, PutDedup, KvAt, StoreInv, PutInv
<1> QED BY <1>1, <1>2, <1>6, QuietStoreInv DEF PutDedup

LEMMA PutNewStoreInv == ASSUME StoreInv, NEW w \in Workers, PutNew(w) PROVE StoreInv'
<1> DEFINE r == [kw[w] EXCEPT !.pc = "open"]
<1>1. kw' = [kw EXCEPT ![w] = r]
  BY DEF PutNew
<1>2. r \in KvRow /\ r.pc = "open" /\ r.prov = kw[w].prov /\ r.i = kw[w].i
      /\ r.fd = "closed" /\ r.got = <<>>
  BY RowFields DEF PutNew, KvAt, StoreInv, PutInv, GetInv, GetRow, KvRow
<1>3. GoodRow(w, r)
  BY <1>2 DEF GoodRow, GetRow, InPut, PutNew, KvAt, StoreInv, PutInv
<1> QED BY <1>1, <1>2, <1>3, QuietStoreInv DEF PutNew

\* A worker that dies, or whose put() raises, closes its file.
LEMMA StopStoreInv ==
    ASSUME StoreInv, NEW w \in Workers, kw' = [kw EXCEPT ![w] = KvIdle],
           UNCHANGED <<files, manifest, answer, faults, spoiled>>
    PROVE  StoreInv'
<1>1. KvIdle.fd = "closed"
  BY DEF KvIdle
<1> QED BY <1>1, IdleIsGood, QuietStoreInv

LEMMA PutManifestStoreInv == ASSUME StoreInv, NEW w \in Workers, PutManifest(w) PROVE StoreInv'
<1> DEFINE m == [prov |-> kw[w].prov, blocks |-> BlocksOf[w]]
<1>1. kw[w].prov \in Provs
      /\ \A j \in 1 .. Len(BlocksOf[w]) : j < kw[w].i => Fine(BlocksOf[w][j])
  BY DEF PutManifest, KvAt, StoreInv, PutInv, InPut
<1>2. BlocksOf[w] \in Seq(Blocks)
  BY KvAssumption DEF KvAssumption
<1>3. m \in Manifest /\ m.blocks = BlocksOf[w]
  BY <1>1, <1>2 DEF Manifest
<1>4. \A j \in 1 .. Len(m.blocks) : Fine(m.blocks[j])
  BY <1>1, <1>2, <1>3, RowFields DEF PutManifest, StoreInv
<1>5. manifest' = [manifest EXCEPT ![w] = m]
  BY DEF PutManifest
<1> HIDE DEF m
<1>6. manifest' \in [Workers -> Manifest \cup {NoManifest}]
  BY <1>3, <1>5 DEF StoreInv, KvTypeOK
<1>7. ManifestsFine'
  BY <1>4, <1>5 DEF PutManifest, StoreInv, KvTypeOK, ManifestsFine, Fine, files
<1>8. RestoredIsExact' /\ answer' \in AnswerType /\ KvIdle.fd = "closed"
  BY DEF PutManifest, StoreInv, KvTypeOK, AnswerType, RestoredIsExact, KvIdle
<1> QED BY <1>6, <1>7, <1>8, IdleIsGood, MoveStoreInv DEF PutManifest, files

\* open(tmp, "wb"): if nobody has the block's file open, this worker is the only
\* one; otherwise the block is spoiled from now on.
LEMMA PutOpenStoreInv == ASSUME StoreInv, NEW w \in Workers, PutOpen(w) PROVE StoreInv'
<1> DEFINE r == [[kw[w] EXCEPT !.pc = "write"] EXCEPT !.fd = "tmp"]
<1>1. kw' = [kw EXCEPT ![w] = r]
  BY RowFields DEF PutOpen, StoreInv, KvTypeOK, KvRow
<1>2. r \in KvRow /\ r.pc = "write" /\ r.prov = kw[w].prov /\ r.i = kw[w].i
      /\ r.fd = "tmp" /\ r.got = <<>>
  BY RowFields DEF PutOpen, KvAt, StoreInv, PutInv, GetInv, GetRow, KvRow
<1>3. GoodRow(w, r)
  BY <1>2 DEF GoodRow, GetRow, InPut, PutOpen, KvAt, StoreInv, PutInv
<1>4. kw' \in [Workers -> KvRow] /\ kw'[w] = r /\ \A v \in Workers : v # w => kw'[v] = kw[v]
  <2> HIDE DEF r
  <2> QED BY <1>1, <1>2 DEF StoreInv, KvTypeOK, KvRow
<1> HIDE DEF r
<1>5. Here(w) \in Blocks /\ Here(w)' = Here(w)
  BY <1>2, <1>4, HereIsBlock DEF PutOpen, KvAt, StoreInv, PutInv, Here
<1>6. spoiled \subseteq spoiled' /\ spoiled' \subseteq spoiled \cup {Here(w)}
  BY DEF PutOpen
<1>7. KvTypeOK'
  BY <1>4, <1>5, <1>6 DEF PutOpen, StoreInv, KvTypeOK, KvRow, File
<1>8. \A v \in Workers : GoodRow(v, kw'[v])
  BY <1>3, <1>4, RowsAreGood
<1>9. PutInv' /\ GetInv'
  BY <1>6, <1>8 DEF PutOpen, GoodRow, PutInv, GetInv, Fine
<1>10. SoleWriter'
  <2> SUFFICES ASSUME NEW b \in Blocks, b \notin spoiled'
               PROVE  /\ block'[b] # "bad"
                      /\ \A u, v \in HasOpen(b)' : u = v
                      /\ \A v \in HasOpen(b)' :
                             kw'[v].fd = "tmp" /\ (kw'[v].pc = "publish" => tmp'[b] = "whole")
    BY DEF SoleWriter
  <2>1. block'[b] # "bad" /\ b \notin spoiled
    BY <1>6 DEF PutOpen, StoreInv, SoleWriter
  <2>2. CASE b = Here(w)
    <3>1. HasOpen(b) = {}
      BY <2>2 DEF PutOpen
    <3>2. HasOpen(b)' \subseteq {w}
      BY <1>4, <3>1 DEF HasOpen, Here
    <3> QED BY <1>2, <1>4, <2>1, <3>2
  <2>3. CASE b # Here(w)
    <3>1. HasOpen(b)' = HasOpen(b) /\ w \notin HasOpen(b)
      BY <1>4, <1>5, <2>3 DEF HasOpen, Here, PutOpen, KvAt, StoreInv, PutInv
    <3>2. \A v \in HasOpen(b) : v \in Workers /\ kw'[v] = kw[v]
      BY <1>4, <3>1 DEF HasOpen
    <3>3. tmp'[b] = tmp[b]
      BY <1>5, <2>3 DEF PutOpen, StoreInv, KvTypeOK
    <3> QED BY <2>1, <3>1, <3>2, <3>3 DEF StoreInv, SoleWriter
  <2> QED BY <2>2, <2>3
<1>11. ManifestsFine' /\ RestoredIsExact'
  BY <1>6 DEF PutOpen, StoreInv, ManifestsFine, Fine, RestoredIsExact
<1> QED BY <1>7, <1>9, <1>10, <1>11 DEF StoreInv

\* write and fsync make the open file whole, wherever its name has moved.
LEMMA PutWriteStoreInv == ASSUME StoreInv, NEW w \in Workers, PutWrite(w) PROVE StoreInv'
<1> DEFINE r == [kw[w] EXCEPT !.pc = "publish"]
<1>1. kw' = [kw EXCEPT ![w] = r]
  BY DEF PutWrite
<1>2. r \in KvRow /\ r.pc = "publish" /\ r.prov = kw[w].prov /\ r.i = kw[w].i
      /\ r.fd = kw[w].fd /\ kw[w].fd # "closed" /\ r.got = <<>>
  BY RowFields DEF PutWrite, KvAt, StoreInv, PutInv, GetInv, GetRow, KvRow
<1>3. GoodRow(w, r)
  BY <1>2 DEF GoodRow, GetRow, InPut, PutWrite, KvAt, StoreInv, PutInv
<1>4. kw' \in [Workers -> KvRow] /\ kw'[w] = r /\ \A v \in Workers : v # w => kw'[v] = kw[v]
  <2> HIDE DEF r
  <2> QED BY <1>1, <1>2 DEF StoreInv, KvTypeOK, KvRow
<1> HIDE DEF r
<1>5. Here(w) \in Blocks
  BY HereIsBlock DEF PutWrite, KvAt, StoreInv, PutInv
<1>6. /\ tmp' \in [Blocks -> File] /\ block' \in [Blocks -> File]
      /\ \A b \in Blocks : tmp'[b] = tmp[b] \/ tmp'[b] = "whole"
      /\ \A b \in Blocks : block'[b] = block[b] \/ block'[b] = "whole"
      /\ kw[w].fd = "tmp" => tmp'[Here(w)] = "whole"
  BY <1>5 DEF PutWrite, StoreInv, KvTypeOK, File
<1>7. KvTypeOK'
  BY <1>4, <1>6 DEF PutWrite, StoreInv, KvTypeOK, KvRow
<1>8. \A b \in Blocks : Fine(b) => Fine(b)'
  BY <1>6 DEF PutWrite, Fine
<1>9. \A v \in Workers : BlocksOf[v] \in Seq(Blocks)
  BY KvAssumption DEF KvAssumption
<1>10. \A v \in Workers : GoodRow(v, kw'[v])
  BY <1>3, <1>4, RowsAreGood
<1>11. PutInv' /\ GetInv'
  BY <1>8, <1>9, <1>10 DEF GoodRow, PutInv, GetInv
<1>12. \A b \in Blocks : HasOpen(b)' = HasOpen(b)
  BY <1>2, <1>4 DEF HasOpen, Here
<1>13. SoleWriter'
  <2> SUFFICES ASSUME NEW b \in Blocks, b \notin spoiled
               PROVE  /\ block'[b] # "bad"
                      /\ \A u, v \in HasOpen(b)' : u = v
                      /\ \A v \in HasOpen(b)' :
                             kw'[v].fd = "tmp" /\ (kw'[v].pc = "publish" => tmp'[b] = "whole")
    BY DEF SoleWriter, PutWrite
  <2>1. block'[b] # "bad"
    BY <1>6 DEF StoreInv, SoleWriter
  <2>2. ASSUME NEW v \in HasOpen(b)
        PROVE  kw'[v].fd = "tmp" /\ (kw'[v].pc = "publish" => tmp'[b] = "whole")
    <3>1. v \in Workers /\ kw[v].fd = "tmp" /\ (kw[v].pc = "publish" => tmp[b] = "whole")
      BY DEF StoreInv, SoleWriter, HasOpen
    <3>2. v = w => b = Here(w)
      BY DEF HasOpen
    <3> QED BY <1>2, <1>4, <1>6, <3>1, <3>2
  <2> QED BY <1>12, <2>1, <2>2 DEF StoreInv, SoleWriter
<1>14. ManifestsFine'
  BY <1>8 DEF PutWrite, StoreInv, KvTypeOK, Manifest, ManifestsFine
<1>15. RestoredIsExact'
  BY DEF PutWrite, StoreInv, RestoredIsExact
<1> QED BY <1>7, <1>11, <1>13, <1>14, <1>15 DEF StoreInv

\* os.replace: what is published is whole, or the block is spoiled; the others
\* that have the file open follow it to its final name.
LEMMA PutPublishStoreInv == ASSUME StoreInv, NEW w \in Workers, PutPublish(w) PROVE StoreInv'
<1> DEFINE r == [[[kw[w] EXCEPT !.pc = "put"] EXCEPT !.i = kw[w].i + 1] EXCEPT !.fd = "closed"]
<1>0. PICK b \in Blocks : b = Here(w)
  BY HereIsBlock DEF PutPublish, KvAt, StoreInv, PutInv
<1>1. b \in Blocks /\ w \in HasOpen(b)
  BY <1>0 DEF PutPublish, KvAt, StoreInv, PutInv, HasOpen
<1>2. /\ block' = [block EXCEPT ![b] = tmp[b]] /\ tmp' = [tmp EXCEPT ![b] = "absent"]
      /\ UNCHANGED <<manifest, answer, faults, spoiled>>
  BY <1>0 DEF PutPublish
<1>3. r \in KvRow /\ r.pc = "put" /\ r.prov = kw[w].prov /\ r.i = kw[w].i + 1
      /\ r.fd = "closed" /\ r.got = <<>>
  <2>1. kw[w] \in KvRow /\ kw[w].i + 1 \in Nat \ {0} /\ kw[w].got = <<>>
    BY RowFields DEF PutPublish, KvAt, StoreInv, GetInv, GetRow
  <2> QED BY <2>1 DEF KvRow
<1>4. kw'[w] = r
  BY RowFields DEF PutPublish, StoreInv, KvTypeOK, KvRow
<1>5. ASSUME NEW v \in Workers, v # w
      PROVE  kw'[v] = IF v \in HasOpen(b) THEN [kw[v] EXCEPT !.fd = Published(kw[v].fd)] ELSE kw[v]
  BY <1>0, <1>5 DEF PutPublish
<1>6. ASSUME NEW v \in HasOpen(b)
      PROVE  Published(kw[v].fd) \in {"block", "gone"}
  BY RowFields DEF Published, HasOpen, StoreInv
<1>7. ASSUME NEW v \in Workers, v # w
      PROVE  /\ kw'[v] \in KvRow
             /\ kw'[v].pc = kw[v].pc /\ kw'[v].i = kw[v].i /\ kw'[v].prov = kw[v].prov
             /\ kw'[v].m = kw[v].m /\ kw'[v].got = kw[v].got
             /\ kw'[v].fd = "closed" <=> kw[v].fd = "closed"
             /\ v \notin HasOpen(b) => kw'[v] = kw[v]
  <2>1. kw[v] \in KvRow
    BY RowFields DEF StoreInv
  <2>2. CASE v \in HasOpen(b)
    <3>1. kw'[v] = [kw[v] EXCEPT !.fd = Published(kw[v].fd)] /\ kw[v].fd # "closed"
      BY <1>5, <1>7, <2>2 DEF HasOpen
    <3> QED BY <1>6, <2>1, <2>2, <3>1 DEF KvRow
  <2>3. CASE v \notin HasOpen(b)
    BY <1>5, <1>7, <2>1, <2>3
  <2> QED BY <2>2, <2>3
<1> HIDE DEF r
<1>8. kw' \in [Workers -> KvRow]
  <2>1. kw' = [v \in Workers |-> kw'[v]]
    BY DEF PutPublish
  <2>2. \A v \in Workers : kw'[v] \in KvRow
    BY <1>3, <1>4, <1>7
  <2> QED BY <2>1, <2>2
<1>9. KvTypeOK'
  BY <1>1, <1>2, <1>8 DEF StoreInv, KvTypeOK, KvRow, File
<1>10. b \notin spoiled => tmp[b] = "whole"
  BY <1>0, <1>1 DEF PutPublish, KvAt, StoreInv, SoleWriter
<1>11. \A c \in Blocks : (Fine(c) => Fine(c)') /\ (c # b => block'[c] = block[c] /\ tmp'[c] = tmp[c])
  BY <1>1, <1>2, <1>10 DEF StoreInv, KvTypeOK, Fine
<1>12. Fine(b)'
  BY <1>1, <1>2, <1>10 DEF StoreInv, KvTypeOK, Fine
<1>13. \A v \in Workers : BlocksOf[v] \in Seq(Blocks)
  BY KvAssumption DEF KvAssumption
<1>14. PutInv'
  <2>1. ASSUME NEW v \in Workers, v # w
        PROVE  /\ kw'[v].fd # "closed" <=> kw'[v].pc \in {"write", "publish"}
               /\ kw'[v].pc \in {"open", "write", "publish"} => kw'[v].i <= Len(BlocksOf[v])
               /\ kw'[v].pc = "idle" => kw'[v].i = 1
               /\ InPut(kw'[v]) => kw'[v].prov \in Provs
               /\ InPut(kw'[v]) => \A j \in 1 .. Len(BlocksOf[v]) : j < kw'[v].i => Fine(BlocksOf[v][j])'
    BY <1>7, <1>11, <1>13, <2>1 DEF StoreInv, PutInv, InPut
  <2>2. \A j \in 1 .. Len(BlocksOf[w]) : j < kw'[w].i => Fine(BlocksOf[w][j])'
    <3> SUFFICES ASSUME NEW j \in 1 .. Len(BlocksOf[w]), j < kw[w].i + 1
                 PROVE  Fine(BlocksOf[w][j])'
      BY <1>3, <1>4
    <3>1. CASE j = kw[w].i
      BY <1>0, <1>12, <3>1 DEF Here
    <3>2. CASE j < kw[w].i
      BY <1>11, <1>13, <3>2 DEF PutPublish, KvAt, StoreInv, PutInv, InPut
    <3> QED BY <3>1, <3>2, RowFields DEF StoreInv
  <2>3. kw[w].prov \in Provs
    BY DEF PutPublish, KvAt, StoreInv, PutInv, InPut
  <2> QED BY <1>3, <1>4, <2>1, <2>2, <2>3 DEF PutInv, InPut
<1>15. GetInv'
  <2>1. ASSUME NEW v \in Workers, v # w PROVE GetRow(kw'[v])
    <3>1. GetRow(kw[v])
      BY DEF StoreInv, GetInv
    <3> QED BY <1>7, <2>1, <3>1, SameGet
  <2>2. GetRow(kw'[w])
    BY <1>3, <1>4 DEF GetRow
  <2> QED BY <2>1, <2>2 DEF GetInv
<1>16. SoleWriter'
  <2> SUFFICES ASSUME NEW c \in Blocks, c \notin spoiled
               PROVE  /\ block'[c] # "bad"
                      /\ \A u, v \in HasOpen(c)' : u = v
                      /\ \A v \in HasOpen(c)' :
                             kw'[v].fd = "tmp" /\ (kw'[v].pc = "publish" => tmp'[c] = "whole")
    BY <1>2 DEF SoleWriter
  <2>1. HasOpen(c)' \subseteq HasOpen(c) \ {w}
    BY <1>3, <1>4, <1>7 DEF HasOpen, Here
  <2>2. CASE c = b
    <3>1. HasOpen(c)' = {}
      BY <1>1, <2>1, <2>2 DEF StoreInv, SoleWriter
    <3> QED BY <1>2, <1>12, <2>2, <3>1 DEF Fine
  <2>3. CASE c # b
    <3>1. \A v \in HasOpen(c)' : v \in HasOpen(c) /\ v \in Workers /\ v # w /\ v \notin HasOpen(b)
      BY <2>1, <2>3 DEF HasOpen
    <3>2. \A v \in HasOpen(c)' : v \in HasOpen(c) /\ kw'[v] = kw[v]
      BY <1>7, <3>1
    <3> QED BY <1>11, <2>3, <3>2 DEF StoreInv, SoleWriter
  <2> QED BY <2>2, <2>3
<1>17. ManifestsFine'
  BY <1>2, <1>11 DEF StoreInv, KvTypeOK, Manifest, ManifestsFine
<1>18. RestoredIsExact'
  BY <1>2 DEF StoreInv, RestoredIsExact
<1> QED BY <1>9, <1>14, <1>15, <1>16, <1>17, <1>18 DEF StoreInv

LEMMA RestoreStoreInv == ASSUME StoreInv, NEW w \in Workers, NEW p \in Provs, Restore(w, p) PROVE StoreInv'
<1> DEFINE r == [[[kw[w] EXCEPT !.pc = "get"] EXCEPT !.prov = p] EXCEPT !.m = manifest[w]]
<1>1. kw' = [kw EXCEPT ![w] = r]
  BY RowFields DEF Restore, StoreInv, KvTypeOK, KvRow
<1>2. manifest[w] \in Manifest
  BY DEF Restore, StoreInv, KvTypeOK
<1>3. r \in KvRow /\ r.pc = "get" /\ r.prov = p /\ r.m = manifest[w] /\ r.i = 1
      /\ r.fd = "closed" /\ r.got = <<>>
  BY <1>2, RowFields DEF Restore, KvAt, StoreInv, PutInv, GetInv, GetRow, KvRow
<1>4. Len(manifest[w].blocks) \in Nat
  BY <1>2 DEF Manifest
<1>5. GoodRow(w, r)
  BY <1>2, <1>3, <1>4 DEF GoodRow, GetRow, InPut, Restore
<1> QED BY <1>1, <1>3, <1>5, QuietStoreInv DEF Restore

\* get verifies the bytes against the hash before it hands them out.
LEMMA GetStoreInv == ASSUME StoreInv, NEW w \in Workers, Get(w) PROVE StoreInv'
<1> DEFINE x == <<kw[w].m.blocks[kw[w].i], block[kw[w].m.blocks[kw[w].i]]>>
           r == [[kw[w] EXCEPT !.i = kw[w].i + 1] EXCEPT !.got = Append(kw[w].got, x)]
<1>1. kw[w].m \in Manifest /\ kw[w].prov = kw[w].m.prov /\ Len(kw[w].got) = kw[w].i - 1
      /\ \A j \in 1 .. Len(kw[w].got) : kw[w].got[j] = <<kw[w].m.blocks[j], "whole">>
  BY DEF Get, KvAt, StoreInv, GetInv, GetRow
<1>2. kw[w].i \in 1 .. Len(kw[w].m.blocks) /\ kw[w].m.blocks \in Seq(Blocks)
  BY <1>1, RowFields DEF Get, StoreInv, Manifest
<1>3. kw[w].m.blocks[kw[w].i] \in Blocks
  BY <1>2
<1>4. x = <<kw[w].m.blocks[kw[w].i], "whole">> /\ x \in Blocks \X File
  BY <1>3 DEF Get, File
<1>5. kw' = [kw EXCEPT ![w] = r]
  BY RowFields DEF Get, StoreInv, KvTypeOK, KvRow
<1> HIDE DEF x
<1>6. kw[w].got \in Seq(Blocks \X File) /\ Append(kw[w].got, x) \in Seq(Blocks \X File)
  BY <1>4, RowFields DEF StoreInv
<1>7. r \in KvRow /\ r.pc = "get" /\ r.prov = kw[w].prov /\ r.m = kw[w].m /\ r.i = kw[w].i + 1
      /\ r.fd = "closed" /\ r.got = Append(kw[w].got, x)
  <2>1. kw[w] \in KvRow /\ kw[w].i + 1 \in Nat \ {0} /\ kw[w].pc = "get" /\ kw[w].fd = "closed"
    BY RowFields DEF Get, KvAt, StoreInv, PutInv
  <2> QED BY <1>6, <2>1 DEF KvRow
<1> HIDE DEF r
<1>8. Len(r.got) = kw[w].i /\ \A j \in 1 .. Len(r.got) : r.got[j] = <<kw[w].m.blocks[j], "whole">>
  <2>1. Len(r.got) = Len(kw[w].got) + 1 /\ Len(kw[w].got) + 1 = kw[w].i
    BY <1>1, <1>2, <1>6, <1>7
  <2>2. \A j \in 1 .. Len(kw[w].got) : r.got[j] = <<kw[w].m.blocks[j], "whole">>
    BY <1>1, <1>6, <1>7
  <2>3. r.got[kw[w].i] = <<kw[w].m.blocks[kw[w].i], "whole">>
    BY <1>4, <1>6, <1>7, <2>1
  <2>4. Len(kw[w].got) \in Nat
    BY <1>6
  <2> QED BY <2>1, <2>2, <2>3, <2>4
<1>9. GoodRow(w, r)
  BY <1>1, <1>2, <1>7, <1>8 DEF GoodRow, GetRow, InPut
<1> QED BY <1>5, <1>7, <1>9, QuietStoreInv DEF Get

LEMMA AnswersStoreInv ==
    ASSUME StoreInv, NEW w \in Workers,
           GetFails(w) \/ Restored(w) \/ \E p \in Provs : ManifestMissing(w, p) \/ ProvenanceMismatch(w, p)
    PROVE  StoreInv'
<1>1. <<>> \in Seq(Blocks \X File)
  OBVIOUS
<1>2. CASE GetFails(w)
  BY <1>1, <1>2, RowFields, AnswerStoreInv DEF GetFails, StoreInv, Reasons
<1>3. CASE Restored(w)
  <2> DEFINE k == kw[w]
  <2>1. /\ k.m \in Manifest /\ k.m # NoManifest /\ k.prov = k.m.prov
        /\ Len(k.got) = k.i - 1 /\ Len(k.got) <= Len(k.m.blocks)
        /\ \A j \in 1 .. Len(k.got) : k.got[j] = <<k.m.blocks[j], "whole">>
    BY <1>3, KvAssumption DEF Restored, KvAt, StoreInv, GetInv, GetRow, KvAssumption
  <2>2. Len(k.m.blocks) \in Nat /\ k.i \in Nat /\ k.i > Len(k.m.blocks)
    <3>1. k.m.blocks \in Seq(Blocks)
      BY <2>1 DEF Manifest
    <3>2. k.i \in Nat
      BY RowFields DEF StoreInv
    <3>3. k.i > Len(k.m.blocks)
      BY <1>3 DEF Restored
    <3> QED BY <3>1, <3>2, <3>3
  <2>3. Len(k.got) = Len(k.m.blocks)
    BY <2>1, <2>2
  <2>4. KvAnswer(w, k.prov, k.m, k.got, "") /\ UNCHANGED <<files, manifest, faults, spoiled>>
    BY <1>3 DEF Restored
  <2>5. k.prov \in Provs \cup {NoManifest} /\ k.m \in Manifest \cup {NoManifest}
        /\ k.got \in Seq(Blocks \X File) /\ "" \in Reasons
    BY RowFields DEF StoreInv, Reasons
  <2> HIDE DEF k
  <2> QED BY <2>1, <2>3, <2>4, <2>5, AnswerStoreInv
<1>4. ASSUME NEW p \in Provs, ManifestMissing(w, p) PROVE StoreInv'
  BY <1>1, <1>4, AnswerStoreInv DEF ManifestMissing, Reasons
<1>5. ASSUME NEW p \in Provs, ProvenanceMismatch(w, p) PROVE StoreInv'
  <2>1. manifest[w] \in Manifest \cup {NoManifest}
    BY DEF StoreInv, KvTypeOK
  <2> QED BY <1>1, <1>5, <2>1, AnswerStoreInv DEF ProvenanceMismatch, Reasons
<1> QED BY <1>2, <1>3, <1>4, <1>5

\* A fault spoils the block it hits, and touches no other.
LEMMA CorruptStoreInv == ASSUME StoreInv, NEW b \in Blocks, Corrupt(b) PROVE StoreInv'
<1>1. /\ block' \in [Blocks -> File] /\ \A c \in Blocks : c # b => block'[c] = block[c]
      /\ spoiled' = spoiled \cup {b} /\ UNCHANGED <<tmp, manifest, kw, answer>>
  BY DEF Corrupt, StoreInv, KvTypeOK, File
<1>2. KvTypeOK'
  BY <1>1, KvAssumption DEF Corrupt, StoreInv, KvTypeOK, KvAssumption
<1>3. \A c \in Blocks : Fine(c) => Fine(c)'
  BY <1>1 DEF Fine
<1>4. \A v \in Workers : BlocksOf[v] \in Seq(Blocks)
  BY KvAssumption DEF KvAssumption
<1>5. PutInv' /\ GetInv'
  BY <1>1, <1>3, <1>4, RowFields DEF StoreInv, PutInv, GetInv, InPut
<1>6. SoleWriter'
  BY <1>1 DEF StoreInv, SoleWriter, HasOpen, Here
<1>7. ManifestsFine'
  BY <1>1, <1>3, ManifestBlocks DEF StoreInv, ManifestsFine
<1>8. RestoredIsExact'
  BY <1>1 DEF StoreInv, RestoredIsExact
<1> QED BY <1>2, <1>5, <1>6, <1>7, <1>8 DEF StoreInv

LEMMA RemoveStoreInv == ASSUME StoreInv, NEW b \in Blocks, RemoveBlock(b) PROVE StoreInv'
<1>1. /\ block' \in [Blocks -> File] /\ \A c \in Blocks : c # b => block'[c] = block[c]
      /\ spoiled' = spoiled \cup {b} /\ UNCHANGED <<tmp, manifest, answer>>
  BY DEF RemoveBlock, StoreInv, KvTypeOK, File
<1>2. ASSUME NEW v \in Workers
      PROVE  /\ kw'[v] \in KvRow
             /\ kw'[v].pc = kw[v].pc /\ kw'[v].i = kw[v].i /\ kw'[v].prov = kw[v].prov
             /\ kw'[v].m = kw[v].m /\ kw'[v].got = kw[v].got
             /\ kw'[v].fd = "closed" <=> kw[v].fd = "closed"
             /\ v \notin HasOpen(b) => kw'[v] = kw[v]
  <2>1. kw[v] \in KvRow
    BY RowFields DEF StoreInv
  <2>2. CASE v \in HasOpen(b) /\ kw[v].fd = "block"
    <3>1. kw'[v] = [kw[v] EXCEPT !.fd = "gone"]
      BY <2>2 DEF RemoveBlock
    <3> QED BY <2>1, <2>2, <3>1 DEF KvRow
  <2>3. CASE ~(v \in HasOpen(b) /\ kw[v].fd = "block")
    BY <2>1, <2>3 DEF RemoveBlock
  <2> QED BY <2>2, <2>3
<1>3. kw' \in [Workers -> KvRow]
  <2>1. kw' = [v \in Workers |-> kw'[v]]
    BY DEF RemoveBlock
  <2> QED BY <1>2, <2>1
<1>4. KvTypeOK'
  BY <1>1, <1>3, KvAssumption DEF RemoveBlock, StoreInv, KvTypeOK, KvRow, KvAssumption
<1>5. \A c \in Blocks : Fine(c) => Fine(c)'
  BY <1>1 DEF Fine
<1>6. \A v \in Workers : BlocksOf[v] \in Seq(Blocks)
  BY KvAssumption DEF KvAssumption
<1>7. PutInv'
  BY <1>2, <1>5, <1>6 DEF StoreInv, PutInv, InPut
<1>8. GetInv'
  <2> SUFFICES ASSUME NEW v \in Workers PROVE GetRow(kw'[v])
    BY DEF GetInv
  <2>1. GetRow(kw[v])
    BY DEF StoreInv, GetInv
  <2> QED BY <1>2, <2>1, SameGet
<1>9. SoleWriter'
  <2>1. \A c \in Blocks : c # b => HasOpen(c)' = HasOpen(c)
    BY <1>2 DEF HasOpen, Here
  <2>2. \A c \in Blocks : c # b => \A v \in HasOpen(c) : kw'[v] = kw[v]
    BY <1>2 DEF HasOpen
  <2> QED BY <1>1, <2>1, <2>2 DEF StoreInv, SoleWriter
<1>10. ManifestsFine'
  BY <1>1, <1>5, ManifestBlocks DEF StoreInv, ManifestsFine
<1>11. RestoredIsExact'
  BY <1>1 DEF StoreInv, RestoredIsExact
<1> QED BY <1>4, <1>7, <1>8, <1>9, <1>10, <1>11 DEF StoreInv

LEMMA NextStoreInv == StoreInv /\ [KvNext]_kvVars => StoreInv'
<1> SUFFICES ASSUME StoreInv, [KvNext]_kvVars PROVE StoreInv'
  OBVIOUS
<1>1. CASE UNCHANGED kvVars
  <2> USE <1>1 DEF kvVars, files, StoreInv
  <2>1. KvTypeOK'
    BY DEF KvTypeOK
  <2>2. PutInv' /\ GetInv'
    BY DEF PutInv, GetInv, Fine
  <2>3. SoleWriter'
    BY DEF SoleWriter, HasOpen, Here
  <2>4. ManifestsFine' /\ RestoredIsExact'
    BY DEF ManifestsFine, Fine, RestoredIsExact
  <2> QED BY <2>1, <2>2, <2>3, <2>4
<1>2. ASSUME NEW w \in Workers, NEW p \in Provs, Snapshot(w, p) \/ TryRestore(w, p) PROVE StoreInv'
  BY <1>2, SnapshotStoreInv, RestoreStoreInv, AnswersStoreInv DEF TryRestore
<1>3. ASSUME NEW w \in Workers, Put(w) PROVE StoreInv'
  <2>1. CASE PutRaises(w)
    BY <2>1, StopStoreInv DEF PutRaises
  <2> QED BY <1>3, <2>1, PutDedupStoreInv, PutNewStoreInv, PutOpenStoreInv, PutWriteStoreInv, PutPublishStoreInv,
             PutManifestStoreInv DEF Put
<1>4. ASSUME NEW w \in Workers, Fetch(w) PROVE StoreInv'
  BY <1>4, GetStoreInv, AnswersStoreInv DEF Fetch
<1>5. ASSUME NEW w \in Workers, KvDie(w) PROVE StoreInv'
  BY <1>5, StopStoreInv DEF KvDie
<1>6. ASSUME Fault PROVE StoreInv'
  BY <1>6, CorruptStoreInv, RemoveStoreInv DEF Fault
<1> QED BY <1>1, <1>2, <1>3, <1>4, <1>5, <1>6 DEF KvNext

\* The inductive invariant of the store, KvTypeOK included.
THEOREM StoreInvSafe == KvSpec => []StoreInv
BY InitStoreInv, NextStoreInv, PTL DEF KvSpec

\* A restore that answers RESTORED hands out exactly the blocks of its manifest,
\* to an engine of the manifest's provenance, whatever the neighbours, the
\* crashes and the faults did: because get() verifies, not because put() is safe.
THEOREM RestoredIsExactSafe == KvSpec => []RestoredIsExact
<1>1. StoreInv => RestoredIsExact
  BY DEF StoreInv
<1> QED BY <1>1, StoreInvSafe, PTL

\* A manifest names whole blocks only, but for those damaged at rest or put by
\* two workers at the same time.
THEOREM ManifestWholeSafe == KvSpec => []ManifestWhole
<1>1. StoreInv => ManifestWhole
  BY DEF StoreInv, ManifestsFine, Fine, ManifestWhole
<1> QED BY <1>1, StoreInvSafe, PTL
=============================================================================
