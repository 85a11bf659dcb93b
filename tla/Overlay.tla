------------------------------ MODULE Overlay ------------------------------
(***************************************************************************)
(* agenttx/dtx.py do_overlay: the OVERLAY class (filesystem effects) of a  *)
(* distributed turn, run by the workers of phase7/overlay_gate.py.  Every  *)
(* coordinator that reaches an action writes a temp file of its own,       *)
(* renames it to the name of the action id and records the action.  There  *)
(* is no fence: racers repeat each other's work.  A coordinator may die    *)
(* between any two steps; the machine may lose power, and then directory   *)
(* entries not yet synced may be lost while database rows are not.         *)
(***************************************************************************)
EXTENDS Integers

CONSTANTS
    Procs,      \* coordinator processes
    N,          \* actions of the durable plan, ordinals 0..N-1
    MaxEpoch,   \* bound on owner_epoch
    MaxLosses   \* bound on power losses

ASSUME OverlayAssumption == N \in Nat /\ MaxEpoch \in Nat /\ MaxLosses \in Nat

VARIABLES
    ownerEpoch, \* turn_owner
    turn,       \* turns.state: "open" or "committed"
    rows,       \* actions: recorded overlay actions
    temps,      \* overlay/: names of the temp files that exist
    synced,     \* those whose content is complete and synced
    final,      \* committed/: what a process sees under each action id
    onDisk,     \* committed/: what a power loss would leave for certain
    losses,     \* power losses so far
    w           \* w[p]: the locals of process p

files == <<temps, synced, final, onDisk>>
db == <<ownerEpoch, turn, rows>>
vars == <<db, files, losses, w>>

Ords == 0 .. N - 1
Contents == {"absent", "partial", "whole"}
Local == [pc : {"idle", "call", "open", "write", "rename", "sync", "record"}, epoch : Nat, ord : Nat,
          how : {"committed", "dedup"}]
Idle == [pc |-> "idle", epoch |-> 0, ord |-> 0, how |-> "committed"]

\* Mutant: the temp file is named by the action alone.
TempShared(p) == <<w[p].ord, 0>>
\* f"{aid}.{pid}.{epoch}.tmp": epochs are unique, so no other process uses it.
Temp(p) == <<w[p].ord, w[p].epoch>>
Content(name) == IF name \in synced THEN "whole" ELSE "partial"
At(p, pc) == w[p].pc = pc
Goto(p, pc) == w' = [w EXCEPT ![p].pc = pc]
-----------------------------------------------------------------------------
\* begin_turn has persisted the plan before any worker starts.
Init ==
    /\ ownerEpoch = 0 /\ turn = "open" /\ rows = {}
    /\ temps = {} /\ synced = {}
    /\ final = [o \in Ords |-> "absent"] /\ onDisk = final
    /\ losses = 0
    /\ w = [p \in Procs |-> Idle]

\* acquire() and load_plan().
Acquire(p) ==
    /\ At(p, "idle") /\ ownerEpoch < MaxEpoch
    /\ ownerEpoch' = ownerEpoch + 1
    /\ w' = [w EXCEPT ![p] = [Idle EXCEPT !.pc = "call", !.epoch = ownerEpoch + 1]]
    /\ UNCHANGED <<turn, rows, files, losses>>

\* Mutant: the dedup path returns without recording the action.
SeenUnrecorded(p) ==
    /\ At(p, "call") /\ w[p].ord < N /\ final[w[p].ord] # "absent"
    /\ w' = [w EXCEPT ![p].ord = w[p].ord + 1]
    /\ UNCHANGED <<db, files, losses>>

\* os.path.exists(final): record what somebody else published.
Seen(p) ==
    /\ At(p, "call") /\ w[p].ord < N /\ final[w[p].ord] # "absent"
    /\ w' = [w EXCEPT ![p].pc = "record", ![p].how = "dedup"]
    /\ UNCHANGED <<db, files, losses>>

\* Mutant: the row is written before the file.
UnseenRecorded(p) ==
    /\ At(p, "call") /\ w[p].ord < N /\ final[w[p].ord] = "absent"
    /\ w' = [w EXCEPT ![p].pc = "open", ![p].how = "committed"]
    /\ rows' = rows \cup {[ord |-> w[p].ord, epoch |-> w[p].epoch, how |-> "committed"]}
    /\ UNCHANGED <<ownerEpoch, turn, files, losses>>

\* The final file is not there: go on to write a temp file.
Unseen(p) ==
    /\ At(p, "call") /\ w[p].ord < N /\ final[w[p].ord] = "absent"
    /\ w' = [w EXCEPT ![p].pc = "open", ![p].how = "committed"]
    /\ UNCHANGED <<db, files, losses>>

\* open(tmp, "w") creates the file or truncates it.
Open(p) ==
    /\ At(p, "open") /\ Goto(p, "write")
    /\ temps' = temps \cup {Temp(p)} /\ synced' = synced \ {Temp(p)}
    /\ UNCHANGED <<db, final, onDisk, losses>>

\* write, flush, fsync of the temp file.
Write(p) ==
    /\ At(p, "write") /\ Goto(p, "rename")
    /\ synced' = synced \cup {Temp(p)}
    /\ UNCHANGED <<db, temps, final, onDisk, losses>>

\* Mutant: the rename is not followed by _fsync_dir.
PublishUnsynced(p) ==
    /\ At(p, "rename") /\ Temp(p) \in temps
    /\ final' = [final EXCEPT ![w[p].ord] = Content(Temp(p))]
    /\ temps' = temps \ {Temp(p)} /\ synced' = synced \ {Temp(p)}
    /\ Goto(p, "record")
    /\ UNCHANGED <<db, onDisk, losses>>

\* os.replace(tmp, final).
Publish(p) ==
    /\ At(p, "rename") /\ Temp(p) \in temps
    /\ final' = [final EXCEPT ![w[p].ord] = Content(Temp(p))]
    /\ temps' = temps \ {Temp(p)} /\ synced' = synced \ {Temp(p)}
    /\ Goto(p, "sync")
    /\ UNCHANGED <<db, onDisk, losses>>

\* _fsync_dir(committed_dir) makes every entry of the directory durable.
FsyncDir(p) ==
    /\ At(p, "sync") /\ Goto(p, "record")
    /\ onDisk' = final
    /\ UNCHANGED <<db, temps, synced, final, losses>>

\* _record_overlay: INSERT ... ON CONFLICT DO NOTHING; commit.
Record(p) ==
    /\ At(p, "record")
    /\ rows' = IF \E r \in rows : r.ord = w[p].ord THEN rows
               ELSE rows \cup {[ord |-> w[p].ord, epoch |-> w[p].epoch, how |-> w[p].how]}
    /\ w' = [w EXCEPT ![p].pc = "call", ![p].ord = w[p].ord + 1]
    /\ UNCHANGED <<ownerEpoch, turn, files, losses>>

\* The worker marks the turn committed and exits.
Finish(p) ==
    /\ At(p, "call") /\ w[p].ord = N
    /\ turn' = "committed" /\ w' = [w EXCEPT ![p] = Idle]
    /\ UNCHANGED <<ownerEpoch, rows, files, losses>>

\* os._exit (hard_after_write, hard_after_publish) or any other death: what the
\* process wrote is still in the file system, an orphan temp file included.
Die(p) ==
    /\ ~At(p, "idle") /\ w' = [w EXCEPT ![p] = Idle]
    /\ UNCHANGED <<db, files, losses>>

\* The machine loses power: every process dies, and of the directory entries
\* not synced some survive. PostgreSQL's rows are durable at commit.
\* No surviving temp file is read again: its epoch is never reused.
PowerLoss ==
    /\ losses < MaxLosses /\ losses' = losses + 1
    /\ \E kept \in SUBSET Ords :
           final' = [o \in Ords |-> IF o \in kept THEN final[o] ELSE onDisk[o]]
    /\ onDisk' = final' /\ temps' = {} /\ synced' = {}
    /\ w' = [p \in Procs |-> Idle]
    /\ UNCHANGED db

Next ==
    \/ \E p \in Procs :
        \/ Acquire(p) \/ Seen(p) \/ Unseen(p) \/ Open(p) \/ Write(p) \/ Publish(p)
        \/ FsyncDir(p) \/ Record(p) \/ Finish(p) \/ Die(p)
    \/ PowerLoss

Spec == Init /\ [][Next]_vars
-----------------------------------------------------------------------------
RowOf == [ord : Ords, epoch : Nat, how : {"committed", "dedup"}]

TypeOK ==
    /\ ownerEpoch \in Nat /\ turn \in {"open", "committed"} /\ rows \subseteq RowOf
    /\ temps \subseteq Ords \X Nat /\ synced \subseteq temps
    /\ final \in [Ords -> Contents] /\ onDisk \in [Ords -> Contents]
    /\ losses \in Nat
    /\ w \in [Procs -> Local]

\* No half-written file ever stands under an action's name, whoever races,
\* dies or loses power.
PublishedWhole == \A o \in Ords : final[o] # "partial"

\* A row written by the coordinator that published the file is no ghost: the
\* file outlives any power loss.
PublisherDurable == \A r \in rows : r.how = "committed" => onDisk[r.ord] = "whole"

\* As long as the machine stays up no row at all is a ghost, the rows written
\* on the dedup path included.
NoGhostWhilePowered == losses = 0 => \A r \in rows : final[r.ord] = "whole"

\* A committed turn has recorded every action of its plan, whichever of its
\* coordinators died between publishing and recording.
CommittedTurnComplete ==
    turn = "committed" => \A o \in Ords : \E r \in rows : r.ord = o

\* dtx.py: "a committed row always has its file (no ghost)", at all times.
NoGhost == \A r \in rows : final[r.ord] = "whole"
=============================================================================
