----------------------------- MODULE Manifests -----------------------------
(***************************************************************************)
(* Run manifests: the record of a run is copied under the store's lock and *)
(* written without it (persist_manifest, src/src/app/runtime.rs), through  *)
(* a temporary file of a fixed name (atomic_write, src/src/util.rs).  A    *)
(* restarted daemon knows the runs whose manifests it can restore          *)
(* (src/src/persistence/daemon_state.rs).                                  *)
(*                                                                         *)
(* A record is a version, raised by every change, and whether the run was  *)
(* stopped.  Files have inodes: a second writer truncates the temporary    *)
(* file the first one is about to rename.  daemon_state.json, which        *)
(* persist_manifest writes last, is read by nobody and left out.           *)
(***************************************************************************)
EXTENDS Naturals, FiniteSets

CONSTANTS
    ManifestRuns,
    Persisters,    \* commands and tasks that change a record and persist it
    Inodes,        \* numbers, enough for two names a run and a file each writer holds
    NoInode,
    MaxChanges, MaxBoots

ASSUME ManifestAssumption ==
    /\ Inodes \subseteq Nat /\ NoInode \notin Inodes /\ MaxChanges \in Nat /\ MaxBoots \in Nat

VARIABLES
    rrec,      \* run -> its record
    main,      \* run -> inode of manifest.json
    tmp,       \* run -> inode of manifest.tmp
    content,   \* inode -> what the file holds
    pers,      \* persister -> where it is
    changes, boots,
    ended,     \* ghost: run -> a down of it was persisted, and a restart came after it
    overlap    \* ghost: run -> the last write met another one

manifestVars == <<rrec, main, tmp, content, pers, changes, boots, ended, overlap>>

NoRun == [present |-> FALSE, version |-> 0, stopped |-> FALSE]
Torn == [NoRun EXCEPT !.version = MaxChanges + 1]   \* does not parse
IdlePersister == [at |-> "idle", run |-> NoInode, snap |-> NoRun, ino |-> NoInode,
                  purge |-> FALSE, alone |-> FALSE]

RunRecord == [present : BOOLEAN, version : Nat, stopped : BOOLEAN]
Persister == [at : {"idle", "persist", "create", "write", "rename", "purge", "forget"},
              run : ManifestRuns \cup {NoInode}, snap : RunRecord, ino : Inodes \cup {NoInode},
              purge : BOOLEAN, alone : BOOLEAN]

ManifestTypeOK ==
    /\ rrec \in [ManifestRuns -> RunRecord]
    /\ main \in [ManifestRuns -> Inodes \cup {NoInode}]
    /\ tmp \in [ManifestRuns -> Inodes \cup {NoInode}]
    /\ content \in [Inodes -> RunRecord]
    /\ pers \in [Persisters -> Persister]
    /\ changes \in Nat
    /\ ended \in [ManifestRuns -> {"no", "down", "restarted"}]
    /\ overlap \in [ManifestRuns -> BOOLEAN]

ManifestInit ==
    /\ rrec = [r \in ManifestRuns |-> NoRun]
    /\ main = [r \in ManifestRuns |-> NoInode]
    /\ tmp = [r \in ManifestRuns |-> NoInode]
    /\ content = [i \in Inodes |-> Torn]
    /\ pers = [w \in Persisters |-> IdlePersister]
    /\ changes = 0 /\ boots = 0
    /\ ended = [r \in ManifestRuns |-> "no"]
    /\ overlap = [r \in ManifestRuns |-> FALSE]

Change(w, r, rec, purge) ==
    /\ pers[w].at = "idle" /\ changes < MaxChanges
    /\ changes' = changes + 1
    /\ rrec' = [rrec EXCEPT ![r] = rec]
    /\ pers' = [pers EXCEPT ![w] = [IdlePersister EXCEPT !.at = "persist", !.run = r,
                                                         !.purge = purge]]
    /\ UNCHANGED <<main, tmp, content, boots, ended, overlap>>

\* create_run_record; a run's id is new.
CreateRun(w, r) ==
    /\ ~rrec[r].present /\ ended[r] = "no" /\ main[r] = NoInode
    /\ \A v \in Persisters : pers[v].run # r
    /\ Change(w, r, [present |-> TRUE, version |-> changes + 1, stopped |-> FALSE], FALSE)

\* A restart, monitor, readiness task or query changes the record and persists it.
TouchRun(w, r) ==
    /\ rrec[r].present
    /\ Change(w, r, [rrec[r] EXCEPT !.version = changes + 1], FALSE)

\* down and kill
StopRun(w, r) ==
    /\ rrec[r].present
    /\ \E purge \in BOOLEAN :
         Change(w, r, [rrec[r] EXCEPT !.version = changes + 1, !.stopped = TRUE], purge)

-----------------------------------------------------------------------------
Writing(w, r) == pers[w].run = r /\ pers[w].at \in {"create", "write", "rename"}
Others(w) == {v \in Persisters \ {w} : Writing(v, pers[w].run)}

\* persist_manifest, under the lock; a run that is gone is an error.
Snapshot(w) ==
    LET r == pers[w].run IN
    /\ pers[w].at = "persist"
    /\ \/ /\ ~rrec[r].present
          /\ pers' = [pers EXCEPT ![w] = IdlePersister]
          /\ UNCHANGED overlap
       \/ /\ rrec[r].present
          /\ pers' = [v \in Persisters |->
                         IF v = w THEN [pers[w] EXCEPT !.at = "create", !.snap = rrec[r],
                                                       !.alone = Others(w) = {}]
                         ELSE [pers[v] EXCEPT !.alone = @ /\ v \notin Others(w)]]
          /\ overlap' = [overlap EXCEPT ![r] = @ \/ Others(w) # {}]
    /\ UNCHANGED <<rrec, main, tmp, content, changes, boots, ended>>

InUse(i) == \/ \E r \in ManifestRuns : i \in {main[r], tmp[r]}
            \/ \E w \in Persisters : pers[w].ino = i

\* which free inode a new file gets makes no difference: the lowest
FreeInode(i) == ~InUse(i) /\ \A k \in Inodes : ~InUse(k) => i <= k

\* Faulty variant: the manifest itself is opened and truncated.
CreateInPlace(w) ==
    LET r == pers[w].run IN
    /\ pers[w].at = "create"
    /\ \E i \in Inodes :
         /\ IF main[r] # NoInode THEN i = main[r] ELSE FreeInode(i)
         /\ main' = [main EXCEPT ![r] = i]
         /\ tmp' = [tmp EXCEPT ![r] = i]
         /\ content' = [content EXCEPT ![i] = Torn]
         /\ pers' = [pers EXCEPT ![w].at = "write", ![w].ino = i]
    /\ UNCHANGED <<rrec, changes, boots, ended, overlap>>

\* File::create of the temporary name: the file that has it is truncated.
CreateTmp(w) ==
    LET r == pers[w].run IN
    /\ pers[w].at = "create"
    /\ \E i \in Inodes :
         /\ IF tmp[r] # NoInode THEN i = tmp[r] ELSE FreeInode(i)
         /\ tmp' = [tmp EXCEPT ![r] = i]
         /\ content' = [content EXCEPT ![i] = Torn]
         /\ pers' = [pers EXCEPT ![w].at = "write", ![w].ino = i]
    /\ UNCHANGED <<rrec, main, changes, boots, ended, overlap>>

\* write_all from the start of the file; over another writer's text the rest of it may stay.
WriteTmp(w) ==
    LET i == pers[w].ino IN
    /\ pers[w].at = "write"
    /\ \E c \in IF content[i] = Torn THEN {pers[w].snap} ELSE {pers[w].snap, Torn} :
         content' = [content EXCEPT ![i] = c]
    /\ pers' = [pers EXCEPT ![w].at = "rename"]
    /\ UNCHANGED <<rrec, main, tmp, changes, boots, ended, overlap>>

(***************************************************************************)
(* The rename takes whatever file has the temporary name; if there is none *)
(* persist_manifest fails, and the command with it.                        *)
(***************************************************************************)
RenameTmp(w) ==
    LET r == pers[w].run IN
    /\ pers[w].at = "rename"
    /\ \/ /\ tmp[r] = NoInode
          /\ pers' = [pers EXCEPT ![w] = IdlePersister]
          /\ UNCHANGED <<main, tmp, ended, overlap>>
       \/ /\ tmp[r] # NoInode
          /\ main' = [main EXCEPT ![r] = tmp[r]]
          /\ tmp' = [tmp EXCEPT ![r] = NoInode]
          /\ ended' = [ended EXCEPT ![r] = IF pers[w].snap.stopped THEN "down" ELSE @]
          /\ overlap' = [overlap EXCEPT ![r] = ~pers[w].alone]
          /\ pers' = [pers EXCEPT ![w] = IF pers[w].purge
                                           THEN [IdlePersister EXCEPT !.at = "purge", !.run = r]
                                           ELSE IdlePersister]
    /\ UNCHANGED <<rrec, content, changes, boots>>

atomic_write(w) == CreateTmp(w) \/ WriteTmp(w) \/ RenameTmp(w)

-----------------------------------------------------------------------------
RemoveDir(r) ==
    /\ main' = [main EXCEPT ![r] = NoInode]
    /\ tmp' = [tmp EXCEPT ![r] = NoInode]
    /\ UNCHANGED content

\* A write that is under way when the directory goes counts as overlapped.
WriteMet(r) == [overlap EXCEPT ![r] = @ \/ \E w \in Persisters : Writing(w, r)]

\* A purge removes the run's directory, then its record.
PurgeDir(w) ==
    /\ pers[w].at = "purge"
    /\ RemoveDir(pers[w].run)
    /\ overlap' = WriteMet(pers[w].run)
    /\ pers' = [v \in Persisters |->
                   IF v = w THEN [pers[w] EXCEPT !.at = "forget"]
                   ELSE [pers[v] EXCEPT !.alone = @ /\ ~Writing(v, pers[w].run)]]
    /\ UNCHANGED <<rrec, changes, boots, ended>>

PurgeRecord(w) ==
    /\ pers[w].at = "forget"
    /\ rrec' = [rrec EXCEPT ![pers[w].run] = NoRun]
    /\ pers' = [pers EXCEPT ![w] = IdlePersister]
    /\ UNCHANGED <<main, tmp, content, changes, boots, ended, overlap>>

\* run_gc does both under the store's lock.
GcRun(r) ==
    /\ rrec[r].present /\ rrec[r].stopped
    /\ RemoveDir(r)
    /\ rrec' = [rrec EXCEPT ![r] = NoRun]
    /\ overlap' = WriteMet(r)
    /\ pers' = [v \in Persisters |-> [pers[v] EXCEPT !.alone = @ /\ ~Writing(v, r)]]
    /\ UNCHANGED <<changes, boots, ended>>

-----------------------------------------------------------------------------
\* Faulty variant: the stopped runs are restored as well.
RestorableStopped(r) == main[r] # NoInode /\ content[main[r]] # Torn

run_manifest_is_restorable(r) ==
    main[r] # NoInode /\ content[main[r]] # Torn /\ ~content[main[r]].stopped

(***************************************************************************)
(* The daemon dies and its successor reads the manifests.  A run whose     *)
(* project or configuration is gone is left out.  Writes that were under   *)
(* way are not finished; a temporary file stays.                           *)
(***************************************************************************)
load_state_from_disk ==
    /\ boots < MaxBoots /\ boots' = boots + 1
    /\ \E gone \in SUBSET ManifestRuns :
         rrec' = [r \in ManifestRuns |->
                     IF run_manifest_is_restorable(r) /\ r \notin gone
                       THEN content[main[r]] ELSE NoRun]
    /\ pers' = [w \in Persisters |-> IdlePersister]
    /\ ended' = [r \in ManifestRuns |->
                    IF overlap[r] THEN "no"
                    ELSE IF ended[r] = "down" THEN "restarted" ELSE ended[r]]
    /\ UNCHANGED <<main, tmp, content, changes, overlap>>

ManifestNext ==
    \/ \E w \in Persisters :
         \/ \E r \in ManifestRuns : CreateRun(w, r) \/ TouchRun(w, r) \/ StopRun(w, r)
         \/ Snapshot(w) \/ atomic_write(w) \/ PurgeDir(w) \/ PurgeRecord(w)
    \/ \E r \in ManifestRuns : GcRun(r)
    \/ load_state_from_disk

ManifestSpec == ManifestInit /\ [][ManifestNext]_manifestVars

-----------------------------------------------------------------------------
(***************************************************************************)
(* A crash at any point of a write leaves a manifest that parses; only two *)
(* writes of one run that meet in the temporary file can spoil it, and the *)
(* next one that meets no other repairs it.                                *)
(***************************************************************************)
TornOnlyByOverlap ==
    \A r \in ManifestRuns :
        main[r] # NoInode /\ content[main[r]] = Torn => overlap[r]

(***************************************************************************)
(* A run whose down was persisted is not brought back by a restart of the  *)
(* daemon, unless a write that was already under way replaced it.          *)
(***************************************************************************)
DownSurvivesRestart ==
    \A r \in ManifestRuns :
        ended[r] = "restarted" => ~rrec[r].present
=============================================================================
