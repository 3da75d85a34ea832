---------------------------- MODULE SectorsManager ----------------------------
(***************************************************************************)
(* SectorsManagerState (solution/src/sectors_manager.rs), one file         *)
(* operation at a time, for all the sectors of a storage directory: every  *)
(* .await of write() and of sectors_crash_recovery() is a point at which   *)
(* the writes of other sectors go on and at which the process may crash.   *)
(* A crash ends the process; what the file system was told stays. A power  *)
(* failure takes the directory back to the last flush: the file system is  *)
(* taken to put changes of the directory on disk in their order and when   *)
(* it likes, and the content of a file when sync_data asks for it.         *)
(***************************************************************************)
EXTENDS SectorFiles, FiniteSets

CONSTANTS
    Sector,      \* sector indices
    Copy,        \* copies that callers write: records with ts, wr and val
    Zero,        \* the 4096 zero bytes of a sector never written
    Partial,     \* content of a file that is created and not yet filled
    None,        \* no copy
    Rising,      \* the sectors whose callers write rising versions only; the others, any
    MaxCrashes,  \* bound: crashes and power failures
    MaxLag       \* bound: changes of the directory that are not on disk

ASSUME CopyAssumption ==
    /\ None \notin Copy
    /\ \A c \in Copy : c \in [ts : Nat \ {0}, wr : Nat \ {0}, val : {c.val}] /\ c.val \notin {Zero, Partial}
ASSUME BoundsAssumption == Rising \subseteq Sector /\ MaxCrashes \in Nat /\ MaxLag \in Nat

VARIABLES
    dir,          \* the files of the storage directory
    kept,         \* what the disk holds of them
    lag,          \* number of changes of the directory that are not on disk
    data_access,  \* data_access[i]: version cached for sector i, NoVersion if none
    phase,        \* "running", "down", or "recovering": inside sectors_crash_recovery
    unread,       \* recovery: entries that read_dir has still to yield
    step,         \* step[i]: where the write of sector i is
    copy,         \* copy[i]: the copy being written to sector i, or None
    old,          \* old[i]: (old_ts, old_wr) of that write
    known,        \* known[i]: what the register of i loaded or wrote last, or None
    settled,      \* history: settled[i] are the files of i when it was last at rest
    crashes       \* number of crashes and power failures so far

disk == <<kept, lag>>
vars == <<dir, kept, lag, data_access, phase, unread, step, copy, old, known, settled, crashes>>

InitialCopy == [ts |-> 0, wr |-> 0, val |-> Zero]
Steps == {"idle", "created", "filled", "synced", "renamed", "mapped", "panicked"}
Partly == {[c EXCEPT !.val = Partial] : c \in Copy}

\* sectoridx_file_path and sectoridx_tmp_file_path: the file of sector i for version v.
SectorFile(i, v, val) ==
    [tmp |-> FALSE, idx |-> i, ts |-> v.ts, wr |-> v.wr, val |-> val, synced |-> FALSE]

\* Mutated TmpFile: the data is written in place.
FileInPlace(i, v, val) == SectorFile(i, v, val)

TmpFile(i, v, val) == [SectorFile(i, v, val) EXCEPT !.tmp = TRUE]

SameName(e, f) == e.tmp = f.tmp /\ e.idx = f.idx /\ SameVersion(e, f)

\* Creating, filling or renaming to a file replaces the one with its name.
Put(d, f) == {e \in d : ~SameName(e, f)} \union {f}
Remove(d, f) == {e \in d : ~SameName(e, f)}
Exists(d, f) == \E e \in d : SameName(e, f)

\* The copy in a file, and the sector files of i in d, as SectorFiles has them.
CopyIn(f) == [ts |-> f.ts, wr |-> f.wr, val |-> f.val]
FilesIn(d, i) == {CopyIn(f) : f \in {e \in d : ~e.tmp /\ e.idx = i}}
FilesOf(i) == FilesIn(dir, i)

\* A change of the directory that the disk does not have yet.
Names == {[f EXCEPT !.val = Partial, !.synced = FALSE] : f \in dir}
NotOnDisk ==
    /\ lag' = IF Names' = Names THEN lag ELSE lag + 1
    /\ lag' <= MaxLag
    /\ UNCHANGED kept

-----------------------------------------------------------------------------
Init ==
    /\ dir = {} /\ kept = {} /\ lag = 0
    /\ data_access = [i \in Sector |-> NoVersion]
    /\ phase = "running"
    /\ unread = {}
    /\ step = [i \in Sector |-> "idle"]
    /\ copy = [i \in Sector |-> None]
    /\ old = [i \in Sector |-> NoVersion]
    /\ known = [i \in Sector |-> None]
    /\ settled = [i \in Sector |-> {}]
    /\ crashes = 0

(***************************************************************************)
(* read_metadata, then read_data, when the register of i is built. read_data *)
(* opens the file that data_access names.                                  *)
(***************************************************************************)
Load(i) ==
    /\ phase = "running"
    /\ known[i] = None
    /\ \/ /\ data_access[i] = NoVersion
          /\ known' = [known EXCEPT ![i] = InitialCopy]
       \/ /\ data_access[i] # NoVersion
          /\ \E f \in FilesOf(i) :
                SameVersion(f, data_access[i]) /\ known' = [known EXCEPT ![i] = f]
    /\ UNCHANGED <<dir, data_access, phase, unread, step, copy, old, settled, disk, crashes>>

(***************************************************************************)
(* write(idx, (data, ts, wr)). The register of a sector makes one call at  *)
(* a time.                                                                 *)
(***************************************************************************)
At(i, s) == phase = "running" /\ step[i] = s

Write(i, c) ==
    /\ At(i, "idle")
    /\ known[i] # None
    /\ i \in Rising => Newer(c, known[i])
    /\ dir' = Put(dir, TmpFile(i, c, Partial))
    /\ step' = [step EXCEPT ![i] = "created"]
    /\ copy' = [copy EXCEPT ![i] = c]
    /\ NotOnDisk
    /\ UNCHANGED <<data_access, phase, unread, old, known, settled, crashes>>

FillTmp(i) ==
    /\ At(i, "created")
    /\ dir' = Put(dir, TmpFile(i, copy[i], copy[i].val))
    /\ step' = [step EXCEPT ![i] = "filled"]
    /\ UNCHANGED <<data_access, phase, unread, copy, old, known, settled, disk, crashes>>

\* Mutated SyncTmp: sync_data is not called.
SyncTmpLeftOut(i) ==
    /\ At(i, "filled")
    /\ step' = [step EXCEPT ![i] = "synced"]
    /\ UNCHANGED <<dir, data_access, phase, unread, copy, old, known, settled, disk, crashes>>

SyncTmp(i) ==
    /\ At(i, "filled")
    /\ dir' = Put(dir, [TmpFile(i, copy[i], copy[i].val) EXCEPT !.synced = TRUE])
    /\ step' = [step EXCEPT ![i] = "synced"]
    /\ UNCHANGED <<data_access, phase, unread, copy, old, known, settled, disk, crashes>>

\* The sync_data that follows the rename finds nothing to write: the content is on disk.
RenameTmp(i) ==
    /\ At(i, "synced")
    /\ \E f \in dir :
          /\ SameName(f, TmpFile(i, copy[i], Partial))
          /\ dir' = Put(dir \ {f}, [f EXCEPT !.tmp = FALSE])
    /\ step' = [step EXCEPT ![i] = "renamed"]
    /\ NotOnDisk
    /\ UNCHANGED <<data_access, phase, unread, copy, old, known, settled, crashes>>

\* Mutated UpdateMap: the old version is looked up after the new one is put in.
UpdateMapFirst(i) ==
    /\ At(i, "renamed")
    /\ old' = [old EXCEPT ![i] = VersionOf(copy[i])]
    /\ data_access' = [data_access EXCEPT ![i] = VersionOf(copy[i])]
    /\ step' = [step EXCEPT ![i] = "mapped"]
    /\ UNCHANGED <<dir, phase, unread, copy, known, settled, disk, crashes>>

UpdateMap(i) ==
    /\ At(i, "renamed")
    /\ old' = [old EXCEPT ![i] = data_access[i]]
    /\ data_access' = [data_access EXCEPT ![i] = VersionOf(copy[i])]
    /\ step' = [step EXCEPT ![i] = "mapped"]
    /\ UNCHANGED <<dir, phase, unread, copy, known, settled, disk, crashes>>

OldFile(i) == SectorFile(i, old[i], Partial)

\* Remove the old file, if there was one, and return.
RemoveOld(i) ==
    /\ At(i, "mapped")
    /\ old[i] = NoVersion \/ Exists(dir, OldFile(i))
    /\ dir' = Remove(dir, OldFile(i))
    /\ step' = [step EXCEPT ![i] = "idle"]
    /\ copy' = [copy EXCEPT ![i] = None]
    /\ old' = [old EXCEPT ![i] = NoVersion]
    /\ known' = [known EXCEPT ![i] = copy[i]]
    /\ settled' = [settled EXCEPT ![i] = FilesOf(i)']
    /\ NotOnDisk
    /\ UNCHANGED <<data_access, phase, unread, crashes>>

\* "Failed to remove old sector file": the worker of the sector panics.
RemoveOldFails(i) ==
    /\ At(i, "mapped")
    /\ old[i] # NoVersion /\ ~Exists(dir, OldFile(i))
    /\ step' = [step EXCEPT ![i] = "panicked"]
    /\ UNCHANGED <<dir, data_access, phase, unread, copy, old, known, settled, disk, crashes>>

-----------------------------------------------------------------------------
(***************************************************************************)
(* Crash, and sectors_crash_recovery                                       *)
(***************************************************************************)
GoDown ==
    /\ crashes < MaxCrashes
    /\ crashes' = crashes + 1
    /\ phase' = "down"
    /\ data_access' = [i \in Sector |-> NoVersion]
    /\ unread' = {}
    /\ step' = [i \in Sector |-> "idle"]
    /\ old' = [i \in Sector |-> NoVersion]
    /\ known' = [i \in Sector |-> None]

Crash ==
    /\ phase # "down"
    /\ GoDown
    /\ UNCHANGED <<dir, disk, copy, settled>>

\* The changes of the directory so far get to the disk; of a file, what was synced.
Flush ==
    /\ kept' = {[f EXCEPT !.val = IF f.synced THEN @ ELSE Partial] : f \in dir}
    /\ lag' = 0
    /\ UNCHANGED <<dir, data_access, phase, unread, step, copy, old, known, settled, crashes>>

PowerFailure ==
    /\ GoDown
    /\ dir' = kept
    /\ copy' = [i \in Sector |-> None]
    /\ settled' = [i \in Sector |-> FilesIn(kept, i)]
    /\ lag' = 0
    /\ UNCHANGED kept

Restart ==
    /\ phase = "down"
    /\ phase' = "recovering"
    /\ unread' = dir
    /\ UNCHANGED <<dir, data_access, step, copy, old, known, settled, disk, crashes>>

\* Mutated RecoverEntry: temporary files stay.
RecoverEntryKeepsTmp(e) ==
    LET v == data_access[e.idx] IN
    /\ phase = "recovering"
    /\ unread' = unread \ {e}
    /\ dir' = IF e.tmp \/ v = NoVersion THEN dir
              ELSE Remove(dir, IF Newer(e, v) THEN SectorFile(e.idx, v, Partial) ELSE e)
    /\ data_access' = IF e.tmp \/ ~Newer(e, v) THEN data_access
                      ELSE [data_access EXCEPT ![e.idx] = VersionOf(e)]
    /\ NotOnDisk
    /\ UNCHANGED <<phase, step, copy, old, known, settled, crashes>>

\* next_entry() yields the entries in no particular order.
RecoverEntry(e) ==
    LET v == data_access[e.idx] IN
    /\ phase = "recovering"
    /\ unread' = unread \ {e}
    /\ \/ /\ e.tmp
          /\ dir' = Remove(dir, e)
          /\ UNCHANGED data_access
       \/ /\ ~e.tmp /\ v = NoVersion
          /\ data_access' = [data_access EXCEPT ![e.idx] = VersionOf(e)]
          /\ UNCHANGED dir
       \/ /\ ~e.tmp /\ v # NoVersion /\ Newer(e, v)
          /\ dir' = Remove(dir, SectorFile(e.idx, v, Partial))
          /\ data_access' = [data_access EXCEPT ![e.idx] = VersionOf(e)]
       \/ /\ ~e.tmp /\ v # NoVersion /\ ~Newer(e, v)
          /\ dir' = Remove(dir, e)
          /\ UNCHANGED data_access
    /\ NotOnDisk
    /\ UNCHANGED <<phase, step, copy, old, known, settled, crashes>>

RecoveryEnds ==
    /\ phase = "recovering"
    /\ unread = {}
    /\ phase' = "running"
    /\ copy' = [i \in Sector |-> None]
    /\ settled' = [i \in Sector |-> FilesOf(i)]
    /\ UNCHANGED <<dir, data_access, unread, step, old, known, disk, crashes>>

-----------------------------------------------------------------------------
Next ==
    \/ \E i \in Sector :
          \/ Load(i)
          \/ \E c \in Copy : Write(i, c)
          \/ FillTmp(i)
          \/ SyncTmp(i)
          \/ RenameTmp(i)
          \/ UpdateMap(i)
          \/ RemoveOld(i)
          \/ RemoveOldFails(i)
    \/ Crash
    \/ Flush
    \/ PowerFailure
    \/ Restart
    \/ \E e \in unread : RecoverEntry(e)
    \/ RecoveryEnds

Spec == Init /\ [][Next]_vars

-----------------------------------------------------------------------------
(***************************************************************************)
(* Properties                                                              *)
(***************************************************************************)
\* Every variable stays in its type.
TypeOK ==
    LET Version == {VersionOf(c) : c \in Copy} \union {NoVersion} IN
    /\ \A f \in dir \union kept \union unread :
          f.tmp \in BOOLEAN /\ f.idx \in Sector /\ f.synced \in BOOLEAN /\ CopyIn(f) \in Copy \union Partly
    /\ data_access \in [Sector -> Version]
    /\ phase \in {"running", "down", "recovering"}
    /\ step \in [Sector -> Steps]
    /\ copy \in [Sector -> Copy \union {None}]
    /\ old \in [Sector -> Version]
    /\ known \in [Sector -> Copy \union {InitialCopy, None}]
    /\ settled \in [Sector -> SUBSET (Copy \union Partly)]
    /\ crashes \in 0 .. MaxCrashes /\ lag \in 0 .. MaxLag

\* The copy that a restart on directory d would find in sector i.
Content(d, i) ==
    LET N == Newest(FilesIn(d, i)) IN IF N = {} THEN InitialCopy ELSE CHOOSE f \in N : TRUE

Store == INSTANCE SectorStore WITH
    Sector <- Rising,
    Copy <- Copy \union {InitialCopy},
    content <- [i \in Rising |-> Content(dir, i)],
    kept <- [i \in Rising |-> Content(kept, i)],
    pending <- [i \in Rising |-> IF phase = "running" THEN copy[i] ELSE None],
    known <- [i \in Rising |-> known[i]],
    up <- phase = "running"

\* For the sectors whose callers write rising versions, the directory is an atomic
\* store: a write takes effect when its temporary file is renamed, and neither a crash
\* at any await of write() or of the recovery, nor the order in which read_dir yields
\* the files, nor what other callers write to their sectors, can show a torn, older or
\* lost copy. A power failure shows every sector as it was at the last flush, and
\* not torn: write() does not sync the directory, so a write that returned may go.
ImplementsStore == Store!Spec

\* Whatever the versions its caller asks for, a write that returns has changed the
\* files of its sector as AfterWrite says for the version that was there when it was
\* called, the one-step write of AtomicRegister; it panics exactly when there is no
\* file of that version; and after a crash the recovery leaves what it would have
\* left had the write in progress been cut before its rename, or between its rename
\* and its removal.
WriteIsOneStep ==
    [][\A i \in Sector :
        /\ (step[i] = "mapped" /\ step'[i] = "idle" /\ phase' = "running") =>
              /\ OldFileExists(settled[i], VersionOf(known[i]), copy[i])
              /\ FilesOf(i)' = AfterWrite(settled[i], VersionOf(known[i]), copy[i])
        /\ (step[i] = "mapped" /\ step'[i] = "panicked") =>
              /\ ~OldFileExists(settled[i], VersionOf(known[i]), copy[i])
              /\ FilesOf(i)' = Renamed(settled[i], copy[i])
        /\ (phase = "recovering" /\ phase' = "running") =>
              \/ FilesOf(i)' = Newest(settled[i])
              \/ copy[i] # None /\ FilesOf(i)' = Newest(Renamed(settled[i], copy[i]))
    ]_vars

\* When no write is in progress the directory holds at most one file per sector and
\* no temporary file, crashes or not. (sectors_manager.rs: "at most 10% more filesystem
\* space than the size of sectors, which have been written to".)
QuietDirectory ==
    (phase = "running" /\ \A i \in Sector : step[i] = "idle") =>
        /\ \A f \in dir : ~f.tmp
        /\ \A i \in Sector : Cardinality(FilesOf(i)) <= 1

\* When recovery has ended, the file that read_data opens, the one that data_access
\* names, exists and is completely written.
LoadFindsFile ==
    \A i \in Sector :
        (phase = "running" /\ known[i] = None /\ data_access[i] # NoVersion) =>
            \E f \in FilesOf(i) : SameVersion(f, data_access[i]) /\ f.val # Partial
=============================================================================
