------------------------- MODULE SectorsManagerProofs -------------------------
(***************************************************************************)
(* Proofs about SectorsManager, for any number of sectors, any versions    *)
(* and any number of crashes, power failures and recoveries cut short.     *)
(* IInv is about single files: what read_data opens is there and written   *)
(* completely. FilesInv is about all files of a sector and the write in    *)
(* progress; on both rest the refinement of SectorStore, the one-step      *)
(* write that AtomicRegister takes, and the space a directory needs.       *)
(***************************************************************************)
EXTENDS SectorsManager, FiniteSetTheorems, TLAPS

Bytes == {c.val : c \in Copy} \union {Partial}
Entry == [tmp : BOOLEAN, idx : Sector, ts : Nat \ {0}, wr : Nat \ {0},
          val : Bytes, synced : BOOLEAN]

Complete(f) == f.synced /\ f.val # Partial

\* Names are unique, and a file that has lost its temporary name is on disk.
Sound(d) ==
    /\ d \subseteq Entry
    /\ \A e, f \in d : SameName(e, f) => e = f
    /\ \A f \in d : ~f.tmp => Complete(f)

Shapes ==
    /\ step = [i \in Sector |-> step[i]]
    /\ copy = [i \in Sector |-> copy[i]]
    /\ known = [i \in Sector |-> known[i]]
    /\ data_access \in [Sector -> [ts : Nat, wr : Nat]]
    /\ phase \in {"running", "down", "recovering"}

\* A write in progress: it comes after a load, and a temporary file about to be renamed is on disk.
WriteInv ==
    phase = "running" => \A i \in Sector :
        /\ known[i] = None => step[i] = "idle"
        /\ step[i] \in {"created", "filled", "synced", "renamed", "mapped"} => copy[i] \in Copy
        /\ step[i] = "synced" => \A f \in dir : SameName(f, TmpFile(i, copy[i], Partial)) => Complete(f)

HasFile(i) == \E f \in dir : ~f.tmp /\ f.idx = i /\ SameVersion(f, data_access[i])

\* Until the register of i is built, data_access names a file.
MapInv ==
    \A i \in Sector :
        (phase = "recovering" \/ (phase = "running" /\ known[i] = None)) =>
            data_access[i] = NoVersion \/ HasFile(i)

\* The recovery has still to read entries that exist, and none that data_access names.
UnreadInv ==
    phase = "recovering" =>
        /\ unread \subseteq dir
        /\ \A e \in unread : ~e.tmp => ~SameVersion(e, data_access[e.idx])

\* A process that is not up has no writes, and before its recovery no map.
DownInv ==
    /\ phase # "running" => \A i \in Sector : step[i] = "idle"
    /\ phase = "down" => \A i \in Sector : data_access[i] = NoVersion

IInv == Sound(dir) /\ Sound(kept) /\ Shapes /\ WriteInv /\ MapInv /\ UnreadInv /\ DownInv

-----------------------------------------------------------------------------
\* What the temporary file of a write looks like, and once synced.
LEMMA TmpFields ==
  ASSUME NEW i \in Sector, NEW c \in Copy, NEW v \in Bytes
  PROVE  /\ TmpFile(i, c, v) \in Entry
         /\ TmpFile(i, c, v).tmp = TRUE /\ TmpFile(i, c, v).idx = i
         /\ TmpFile(i, c, v).ts = c.ts /\ TmpFile(i, c, v).wr = c.wr /\ TmpFile(i, c, v).val = v
BY CopyAssumption, Zenon DEF TmpFile, SectorFile, Entry

\* The temporary file before write_all.
LEMMA PartialTmp ==
  ASSUME NEW i \in Sector, NEW c \in Copy
  PROVE  /\ TmpFile(i, c, Partial) \in Entry
         /\ TmpFile(i, c, Partial).tmp = TRUE /\ TmpFile(i, c, Partial).idx = i
<1>1. Partial \in Bytes
  BY Zenon DEF Bytes
<1>2. QED
  BY <1>1, TmpFields, Zenon

\* sync_data changes nothing of a file but that it is on disk.
LEMMA SyncedFields ==
  ASSUME NEW f \in Entry
  PROVE  /\ [f EXCEPT !.synced = TRUE] \in Entry
         /\ [f EXCEPT !.synced = TRUE].synced = TRUE
         /\ [f EXCEPT !.synced = TRUE].val = f.val
         /\ SameName([f EXCEPT !.synced = TRUE], f)
         /\ [f EXCEPT !.synced = TRUE].tmp = f.tmp
BY Zenon DEF Entry, SameName, SameVersion

\* Creating, writing or renaming a file keeps a directory sound, if what loses its
\* temporary name is complete.
LEMMA PutSound ==
  ASSUME NEW d, Sound(d), NEW f \in Entry, ~f.tmp => Complete(f)
  PROVE  Sound(Put(d, f))
BY Zenon DEF Sound, Put, SameName, SameVersion

\* Removing files keeps a directory sound.
LEMMA SubsetSound ==
  ASSUME NEW d, Sound(d), NEW e \in SUBSET d
  PROVE  Sound(e)
BY Zenon DEF Sound

\* The initial state.
LEMMA InitIInv == Init => IInv
BY DEF Init, IInv, Sound, Shapes, WriteInv, MapInv, UnreadInv, DownInv, NoVersion

\* read_metadata and read_data.
LEMMA LoadKeepsIInv ==
  ASSUME IInv, NEW i \in Sector, Load(i)
  PROVE  IInv'
BY Zenon DEF IInv, Load, Shapes, WriteInv, MapInv, UnreadInv, DownInv, HasFile, Sound, disk

\* Creating or filling a temporary file of sector i.
LEMMA PutTmp ==
  ASSUME IInv, NEW i \in Sector, NEW t \in Entry, t.tmp = TRUE, t.idx = i,
         dir' = Put(dir, t), kept' = kept
  PROVE  /\ Sound(dir)' /\ Sound(kept)'
         /\ \A f \in dir : ~f.tmp => f \in dir'
         /\ \A f \in dir' : f.idx # i => f \in dir
<1>1. Sound(dir)' /\ Sound(kept)'
  BY PutSound, Zenon DEF IInv, Sound
<1>2. QED
  BY <1>1, Zenon DEF Put, SameName

\* For the sectors other than i, nothing has changed when i takes a step of its write.
LEMMA OthersKeepWriteInv ==
  ASSUME IInv, phase = "running", NEW i \in Sector, NEW j \in Sector, j # i,
         \A f \in dir' : f.idx # i => f \in dir,
         step'[j] = step[j], copy'[j] = copy[j], known'[j] = known[j]
  PROVE  /\ known'[j] = None => step'[j] = "idle"
         /\ step'[j] \in {"created", "filled", "synced", "renamed", "mapped"} => copy'[j] \in Copy
         /\ step'[j] = "synced" => \A f \in dir' : SameName(f, TmpFile(j, copy'[j], Partial)) => Complete(f)
<1>1. ASSUME step'[j] = "synced", NEW f \in dir', SameName(f, TmpFile(j, copy'[j], Partial))
      PROVE  Complete(f)
  <2>1. step[j] = "synced" /\ copy[j] \in Copy
    BY <1>1, Zenon DEF IInv, WriteInv
  <2>2. f.idx = j
    BY <1>1, <2>1, PartialTmp, Zenon DEF SameName
  <2>3. QED
    BY <1>1, <2>1, <2>2, Zenon DEF IInv, WriteInv
<1>2. QED
  BY <1>1, Zenon DEF IInv, WriteInv

\* File::create of the temporary file.
LEMMA WriteKeepsIInv ==
  ASSUME IInv, NEW i \in Sector, NEW c \in Copy, Write(i, c)
  PROVE  IInv'
<1>1. /\ Sound(dir)' /\ Sound(kept)'
      /\ \A f \in dir : ~f.tmp => f \in dir'
      /\ \A f \in dir' : f.idx # i => f \in dir
  BY PutTmp, PartialTmp, Zenon DEF Write, NotOnDisk
<1>2. Shapes' /\ UnreadInv' /\ DownInv'
  BY Zenon DEF IInv, Shapes, UnreadInv, DownInv, Write, At
<1>3. WriteInv'
  <2>1. step'[i] = "created" /\ copy'[i] = c /\ known' = known /\ known[i] # None /\ phase = "running"
    BY Zenon DEF IInv, Shapes, Write, At
  <2>2. \A j \in Sector : j # i => step'[j] = step[j] /\ copy'[j] = copy[j]
    BY Zenon DEF IInv, Shapes, Write
  <2>3. QED
    BY <1>1, <2>1, <2>2, OthersKeepWriteInv, Zenon DEF WriteInv
<1>4. MapInv'
  BY <1>1, Zenon DEF IInv, MapInv, HasFile, Write, At
<1>5. QED
  BY <1>1, <1>2, <1>3, <1>4, Zenon DEF IInv

\* write_all.
LEMMA FillTmpKeepsIInv ==
  ASSUME IInv, NEW i \in Sector, FillTmp(i)
  PROVE  IInv'
<1>1. phase = "running" /\ copy[i] \in Copy /\ known[i] # None
  BY Zenon DEF IInv, WriteInv, FillTmp, At
<1>2. copy[i].val \in Bytes
  BY <1>1, Zenon DEF Bytes
<1>3. /\ Sound(dir)' /\ Sound(kept)'
      /\ \A f \in dir : ~f.tmp => f \in dir'
      /\ \A f \in dir' : f.idx # i => f \in dir
  <2>1. dir' = Put(dir, TmpFile(i, copy[i], copy[i].val)) /\ kept' = kept
    BY Zenon DEF FillTmp, disk
  <2>2. /\ TmpFile(i, copy[i], copy[i].val) \in Entry
        /\ TmpFile(i, copy[i], copy[i].val).tmp = TRUE /\ TmpFile(i, copy[i], copy[i].val).idx = i
    BY <1>1, <1>2, TmpFields, Zenon
  <2>3. QED
    BY <2>1, <2>2, PutTmp, Zenon
<1>4. Shapes' /\ UnreadInv' /\ DownInv'
  BY Zenon DEF IInv, Shapes, UnreadInv, DownInv, FillTmp, At
<1>5. WriteInv'
  <2>1. step'[i] = "filled" /\ copy' = copy /\ known' = known
    BY Zenon DEF IInv, Shapes, FillTmp
  <2>2. \A j \in Sector : j # i => step'[j] = step[j]
    BY Zenon DEF IInv, Shapes, FillTmp
  <2>3. QED
    BY <1>1, <1>3, <2>1, <2>2, OthersKeepWriteInv, Zenon DEF WriteInv
<1>6. MapInv'
  BY <1>3, Zenon DEF IInv, MapInv, HasFile, FillTmp, At
<1>7. QED
  BY <1>3, <1>4, <1>5, <1>6, Zenon DEF IInv

\* sync_data.
LEMMA SyncTmpKeepsIInv ==
  ASSUME IInv, NEW i \in Sector, SyncTmp(i)
  PROVE  IInv'
<1> DEFINE t == TmpFile(i, copy[i], copy[i].val)
           u == [t EXCEPT !.synced = TRUE]
<1>1. phase = "running" /\ copy[i] \in Copy /\ known[i] # None
  BY Zenon DEF IInv, WriteInv, SyncTmp, At
<1>2. copy[i].val \in Bytes /\ copy[i].val # Partial
  BY <1>1, CopyAssumption, Zenon DEF Bytes
<1>3. t \in Entry /\ t.tmp = TRUE /\ t.idx = i /\ t.val = copy[i].val
  BY <1>1, <1>2, CopyAssumption, Zenon DEF TmpFile, SectorFile, Entry
<1>4. u \in Entry /\ u.tmp = TRUE /\ u.idx = i /\ Complete(u) /\ u.ts = t.ts /\ u.wr = t.wr
  BY <1>2, <1>3, SyncedFields, Zenon DEF Complete, SameName, SameVersion
<1>5. dir' = Put(dir, u) /\ kept' = kept
  BY Zenon DEF SyncTmp, disk
<1>6. /\ Sound(dir)' /\ Sound(kept)'
      /\ \A f \in dir : ~f.tmp => f \in dir'
      /\ \A f \in dir' : f.idx # i => f \in dir
  BY <1>4, <1>5, PutTmp, Zenon
<1>7. Shapes' /\ UnreadInv' /\ DownInv'
  BY Zenon DEF IInv, Shapes, UnreadInv, DownInv, SyncTmp, At
<1>8. WriteInv'
  <2>1. step'[i] = "synced" /\ copy' = copy /\ known' = known
    BY Zenon DEF IInv, Shapes, SyncTmp
  <2>2. \A j \in Sector : j # i => step'[j] = step[j]
    BY Zenon DEF IInv, Shapes, SyncTmp
  <2>3. ASSUME NEW f \in dir', SameName(f, TmpFile(i, copy[i], Partial))
        PROVE  Complete(f)
    <3>1. SameName(f, u)
      BY <1>1, <1>3, <1>4, <2>3, PartialTmp, Zenon DEF SameName, SameVersion, TmpFile, SectorFile
    <3>2. f = u
      BY <1>5, <2>3, <3>1, Zenon DEF Put
    <3>3. QED
      BY <1>4, <3>2, Zenon
  <2>4. QED
    BY <1>1, <1>6, <2>1, <2>2, <2>3, OthersKeepWriteInv, Zenon DEF WriteInv
<1>9. MapInv'
  BY <1>6, Zenon DEF IInv, MapInv, HasFile, SyncTmp, At
<1>10. QED
  BY <1>6, <1>7, <1>8, <1>9 DEF IInv

\* rename: the temporary file is complete when it loses its name.
LEMMA RenameTmpKeepsIInv ==
  ASSUME IInv, NEW i \in Sector, RenameTmp(i)
  PROVE  IInv'
<1>1. phase = "running" /\ copy[i] \in Copy /\ known[i] # None /\ step[i] = "synced"
  BY Zenon DEF IInv, WriteInv, RenameTmp, At
<1>2. PICK f \in dir : /\ SameName(f, TmpFile(i, copy[i], Partial))
                       /\ dir' = Put(dir \ {f}, [f EXCEPT !.tmp = FALSE])
  BY Zenon DEF RenameTmp
<1> DEFINE g == [f EXCEPT !.tmp = FALSE]
<1>3. f \in Entry /\ Complete(f) /\ f.tmp = TRUE /\ f.idx = i
  BY <1>1, <1>2, PartialTmp, Zenon DEF IInv, WriteInv, Sound, SameName
<1>4. g \in Entry /\ g.idx = i /\ Complete(g)
  BY <1>3, Zenon DEF Entry, Complete
<1>5. Sound(dir)' /\ Sound(kept)'
  <2>1. Sound(dir \ {f})
    BY SubsetSound, Zenon DEF IInv
  <2>2. Sound(Put(dir \ {f}, g))
    BY <1>4, <2>1, PutSound, Zenon
  <2>3. QED
    BY <1>2, <2>2, Zenon DEF IInv, Sound, RenameTmp, NotOnDisk
<1>6. \A e \in dir' : e.idx # i => e \in dir
  BY <1>2, <1>4, Zenon DEF Put
<1>7. \A e \in dir : e.idx # i => e \in dir'
  BY <1>2, <1>3, <1>4, Zenon DEF Put, SameName
<1>8. Shapes' /\ UnreadInv' /\ DownInv'
  BY Zenon DEF IInv, Shapes, UnreadInv, DownInv, RenameTmp, At
<1>9. WriteInv'
  <2>1. step'[i] = "renamed" /\ copy' = copy /\ known' = known
    BY Zenon DEF IInv, Shapes, RenameTmp
  <2>2. \A j \in Sector : j # i => step'[j] = step[j]
    BY Zenon DEF IInv, Shapes, RenameTmp
  <2>3. QED
    BY <1>1, <1>6, <2>1, <2>2, OthersKeepWriteInv, Zenon DEF WriteInv
<1>10. MapInv'
  BY <1>1, <1>7, Zenon DEF IInv, MapInv, HasFile, RenameTmp
<1>11. QED
  BY <1>5, <1>8, <1>9, <1>10, Zenon DEF IInv

\* The new version goes into data_access.
LEMMA UpdateMapKeepsIInv ==
  ASSUME IInv, NEW i \in Sector, UpdateMap(i)
  PROVE  IInv'
<1>1. phase = "running" /\ copy[i] \in Copy /\ known[i] # None
  BY Zenon DEF IInv, WriteInv, UpdateMap, At
<1>2. Shapes'
  BY <1>1, CopyAssumption, Zenon DEF IInv, Shapes, UpdateMap, VersionOf
<1>3. Sound(dir)' /\ Sound(kept)' /\ UnreadInv' /\ DownInv'
  BY <1>1, Zenon DEF IInv, Sound, UnreadInv, DownInv, UpdateMap, disk
<1>4. WriteInv'
  BY <1>1, Zenon DEF IInv, Shapes, WriteInv, UpdateMap
<1>5. MapInv'
  BY <1>1, Zenon DEF IInv, Shapes, MapInv, HasFile, UpdateMap
<1>6. QED
  BY <1>2, <1>3, <1>4, <1>5, Zenon DEF IInv

\* The removal of the old file of i, which the register of i, being up, does not load.
LEMMA RemoveOldKeepsIInv ==
  ASSUME IInv, NEW i \in Sector, RemoveOld(i)
  PROVE  IInv'
<1>1. phase = "running" /\ copy[i] \in Copy /\ copy[i] # None
  BY CopyAssumption, Zenon DEF IInv, WriteInv, RemoveOld, At
<1>2. /\ \A f \in dir' : f \in dir
      /\ \A f \in dir : f.idx # i => f \in dir'
  BY Zenon DEF RemoveOld, Remove, SameName, OldFile, SectorFile
<1>3. Sound(dir)' /\ Sound(kept)'
  <2>1. Sound(dir')
    BY <1>2, SubsetSound, Zenon DEF IInv
  <2>2. QED
    BY <2>1, Zenon DEF IInv, Sound, RemoveOld, NotOnDisk
<1>4. Shapes' /\ UnreadInv' /\ DownInv'
  BY Zenon DEF IInv, Shapes, UnreadInv, DownInv, RemoveOld, At
<1>5. step'[i] = "idle" /\ known'[i] # None
  BY <1>1, Zenon DEF IInv, Shapes, RemoveOld
<1>6. \A j \in Sector : j # i => step'[j] = step[j] /\ copy'[j] = copy[j] /\ known'[j] = known[j]
  BY Zenon DEF IInv, Shapes, RemoveOld
<1>7. WriteInv'
  BY <1>1, <1>2, <1>5, <1>6, OthersKeepWriteInv, Zenon DEF WriteInv
<1>8. MapInv'
  BY <1>1, <1>2, <1>5, <1>6, Zenon DEF IInv, MapInv, HasFile, RemoveOld
<1>9. QED
  BY <1>3, <1>4, <1>7, <1>8, Zenon DEF IInv

\* The removal fails and the worker panics.
LEMMA RemoveOldFailsKeepsIInv ==
  ASSUME IInv, NEW i \in Sector, RemoveOldFails(i)
  PROVE  IInv'
<1>1. phase = "running" /\ known[i] # None
  BY Zenon DEF IInv, WriteInv, RemoveOldFails, At
<1>2. Sound(dir)' /\ Sound(kept)' /\ Shapes' /\ UnreadInv' /\ DownInv'
  BY <1>1, Zenon DEF IInv, Sound, Shapes, UnreadInv, DownInv, RemoveOldFails, disk
<1>3. WriteInv' /\ MapInv'
  BY <1>1, Zenon DEF IInv, Shapes, WriteInv, MapInv, HasFile, RemoveOldFails
<1>4. QED
  BY <1>2, <1>3, Zenon DEF IInv

\* A process that goes down leaves nothing but its directory.
LEMMA DownIsSafe ==
  ASSUME IInv, GoDown
  PROVE  WriteInv' /\ MapInv' /\ UnreadInv' /\ DownInv'
BY Zenon DEF GoDown, WriteInv, MapInv, UnreadInv, DownInv

\* A crash of the process leaves the directory and the disk as they are.
LEMMA CrashKeepsIInv ==
  ASSUME IInv, Crash
  PROVE  IInv'
<1>1. Sound(dir)' /\ Sound(kept)' /\ Shapes'
  BY Zenon DEF IInv, Sound, Shapes, Crash, GoDown, NoVersion, disk
<1>2. QED
  BY <1>1, DownIsSafe, Zenon DEF IInv, Crash

\* The disk has the files under their names, and those that have lost their temporary
\* name completely.
LEMMA FlushKeepsIInv ==
  ASSUME IInv, Flush
  PROVE  IInv'
<1> DEFINE OnDisk(f) == [f EXCEPT !.val = IF f.synced THEN f.val ELSE Partial]
<1>1. kept' = {OnDisk(f) : f \in dir}
  BY Zenon DEF Flush
<1>2. ASSUME NEW f \in dir
      PROVE  /\ OnDisk(f) \in Entry /\ SameName(OnDisk(f), f)
             /\ OnDisk(f).tmp = f.tmp /\ (~f.tmp => Complete(OnDisk(f)))
  <2>1. f \in Entry /\ (~f.tmp => Complete(f))
    BY Zenon DEF IInv, Sound
  <2>2. QED
    BY <2>1, Zenon DEF Entry, Bytes, SameName, SameVersion, Complete
<1>3. ASSUME NEW e \in dir, NEW f \in dir, SameName(OnDisk(e), OnDisk(f))
      PROVE  e = f
  <2>1. SameName(e, f)
    BY <1>2, <1>3, Zenon DEF SameName, SameVersion
  <2>2. QED
    BY <2>1, Zenon DEF IInv, Sound
<1> HIDE DEF OnDisk
<1>4. Sound(kept)'
  <2>1. ASSUME NEW x \in kept'
        PROVE  x \in Entry /\ (~x.tmp => Complete(x))
    BY <1>1, <1>2, Zenon
  <2>2. ASSUME NEW x \in kept', NEW y \in kept', SameName(x, y)
        PROVE  x = y
    <3>1. PICK e \in dir : x = OnDisk(e)
      BY <1>1, Zenon
    <3>2. PICK f \in dir : y = OnDisk(f)
      BY <1>1, Zenon
    <3>3. QED
      BY <1>3, <2>2, <3>1, <3>2, Zenon
  <2>3. QED
    BY <2>1, <2>2, Zenon DEF Sound
<1>5. Sound(dir)' /\ Shapes' /\ WriteInv' /\ MapInv' /\ UnreadInv' /\ DownInv'
  BY Zenon DEF IInv, Sound, Shapes, WriteInv, MapInv, UnreadInv, DownInv, HasFile, Flush
<1>6. QED
  BY <1>4, <1>5, Zenon DEF IInv

\* The directory is what the disk held, which is sound as well.
LEMMA PowerFailureKeepsIInv ==
  ASSUME IInv, PowerFailure
  PROVE  IInv'
<1>1. Sound(dir)' /\ Sound(kept)' /\ Shapes'
  BY Zenon DEF IInv, Sound, Shapes, PowerFailure, GoDown, NoVersion
<1>2. QED
  BY <1>1, DownIsSafe, Zenon DEF IInv, PowerFailure

\* The recovery begins with an empty data_access, which names none of the entries.
LEMMA RestartKeepsIInv ==
  ASSUME IInv, Restart
  PROVE  IInv'
<1>1. Sound(dir)' /\ Sound(kept)' /\ Shapes' /\ WriteInv' /\ MapInv' /\ DownInv'
  BY Zenon DEF IInv, Sound, Shapes, WriteInv, MapInv, DownInv, Restart, disk
<1>2. UnreadInv'
  <2>1. \A e \in dir : e.ts # 0 /\ e.idx \in Sector
    BY Zenon DEF IInv, Sound, Entry
  <2>2. QED
    BY <2>1 DEF IInv, DownInv, UnreadInv, Restart, SameVersion, NoVersion
<1>3. QED
  BY <1>1, <1>2, Zenon DEF IInv

\* One entry of the directory. What is removed is e, or the file that data_access
\* named before e, so neither what data_access names now nor an entry still to be read.
LEMMA RecoverEntryKeepsIInv ==
  ASSUME IInv, NEW e \in unread, RecoverEntry(e)
  PROVE  IInv'
<1> DEFINE v == data_access[e.idx]
<1>1. /\ phase = "recovering" /\ phase' = phase /\ e \in dir /\ e \in Entry /\ e.idx \in Sector
      /\ v \in [ts : Nat, wr : Nat] /\ unread' = unread \ {e}
  BY Zenon DEF IInv, UnreadInv, Shapes, Sound, Entry, RecoverEntry
<1>2. e.ts \in Nat \ {0} /\ e.wr \in Nat \ {0} /\ VersionOf(e) \in [ts : Nat, wr : Nat]
  BY <1>1, Zenon DEF Entry, VersionOf
<1>3. /\ Sound(dir)' /\ Sound(kept)' /\ \A f \in dir' : f \in dir
  <2>1. \A f \in dir' : f \in dir
    BY Zenon DEF RecoverEntry, Remove
  <2>2. Sound(dir')
    BY <2>1, SubsetSound, Zenon DEF IInv
  <2>3. QED
    BY <2>1, <2>2, Zenon DEF IInv, Sound, RecoverEntry, NotOnDisk
<1>4. Shapes' /\ WriteInv' /\ DownInv'
  BY <1>1, <1>2 DEF IInv, Shapes, WriteInv, DownInv, RecoverEntry
<1>5. \A f \in unread : f \in dir /\ f \in Entry /\ (f # e => ~SameName(f, e))
                        /\ (~f.tmp => ~SameVersion(f, data_access[f.idx]))
  BY <1>1, Zenon DEF IInv, UnreadInv, Sound
<1>6. UnreadInv' /\ MapInv'
  <2>1. CASE e.tmp
    <3>1. dir' = Remove(dir, e) /\ data_access' = data_access
      BY <2>1, Zenon DEF RecoverEntry
    <3>2. \A f \in unread' : f \in dir'
      BY <1>1, <1>5, <3>1, Zenon DEF Remove
    <3>3. \A f \in dir : ~f.tmp => f \in dir'
      BY <2>1, <3>1, Zenon DEF Remove, SameName
    <3>4. QED
      BY <1>1, <1>5, <3>1, <3>2, <3>3, Zenon DEF IInv, UnreadInv, MapInv, HasFile
  <2>2. ASSUME ~e.tmp, data_access' = [data_access EXCEPT ![e.idx] = VersionOf(e)], e \in dir',
               \A f \in unread' : f \in dir', \A f \in dir : f.idx # e.idx => f \in dir'
        PROVE  UnreadInv' /\ MapInv'
    <3>1. /\ data_access'[e.idx] = VersionOf(e)
          /\ \A j \in Sector : j # e.idx => data_access'[j] = data_access[j]
      BY <1>1, <2>2, Zenon DEF IInv, Shapes
    <3>2. ASSUME NEW f \in unread', ~f.tmp
          PROVE  ~SameVersion(f, data_access'[f.idx])
      <4>1. f \in unread /\ f # e /\ f \in Entry /\ f.idx \in Sector /\ f.tmp = e.tmp
        BY <1>1, <1>5, <2>2, <3>2, Zenon DEF Entry
      <4>2. CASE f.idx = e.idx
        BY <1>5, <3>1, <4>1, <4>2 DEF SameName, SameVersion, VersionOf
      <4>3. CASE f.idx # e.idx
        BY <1>5, <3>1, <3>2, <4>1, <4>3, Zenon
      <4>4. QED
        BY <4>2, <4>3, Zenon
    <3>3. HasFile(e.idx)'
      BY <2>2, <3>1 DEF HasFile, SameVersion, VersionOf
    <3>4. ASSUME NEW j \in Sector, j # e.idx
          PROVE  data_access'[j] = NoVersion \/ HasFile(j)'
      BY <1>1, <2>2, <3>1, <3>4, Zenon DEF IInv, MapInv, HasFile
    <3>5. QED
      BY <2>2, <3>2, <3>3, <3>4, Zenon DEF UnreadInv, MapInv
  <2>3. CASE ~e.tmp /\ v = NoVersion
    <3>1. dir' = dir /\ data_access' = [data_access EXCEPT ![e.idx] = VersionOf(e)]
      BY <2>3, Zenon DEF RecoverEntry
    <3>2. QED
      BY <1>1, <1>5, <2>2, <2>3, <3>1, Zenon
  <2>4. CASE ~e.tmp /\ v # NoVersion /\ Newer(e, v)
    <3> DEFINE o == SectorFile(e.idx, v, Partial)
    <3>1. dir' = Remove(dir, o) /\ data_access' = [data_access EXCEPT ![e.idx] = VersionOf(e)]
      BY <2>4, Zenon DEF RecoverEntry
    <3>2. o.idx = e.idx /\ o.tmp = FALSE /\ o.ts = v.ts /\ o.wr = v.wr
      BY Zenon DEF SectorFile
    <3>3. \A f \in unread : ~SameName(f, o)
      BY <1>1, <1>5, <3>2, Zenon DEF SameName, SameVersion
    <3>4. e \in dir' /\ \A f \in unread' : f \in dir'
      BY <1>1, <1>5, <3>1, <3>3, Zenon DEF Remove
    <3>5. \A f \in dir : f.idx # e.idx => f \in dir'
      BY <3>1, <3>2, Zenon DEF Remove, SameName
    <3>6. QED
      BY <2>2, <2>4, <3>1, <3>4, <3>5, Zenon
  <2>5. CASE ~e.tmp /\ v # NoVersion /\ ~Newer(e, v)
    <3>1. dir' = Remove(dir, e) /\ data_access' = data_access
      BY <2>5, Zenon DEF RecoverEntry
    <3>2. \A f \in unread' : f \in dir'
      BY <1>1, <1>5, <3>1 DEF Remove
    <3>3. ASSUME NEW j \in Sector
          PROVE  data_access[j] = NoVersion \/ HasFile(j)'
      <4>1. data_access[j] = NoVersion \/ HasFile(j)
        BY <1>1, Zenon DEF IInv, MapInv
      <4>2. ASSUME NEW f \in dir, ~f.tmp, f.idx = j, SameVersion(f, data_access[j])
            PROVE  ~SameName(f, e)
        BY <1>5, <2>5, <4>2, Zenon DEF SameName, SameVersion
      <4>3. QED
        BY <3>1, <4>1, <4>2, Zenon DEF HasFile, Remove
    <3>4. QED
      BY <1>1, <1>5, <3>1, <3>2, <3>3, Zenon DEF UnreadInv, MapInv
  <2>6. QED
    BY <2>1, <2>3, <2>4, <2>5, Zenon
<1>7. QED
  BY <1>3, <1>4, <1>6, Zenon DEF IInv

\* When sectors_crash_recovery returns, data_access names files that exist.
LEMMA RecoveryEndsKeepsIInv ==
  ASSUME IInv, RecoveryEnds
  PROVE  IInv'
<1>1. Sound(dir)' /\ Sound(kept)' /\ Shapes' /\ UnreadInv' /\ DownInv'
  BY Zenon DEF IInv, Sound, Shapes, UnreadInv, DownInv, RecoveryEnds, disk
<1>2. WriteInv' /\ MapInv'
  BY Zenon DEF IInv, DownInv, WriteInv, MapInv, HasFile, RecoveryEnds
<1>3. QED
  BY <1>1, <1>2, Zenon DEF IInv

\* The invariant is inductive: one case per action.
LEMMA NextKeepsIInv == IInv /\ [Next]_vars => IInv'
<1> SUFFICES ASSUME IInv, [Next]_vars PROVE IInv'
  BY Zenon
<1>1. ASSUME NEW i \in Sector, Load(i) PROVE IInv'
  BY <1>1, LoadKeepsIInv, Zenon
<1>2. ASSUME NEW i \in Sector, NEW c \in Copy, Write(i, c) PROVE IInv'
  BY <1>2, WriteKeepsIInv, Zenon
<1>3. ASSUME NEW i \in Sector, FillTmp(i) PROVE IInv'
  BY <1>3, FillTmpKeepsIInv
<1>4. ASSUME NEW i \in Sector, SyncTmp(i) PROVE IInv'
  BY <1>4, SyncTmpKeepsIInv
<1>5. ASSUME NEW i \in Sector, RenameTmp(i) PROVE IInv'
  BY <1>5, RenameTmpKeepsIInv
<1>6. ASSUME NEW i \in Sector, UpdateMap(i) PROVE IInv'
  BY <1>6, UpdateMapKeepsIInv
<1>7. ASSUME NEW i \in Sector, RemoveOld(i) PROVE IInv'
  BY <1>7, RemoveOldKeepsIInv
<1>8. ASSUME NEW i \in Sector, RemoveOldFails(i) PROVE IInv'
  BY <1>8, RemoveOldFailsKeepsIInv
<1>9. CASE Crash
  BY <1>9, CrashKeepsIInv, Zenon
<1>10. CASE Flush
  BY <1>10, FlushKeepsIInv, Zenon
<1>11. CASE PowerFailure
  BY <1>11, PowerFailureKeepsIInv
<1>12. CASE Restart
  BY <1>12, RestartKeepsIInv
<1>13. ASSUME NEW e \in unread, RecoverEntry(e) PROVE IInv'
  BY <1>13, RecoverEntryKeepsIInv, Zenon
<1>14. CASE RecoveryEnds
  BY <1>14, RecoveryEndsKeepsIInv
<1>15. CASE UNCHANGED vars
  BY <1>15, Zenon DEF vars, IInv, Sound, Shapes, WriteInv, MapInv, UnreadInv, DownInv, HasFile
<1>16. QED
  BY <1>1, <1>2, <1>3, <1>4, <1>5, <1>6, <1>7, <1>8, <1>9, <1>10, <1>11, <1>12, <1>13, <1>14, <1>15, Zenon
     DEF Next

\* For any number of sectors, any versions, and any number of crashes, power failures
\* and interrupted recoveries, the file that read_data opens exists and is complete:
\* the expects of read_data never fail after a restart.
THEOREM LoadAlwaysFindsFile == Spec => []LoadFindsFile
<1>1. IInv => LoadFindsFile
  <2> SUFFICES ASSUME IInv, NEW i \in Sector,
                      phase = "running", known[i] = None, data_access[i] # NoVersion
               PROVE  \E f \in FilesOf(i) : SameVersion(f, data_access[i]) /\ f.val # Partial
    BY Zenon DEF LoadFindsFile
  <2>1. PICK f \in dir : ~f.tmp /\ f.idx = i /\ SameVersion(f, data_access[i])
    BY Zenon DEF IInv, MapInv, HasFile
  <2>2. f.val # Partial
    BY <2>1, Zenon DEF IInv, Sound, Complete
  <2>3. CopyIn(f) \in FilesOf(i) /\ SameVersion(CopyIn(f), data_access[i]) /\ CopyIn(f).val = f.val
    BY <2>1, Zenon DEF FilesOf, FilesIn, CopyIn, SameVersion
  <2>4. QED
    BY <2>2, <2>3, Zenon
<1>2. QED
  BY InitIInv, NextKeepsIInv, <1>1, PTL DEF Spec

-----------------------------------------------------------------------------
(***************************************************************************)
(* What the operations do to the sector files                              *)
(***************************************************************************)
\* A copy as a file holds it.
Cell == [ts : Nat \ {0}, wr : Nat \ {0}, val : Bytes]

\* The sector files of i are what the files of i hold that have their own name.
LEMMA InFiles ==
  ASSUME NEW d, NEW i, NEW x
  PROVE  x \in FilesIn(d, i) <=> \E f \in d : ~f.tmp /\ f.idx = i /\ x = CopyIn(f)
BY Zenon DEF FilesIn

\* A copy has the version and the data of its file.
LEMMA CopyFields ==
  ASSUME NEW f
  PROVE  CopyIn(f).ts = f.ts /\ CopyIn(f).wr = f.wr /\ CopyIn(f).val = f.val
BY Zenon DEF CopyIn

\* The files of a sector are copies, and no two have one version.
LEMMA FilesSound ==
  ASSUME NEW d, Sound(d), NEW i
  PROVE  /\ FilesIn(d, i) \subseteq Cell
         /\ \A x, y \in FilesIn(d, i) : SameVersion(x, y) => x = y
<1>1. ASSUME NEW x \in FilesIn(d, i) PROVE x \in Cell
  <2>1. PICK f \in d : ~f.tmp /\ f.idx = i /\ x = CopyIn(f)
    BY InFiles
  <2>2. f \in Entry
    BY Zenon DEF Sound
  <2>3. QED
    BY <2>1, <2>2, Zenon DEF Entry, CopyIn, Cell
<1>2. ASSUME NEW x \in FilesIn(d, i), NEW y \in FilesIn(d, i), SameVersion(x, y) PROVE x = y
  <2>1. PICK f \in d : ~f.tmp /\ f.idx = i /\ x = CopyIn(f)
    BY InFiles
  <2>2. PICK g \in d : ~g.tmp /\ g.idx = i /\ y = CopyIn(g)
    BY InFiles
  <2>3. f.tmp = g.tmp
    BY <2>1, <2>2, Zenon DEF Sound, Entry
  <2>4. f = g
    BY <1>2, <2>1, <2>2, <2>3, CopyFields, Zenon DEF SameVersion, SameName, Sound
  <2>5. QED
    BY <2>1, <2>2, <2>4, Zenon
<1>3. QED
  BY <1>1, <1>2, Zenon

\* Directories with the same sector files.
LEMMA SameFiles ==
  ASSUME NEW d, NEW e, NEW i,
         \A f \in d : (~f.tmp /\ f.idx = i) => f \in e,
         \A f \in e : (~f.tmp /\ f.idx = i) => f \in d
  PROVE  FilesIn(e, i) = FilesIn(d, i)
<1>1. \A x : x \in FilesIn(e, i) <=> x \in FilesIn(d, i)
  BY InFiles
<1>2. QED
  BY <1>1, Zenon

\* A temporary file is no sector file.
LEMMA PutTmpFiles ==
  ASSUME NEW d, NEW t \in Entry, t.tmp = TRUE, NEW j
  PROVE  FilesIn(Put(d, t), j) = FilesIn(d, j)
<1>1. \A f \in d : ~f.tmp => f \in Put(d, t)
  BY Zenon DEF Put, SameName
<1>2. \A f \in Put(d, t) : ~f.tmp => f \in d
  BY Zenon DEF Put
<1>3. QED
  BY <1>1, <1>2, SameFiles, Zenon

\* Removing a sector file,
LEMMA RemoveFile ==
  ASSUME NEW d, Sound(d), NEW o, o.tmp = FALSE
  PROVE  FilesIn(Remove(d, o), o.idx) = {x \in FilesIn(d, o.idx) : ~SameVersion(x, o)}
<1>1. \A f \in d : ~f.tmp /\ f.idx = o.idx => (SameName(f, o) <=> SameVersion(CopyIn(f), o))
  BY CopyFields, Zenon DEF SameName, SameVersion, Sound, Entry
<1>2. \A x : x \in FilesIn(Remove(d, o), o.idx) <=> x \in FilesIn(d, o.idx) /\ ~SameVersion(x, o)
  BY <1>1, InFiles DEF Remove
<1>3. QED
  BY <1>2, Zenon

\* and removing a temporary file or a file of another sector.
LEMMA RemoveOther ==
  ASSUME NEW d, NEW o, NEW j, o.tmp = TRUE \/ o.idx # j
  PROVE  FilesIn(Remove(d, o), j) = FilesIn(d, j)
<1>1. \A f \in d : ~f.tmp /\ f.idx = j => f \in Remove(d, o)
  BY Zenon DEF Remove, SameName
<1>2. \A f \in Remove(d, o) : f \in d
  BY Zenon DEF Remove
<1>3. QED
  BY <1>1, <1>2, SameFiles, Zenon

\* Giving a temporary file its name adds its copy, in place of one of that version.
LEMMA RenameFiles ==
  ASSUME NEW d, Sound(d), NEW f \in d, f.tmp = TRUE, NEW g, g.tmp = FALSE
  PROVE  /\ FilesIn(Put(d \ {f}, g), g.idx) = Renamed(FilesIn(d, g.idx), CopyIn(g))
         /\ \A j : j # g.idx => FilesIn(Put(d \ {f}, g), j) = FilesIn(d, j)
<1> DEFINE c == CopyIn(g)
           e == Put(d \ {f}, g)
<1>1. PICK i : i = g.idx
  BY Zenon
<1>2. \A h : h \in e <=> (h \in d /\ h # f /\ ~SameName(h, g)) \/ h = g
  BY Zenon DEF Put
<1> HIDE DEF e
<1>3. FilesIn(e, i) = Renamed(FilesIn(d, i), c)
  <2>1. \A h \in d : ~h.tmp /\ h.idx = i => h # f /\ (SameName(h, g) <=> SameVersion(CopyIn(h), c))
    BY <1>1, CopyFields, Zenon DEF SameName, SameVersion, Sound, Entry
  <2> HIDE DEF c
  <2>2. ASSUME NEW x \in FilesIn(e, i) PROVE x \in Renamed(FilesIn(d, i), c)
    <3>1. PICK h \in e : ~h.tmp /\ h.idx = i /\ x = CopyIn(h)
      BY InFiles
    <3>2. QED
      BY <1>2, <2>1, <3>1, InFiles, Zenon DEF Renamed, c
  <2>3. ASSUME NEW x \in FilesIn(d, i), ~SameVersion(x, c) PROVE x \in FilesIn(e, i)
    <3>1. PICK h \in d : ~h.tmp /\ h.idx = i /\ x = CopyIn(h)
      BY InFiles
    <3>2. h \in e
      BY <1>2, <2>1, <2>3, <3>1, Zenon
    <3>3. QED
      BY <3>1, <3>2, InFiles, Zenon
  <2>4. c \in FilesIn(e, i)
    BY <1>1, <1>2, InFiles, Zenon DEF c
  <2>5. QED
    BY <2>2, <2>3, <2>4, Zenon DEF Renamed
<1>4. ASSUME NEW j, j # i PROVE FilesIn(e, j) = FilesIn(d, j)
  <2>1. \A h \in d : ~h.tmp /\ h.idx = j => h \in e
    BY <1>1, <1>2, <1>4, Zenon DEF SameName
  <2>2. \A h \in e : ~h.tmp /\ h.idx = j => h \in d
    BY <1>1, <1>2, <1>4, Zenon
  <2>3. QED
    BY <2>1, <2>2, SameFiles, Zenon
<1>5. QED
  BY <1>1, <1>3, <1>4, Zenon DEF e

\* Removing a version that is not the newest leaves the newest.
LEMMA NewestKept ==
  ASSUME NEW S \in SUBSET Cell, NEW o, o.ts \in Nat, o.wr \in Nat, NEW g \in S, Newer(g, o)
  PROVE  Newest({x \in S : ~SameVersion(x, o)}) = Newest(S)
<1> DEFINE T == {x \in S : ~SameVersion(x, o)}
<1>1. \A x \in S : x.ts \in Nat /\ x.wr \in Nat
  BY Zenon DEF Cell
<1>2. g \in T
  BY <1>1 DEF Newer, SameVersion
<1>3. ASSUME NEW x \in S, SameVersion(x, o) PROVE Newer(g, x)
  BY <1>1, <1>3, Zenon DEF Newer, SameVersion
<1>4. ASSUME NEW x \in S, NEW y \in S, Newer(g, x), Newer(x, y) PROVE Newer(g, y)
  BY <1>1, <1>4 DEF Newer
<1>5. ASSUME NEW y \in Newest(T) PROVE y \in Newest(S)
  <2>1. y \in S /\ ~Newer(g, y) /\ \A x \in T : ~Newer(x, y)
    BY <1>2, <1>5, Zenon DEF Newest
  <2>2. \A x \in S : ~Newer(x, y)
    BY <1>3, <1>4, <2>1, Zenon
  <2>3. QED
    BY <2>1, <2>2, Zenon DEF Newest
<1>6. ASSUME NEW y \in Newest(S) PROVE y \in Newest(T)
  <2>1. y \in S /\ \A x \in S : ~Newer(x, y)
    BY <1>6, Zenon DEF Newest
  <2>2. y \in T
    BY <1>3, <2>1, Zenon
  <2>3. QED
    BY <2>1, <2>2, Zenon DEF Newest
<1>7. QED
  BY <1>5, <1>6, Zenon

\* One entry of the recovery never removes the newest file of a sector.
LEMMA RecoverEntryFiles ==
  ASSUME IInv, NEW e \in unread, RecoverEntry(e), NEW j \in Sector
  PROVE  Newest(FilesIn(dir', j)) = Newest(FilesIn(dir, j))
<1> DEFINE v == data_access[e.idx]
<1>1. /\ phase = "recovering" /\ e \in dir /\ e \in Entry /\ e.idx \in Sector
      /\ v \in [ts : Nat, wr : Nat] /\ Sound(dir)
      /\ ~e.tmp => ~SameVersion(e, v)
  BY Zenon DEF IInv, UnreadInv, Shapes, Sound, Entry, RecoverEntry
<1>2. (e.tmp => e.tmp = TRUE) /\ (~e.tmp => e.tmp = FALSE) /\ e.ts \in Nat /\ e.wr \in Nat
  BY <1>1, Zenon DEF Entry
<1>3. CASE e.tmp
  <2>1. dir' = Remove(dir, e)
    BY <1>3, Zenon DEF RecoverEntry
  <2>2. QED
    BY <1>2, <1>3, <2>1, RemoveOther, Zenon
<1>4. CASE ~e.tmp /\ v = NoVersion
  BY <1>4, Zenon DEF RecoverEntry
<1>5. CASE ~e.tmp /\ v # NoVersion /\ Newer(e, v)
  <2> DEFINE o == SectorFile(e.idx, v, Partial)
  <2>1. dir' = Remove(dir, o)
    BY <1>5, Zenon DEF RecoverEntry
  <2>2. o.idx = e.idx /\ o.tmp = FALSE /\ o.ts = v.ts /\ o.wr = v.wr
    BY Zenon DEF SectorFile
  <2> HIDE DEF o
  <2>3. CASE j # e.idx
    BY <2>1, <2>2, <2>3, RemoveOther, Zenon
  <2>4. CASE j = e.idx
    <3>1. CopyIn(e) \in FilesIn(dir, j)
      BY <1>1, <1>5, <2>4, InFiles, Zenon
    <3>2. Newer(CopyIn(e), o)
      BY <1>5, <2>2, CopyFields, Zenon DEF Newer
    <3>3. FilesIn(dir', j) = {x \in FilesIn(dir, j) : ~SameVersion(x, o)}
      BY <1>1, <2>1, <2>2, <2>4, RemoveFile, Zenon
    <3>4. FilesIn(dir, j) \in SUBSET Cell /\ o.ts \in Nat /\ o.wr \in Nat
      BY <1>1, <2>2, FilesSound, Zenon
    <3>5. QED
      BY <3>1, <3>2, <3>3, <3>4, NewestKept, Zenon
  <2>5. QED
    BY <2>3, <2>4, Zenon
<1>6. CASE ~e.tmp /\ v # NoVersion /\ ~Newer(e, v)
  <2>1. dir' = Remove(dir, e)
    BY <1>6, Zenon DEF RecoverEntry
  <2>2. CASE j # e.idx
    BY <2>1, <2>2, RemoveOther, Zenon
  <2>3. CASE j = e.idx
    <3>1. PICK f \in dir : ~f.tmp /\ f.idx = j /\ SameVersion(f, v)
      BY <1>1, <1>6, <2>3, Zenon DEF IInv, MapInv, HasFile
    <3>2. CopyIn(f) \in FilesIn(dir, j)
      BY <3>1, InFiles, Zenon
    <3>3. Newer(CopyIn(f), e)
      <4>1. v.ts \in Nat /\ v.wr \in Nat /\ CopyIn(f).ts = v.ts /\ CopyIn(f).wr = v.wr
        BY <1>1, <3>1, CopyFields, Zenon DEF SameVersion
      <4>2. QED
        BY <1>1, <1>2, <1>6, <4>1 DEF Newer, SameVersion
    <3>4. FilesIn(dir', j) = {x \in FilesIn(dir, j) : ~SameVersion(x, e)}
      BY <1>1, <1>2, <1>6, <2>1, <2>3, RemoveFile, Zenon
    <3>5. FilesIn(dir, j) \in SUBSET Cell
      BY <1>1, FilesSound, Zenon
    <3>6. QED
      BY <1>2, <3>2, <3>3, <3>4, <3>5, NewestKept, Zenon
  <2>4. QED
    BY <2>2, <2>3
<1>7. QED
  BY <1>3, <1>4, <1>5, <1>6, Zenon

\* A flush puts the sector files on disk as they are.
LEMMA FlushFiles ==
  ASSUME Sound(dir), Flush, NEW j
  PROVE  FilesIn(kept', j) = FilesIn(dir, j)
<1> DEFINE OnDisk(f) == [f EXCEPT !.val = IF f.synced THEN f.val ELSE Partial]
<1>1. kept' = {OnDisk(f) : f \in dir}
  BY Zenon DEF Flush
<1>2. ASSUME NEW f \in dir PROVE OnDisk(f).tmp = f.tmp /\ (~f.tmp => OnDisk(f) = f)
  BY Zenon DEF Sound, Entry, Complete
<1> HIDE DEF OnDisk
<1>3. \A f \in dir : ~f.tmp => f \in kept'
  BY <1>1, <1>2, Zenon
<1>4. \A f \in kept' : ~f.tmp => f \in dir
  BY <1>1, <1>2, Zenon
<1>5. QED
  BY <1>3, <1>4, SameFiles, Zenon

-----------------------------------------------------------------------------
(***************************************************************************)
(* The files of a sector and its writes                                    *)
(***************************************************************************)
\* The version that data_access named when the write of i, if there is one, began.
Base(i) == IF step[i] \in {"mapped", "panicked"} THEN old[i] ELSE data_access[i]

\* A sector of a process that is up. It has at most one file at rest, and a write adds
\* its own by the rename; of a Rising sector it is the file of the copy the register
\* holds, and the write has a newer version.
SectorInv(i) ==
    /\ copy[i] \in Copy \union {None}
    /\ copy[i] = None <=> step[i] = "idle"
    /\ FilesOf(i) = IF step[i] \in {"renamed", "mapped", "panicked"}
                    THEN Renamed(settled[i], copy[i]) ELSE settled[i]
    /\ \A f \in settled[i] : SameVersion(f, Base(i))
    /\ known[i] # None => Base(i) = VersionOf(known[i])
    /\ step[i] = "mapped" => data_access[i] = VersionOf(copy[i])
    /\ (i \in Rising /\ known[i] # None) =>
          /\ settled[i] = IF known[i] = InitialCopy THEN {} ELSE {known[i]}
          /\ step[i] # "idle" => Newer(copy[i], known[i])

\* A sector of a process that is down or recovers: the newest of its files is the one
\* it would be without the write that was cut short, or with it.
CutInv(i) ==
    /\ known[i] = None
    /\ copy[i] \in Copy \union {None}
    /\ \/ Newest(FilesOf(i)) = Newest(settled[i])
       \/ copy[i] # None /\ Newest(FilesOf(i)) = Newest(Renamed(settled[i], copy[i]))

\* A temporary file belongs to a write in progress.
TmpInv ==
    phase = "running" => \A f \in dir : f.tmp =>
        /\ step[f.idx] \in {"created", "filled", "synced"}
        /\ SameVersion(f, copy[f.idx])
        /\ step[f.idx] = "synced" => f.val = copy[f.idx].val

\* What the recovery has read and left is what data_access names.
ReadInv ==
    phase = "recovering" => \A f \in dir :
        f \in unread \/ (~f.tmp /\ SameVersion(f, data_access[f.idx]))

FilesInv ==
    /\ settled \in [Sector -> SUBSET Cell]
    /\ old \in [Sector -> [ts : Nat, wr : Nat]]
    /\ phase = "running" => \A i \in Sector : SectorInv(i)
    /\ phase # "running" => \A i \in Sector : CutInv(i)
    /\ TmpInv
    /\ ReadInv

\* The initial state.
LEMMA InitFilesInv == Init => FilesInv
<1> SUFFICES ASSUME Init PROVE FilesInv
  BY Zenon
<1>1. ASSUME NEW i \in Sector PROVE SectorInv(i)
  <2>1. FilesOf(i) = {}
    BY Zenon DEF Init, FilesOf, FilesIn
  <2>2. QED
    BY <2>1, Zenon DEF Init, SectorInv, Base
<1>2. settled \in [Sector -> SUBSET Cell] /\ old \in [Sector -> [ts : Nat, wr : Nat]]
  BY Zenon DEF Init, NoVersion
<1>3. QED
  BY <1>1, <1>2, Zenon DEF Init, FilesInv, TmpInv, ReadInv

\* A sector whose files and write a step leaves alone.
LEMMA SectorKept ==
  ASSUME NEW j, SectorInv(j), FilesIn(dir', j) = FilesIn(dir, j), settled'[j] = settled[j],
         step'[j] = step[j], copy'[j] = copy[j], old'[j] = old[j],
         data_access'[j] = data_access[j], known'[j] = known[j]
  PROVE  SectorInv(j)'
BY Zenon DEF SectorInv, FilesOf, Base

\* read_metadata and read_data: the register knows the one file at rest.
LEMMA LoadKeepsFilesInv ==
  ASSUME IInv, FilesInv, NEW i \in Sector, Load(i)
  PROVE  FilesInv'
<1>1. /\ phase = "running" /\ known[i] = None
      /\ UNCHANGED <<dir, data_access, phase, unread, step, copy, old, settled>>
  BY Zenon DEF Load
<1>2. SectorInv(i) /\ step[i] = "idle" /\ copy[i] = None /\ FilesOf(i) = settled[i]
  BY <1>1, Zenon DEF IInv, FilesInv, WriteInv, SectorInv
<1>3. \A f \in settled[i] : f \in Cell /\ SameVersion(f, data_access[i])
  BY <1>2, Zenon DEF FilesInv, SectorInv, Base
<1>4. SectorInv(i)'
  <2>1. CASE data_access[i] = NoVersion
    <3>1. known'[i] = InitialCopy
      BY <2>1, Zenon DEF Load, IInv, Shapes
    <3>2. settled[i] = {}
      BY <1>3, <2>1 DEF Cell, SameVersion, NoVersion
    <3>3. VersionOf(InitialCopy) = NoVersion
      BY Zenon DEF VersionOf, InitialCopy, NoVersion
    <3>4. QED
      BY <1>1, <1>2, <2>1, <3>1, <3>2, <3>3, Zenon DEF SectorInv, Base, FilesOf
  <2>2. CASE data_access[i] # NoVersion
    <3>1. PICK f \in settled[i] : SameVersion(f, data_access[i]) /\ known'[i] = f
      BY <1>2, <2>2, Zenon DEF Load, IInv, Shapes
    <3>2. \A g \in settled[i] : g = f
      <4>1. \A g \in settled[i] : SameVersion(f, g)
        BY <1>3, <3>1, Zenon DEF SameVersion
      <4>2. QED
        BY <1>2, <4>1, FilesSound, Zenon DEF FilesOf, IInv
    <3>3. f \in Cell /\ f # InitialCopy
      BY <1>3 DEF Cell, InitialCopy
    <3>4. data_access[i] \in [ts : Nat, wr : Nat]
      BY Zenon DEF IInv, Shapes
    <3>5. VersionOf(f) = data_access[i]
      BY <3>1, <3>4, Zenon DEF SameVersion, VersionOf
    <3>6. settled[i] = {f}
      BY <3>1, <3>2, Zenon
    <3>7. QED
      BY <1>1, <1>2, <1>3, <3>1, <3>3, <3>5, <3>6, Zenon DEF SectorInv, Base, FilesOf
  <2>3. QED
    BY <2>1, <2>2, Zenon
<1>5. ASSUME NEW j \in Sector, j # i PROVE SectorInv(j)'
  <2>1. known'[j] = known[j]
    BY <1>5, Zenon DEF Load, IInv, Shapes
  <2>2. QED
    BY <1>1, <2>1, SectorKept, Zenon DEF FilesInv
<1>6. QED
  BY <1>1, <1>4, <1>5, Zenon DEF FilesInv, TmpInv, ReadInv

\* A step of the write of i that changes no sector file.
LEMMA TmpKeepsFilesInv ==
  ASSUME IInv, FilesInv, NEW i \in Sector, phase = "running", phase' = "running",
         NEW t \in Entry, t.tmp = TRUE, t.idx = i, dir' = Put(dir, t),
         UNCHANGED <<data_access, old, known, settled>>,
         step'[i] \in {"created", "filled", "synced"}, step[i] \notin {"renamed", "mapped", "panicked"},
         copy'[i] \in Copy, SameVersion(t, copy'[i]), step'[i] = "synced" => t.val = copy'[i].val,
         step[i] = "idle" \/ copy'[i] = copy[i],
         (i \in Rising /\ known[i] # None) => Newer(copy'[i], known[i]),
         \A j \in Sector : j # i => step'[j] = step[j] /\ copy'[j] = copy[j]
  PROVE  FilesInv'
<1>1. ASSUME NEW j PROVE FilesIn(dir', j) = FilesIn(dir, j)
  <2>1. FilesIn(Put(dir, t), j) = FilesIn(dir, j)
    BY PutTmpFiles, ZenonT(30)
  <2>2. QED
    BY <2>1, Zenon
<1>2. SectorInv(i)'
  <2>1. SectorInv(i) /\ copy'[i] # None
    BY CopyAssumption, Zenon DEF FilesInv
  <2>2. QED
    BY <1>1, <2>1, Zenon DEF SectorInv, Base, FilesOf
<1>3. ASSUME NEW j \in Sector, j # i PROVE SectorInv(j)'
  BY <1>1, <1>3, SectorKept, Zenon DEF FilesInv
<1>4. ASSUME NEW f \in dir', f.tmp
      PROVE  /\ step'[f.idx] \in {"created", "filled", "synced"}
             /\ SameVersion(f, copy'[f.idx])
             /\ step'[f.idx] = "synced" => f.val = copy'[f.idx].val
  <2>1. CASE f = t
    BY <2>1, Zenon
  <2>2. CASE f # t
    <3>1. f \in dir /\ ~SameName(f, t) /\ f.idx \in Sector /\ f.tmp = TRUE
      BY <1>4, <2>2, Zenon DEF Put, IInv, Sound, Entry
    <3>2. /\ step[f.idx] \in {"created", "filled", "synced"}
          /\ SameVersion(f, copy[f.idx])
          /\ step[f.idx] = "synced" => f.val = copy[f.idx].val
      BY <3>1, Zenon DEF FilesInv, TmpInv
    <3>3. ASSUME f.idx = i PROVE FALSE
      <4>1. SameVersion(f, copy'[i])
        BY <3>2, <3>3, Zenon
      <4>2. f.ts = t.ts /\ f.wr = t.wr
        BY <4>1, Zenon DEF SameVersion
      <4>3. SameName(f, t)
        BY <3>1, <3>3, <4>2, Zenon DEF SameName, SameVersion
      <4>4. QED
        BY <3>1, <4>3, Zenon
    <3>4. QED
      BY <3>1, <3>2, <3>3, Zenon
  <2>3. QED
    BY <2>1, <2>2, Zenon
<1>5. QED
  BY <1>2, <1>3, <1>4, Zenon DEF FilesInv, TmpInv, ReadInv

\* write() creates its temporary file,
LEMMA WriteKeepsFilesInv ==
  ASSUME IInv, FilesInv, NEW i \in Sector, NEW c \in Copy, Write(i, c)
  PROVE  FilesInv'
<1> DEFINE t == TmpFile(i, c, Partial)
<1>1. /\ phase = "running" /\ phase' = "running" /\ step[i] = "idle"
      /\ dir' = Put(dir, t) /\ UNCHANGED <<data_access, old, known, settled>>
      /\ i \in Rising => Newer(c, known[i])
  BY Zenon DEF Write, At
<1>2. /\ step'[i] = "created" /\ copy'[i] = c
      /\ \A j \in Sector : j # i => step'[j] = step[j] /\ copy'[j] = copy[j]
  BY Zenon DEF Write, IInv, Shapes
<1>3. t \in Entry /\ t.tmp = TRUE /\ t.idx = i /\ SameVersion(t, c)
  <2>1. Partial \in Bytes
    BY Zenon DEF Bytes
  <2>2. t \in Entry /\ t.tmp = TRUE /\ t.idx = i /\ t.ts = c.ts /\ t.wr = c.wr
    BY <2>1, CopyAssumption, Zenon DEF TmpFile, SectorFile, Entry
  <2>3. QED
    BY <2>2, Zenon DEF SameVersion
<1> HIDE DEF t
<1>4. QED
  BY <1>1, <1>2, <1>3, TmpKeepsFilesInv, Zenon

\* fills it,
LEMMA FillTmpKeepsFilesInv ==
  ASSUME IInv, FilesInv, NEW i \in Sector, FillTmp(i)
  PROVE  FilesInv'
<1> DEFINE t == TmpFile(i, copy[i], copy[i].val)
<1>1. /\ phase = "running" /\ phase' = "running" /\ step[i] = "created"
      /\ dir' = Put(dir, t) /\ UNCHANGED <<data_access, old, known, settled, copy>>
  BY Zenon DEF FillTmp, At
<1>2. step'[i] = "filled" /\ \A j \in Sector : j # i => step'[j] = step[j]
  BY Zenon DEF FillTmp, IInv, Shapes
<1>3. copy[i] \in Copy /\ ((i \in Rising /\ known[i] # None) => Newer(copy[i], known[i]))
  BY <1>1, Zenon DEF FilesInv, SectorInv
<1>4. t \in Entry /\ t.tmp = TRUE /\ t.idx = i /\ SameVersion(t, copy[i])
  <2>1. copy[i].val \in Bytes
    BY <1>3, Zenon DEF Bytes
  <2>2. t \in Entry /\ t.tmp = TRUE /\ t.idx = i /\ t.ts = copy[i].ts /\ t.wr = copy[i].wr
    BY <1>3, <2>1, CopyAssumption, Zenon DEF TmpFile, SectorFile, Entry
  <2>3. QED
    BY <2>2, Zenon DEF SameVersion
<1> HIDE DEF t
<1>5. QED
  BY <1>1, <1>2, <1>3, <1>4, TmpKeepsFilesInv, Zenon

\* and syncs it: from here on it holds the data of the copy.
LEMMA SyncTmpKeepsFilesInv ==
  ASSUME IInv, FilesInv, NEW i \in Sector, SyncTmp(i)
  PROVE  FilesInv'
<1> DEFINE t == TmpFile(i, copy[i], copy[i].val)
           u == [t EXCEPT !.synced = TRUE]
<1>1. /\ phase = "running" /\ phase' = "running" /\ step[i] = "filled"
      /\ dir' = Put(dir, u) /\ UNCHANGED <<data_access, old, known, settled, copy>>
  BY Zenon DEF SyncTmp, At
<1>2. step'[i] = "synced" /\ \A j \in Sector : j # i => step'[j] = step[j]
  BY Zenon DEF SyncTmp, IInv, Shapes
<1>3. copy[i] \in Copy /\ ((i \in Rising /\ known[i] # None) => Newer(copy[i], known[i]))
  BY <1>1, Zenon DEF FilesInv, SectorInv
<1>4. t \in Entry /\ t.tmp = TRUE /\ t.idx = i /\ SameVersion(t, copy[i]) /\ t.val = copy[i].val
  <2>1. copy[i].val \in Bytes
    BY <1>3 DEF Bytes
  <2>2. /\ t \in Entry /\ t.tmp = TRUE /\ t.idx = i
        /\ t.ts = copy[i].ts /\ t.wr = copy[i].wr /\ t.val = copy[i].val
    BY <1>3, <2>1, CopyAssumption, Zenon DEF TmpFile, SectorFile, Entry
  <2>3. QED
    BY <2>2, Zenon DEF SameVersion
<1> HIDE DEF t
<1>5. u \in Entry /\ u.tmp = TRUE /\ u.idx = i /\ SameVersion(u, copy[i]) /\ u.val = copy[i].val
  BY <1>4, SyncedFields, Zenon DEF SameName, SameVersion
<1> HIDE DEF u
<1>6. QED
  BY <1>1, <1>2, <1>3, <1>5, TmpKeepsFilesInv, Zenon

\* What the rename does to the files of the sectors.
LEMMA RenameTmpFiles ==
  ASSUME IInv, FilesInv, NEW i \in Sector, RenameTmp(i)
  PROVE  /\ copy[i] \in Copy
         /\ FilesIn(dir', i) = Renamed(settled[i], copy[i])
         /\ \A j \in Sector : j # i => FilesIn(dir', j) = FilesIn(dir, j)
         /\ \A f \in dir' : f.tmp => f \in dir /\ f.idx # i
<1>1. phase = "running" /\ step[i] = "synced"
  BY Zenon DEF RenameTmp, At
<1>2. copy[i] \in Copy /\ FilesIn(dir, i) = settled[i] /\ Sound(dir)
  BY <1>1, Zenon DEF IInv, FilesInv, SectorInv, FilesOf
<1>3. PICK f \in dir : /\ SameName(f, TmpFile(i, copy[i], Partial))
                       /\ dir' = Put(dir \ {f}, [f EXCEPT !.tmp = FALSE])
  BY Zenon DEF RenameTmp
<1>4. f \in dir /\ f \in Entry /\ f.tmp = TRUE /\ f.idx = i
  BY <1>2, <1>3, PartialTmp, Zenon DEF SameName, Sound
<1>5. SameVersion(f, copy[i]) /\ f.val = copy[i].val
  BY <1>1, <1>4, Zenon DEF FilesInv, TmpInv
<1>6. PICK g : g = [f EXCEPT !.tmp = FALSE]
  BY Zenon
<1>7. /\ FilesIn(dir', i) = Renamed(settled[i], copy[i])
      /\ \A j \in Sector : j # i => FilesIn(dir', j) = FilesIn(dir, j)
  <2>1. g.tmp = FALSE /\ g.idx = i /\ g.ts = copy[i].ts /\ g.wr = copy[i].wr /\ g.val = copy[i].val
    BY <1>4, <1>5, <1>6, Zenon DEF Entry, SameVersion
  <2>2. CopyIn(g) = copy[i]
    <3>1. copy[i] = [ts |-> copy[i].ts, wr |-> copy[i].wr, val |-> copy[i].val]
      BY <1>2, CopyAssumption, Zenon
    <3>2. QED
      BY <2>1, <3>1, Zenon DEF CopyIn
  <2>3. /\ FilesIn(Put(dir \ {f}, g), g.idx) = Renamed(FilesIn(dir, g.idx), CopyIn(g))
        /\ \A j : j # g.idx => FilesIn(Put(dir \ {f}, g), j) = FilesIn(dir, j)
    <3>1. Sound(dir) /\ f \in dir /\ f.tmp = TRUE /\ g.tmp = FALSE
      BY <1>2, <1>4, <2>1, Zenon
    <3>2. QED
      BY <3>1, RenameFiles, Zenon
  <2>4. dir' = Put(dir \ {f}, g)
    BY <1>3, <1>6, Zenon
  <2>5. QED
    BY <1>2, <2>1, <2>2, <2>3, <2>4, Zenon
<1>8. ASSUME NEW h \in dir', h.tmp PROVE h \in dir /\ h.idx # i
  <2>1. [f EXCEPT !.tmp = FALSE].tmp = FALSE
    BY <1>4, Zenon DEF Entry
  <2>2. h \in dir /\ h # f
    BY <1>3, <1>8, <2>1, Zenon DEF Put
  <2>3. ASSUME h.idx = i PROVE FALSE
    <3>1. h.tmp = TRUE
      BY <1>2, <1>8, <2>2, Zenon DEF Sound, Entry
    <3>2. SameVersion(h, copy[i])
      BY <1>1, <1>8, <2>2, <2>3, Zenon DEF FilesInv, TmpInv
    <3>3. SameName(h, f)
      BY <1>4, <1>5, <2>3, <3>1, <3>2, Zenon DEF SameName, SameVersion
    <3>4. QED
      BY <1>2, <2>2, <3>3, Zenon DEF Sound
  <2>4. QED
    BY <2>2, <2>3, Zenon
<1>9. QED
  BY <1>2, <1>7, <1>8, Zenon

\* The rename adds the file of the write in progress.
LEMMA RenameTmpKeepsFilesInv ==
  ASSUME IInv, FilesInv, NEW i \in Sector, RenameTmp(i)
  PROVE  FilesInv'
<1>1. /\ phase = "running" /\ phase' = "running" /\ step[i] = "synced"
      /\ UNCHANGED <<data_access, old, known, settled, copy>>
  BY Zenon DEF RenameTmp, At
<1>2. step'[i] = "renamed" /\ \A j \in Sector : j # i => step'[j] = step[j]
  BY Zenon DEF RenameTmp, IInv, Shapes
<1>3. SectorInv(i)'
  <2>1. SectorInv(i)
    BY <1>1, Zenon DEF FilesInv
  <2>2. FilesIn(dir', i) = Renamed(settled[i], copy[i])
    BY RenameTmpFiles, Zenon
  <2>3. QED
    BY <1>1, <1>2, <2>1, <2>2, Zenon DEF SectorInv, Base, FilesOf
<1>4. ASSUME NEW j \in Sector, j # i PROVE SectorInv(j)'
  <2>1. SectorInv(j) /\ FilesIn(dir', j) = FilesIn(dir, j)
    BY <1>1, <1>4, RenameTmpFiles, Zenon DEF FilesInv
  <2>2. QED
    BY <1>1, <1>2, <1>4, <2>1, SectorKept, Zenon
<1>5. TmpInv'
  <2>1. \A f \in dir' : f.tmp => f \in dir /\ f.idx # i /\ f.idx \in Sector
    BY RenameTmpFiles, Zenon DEF IInv, Sound, Entry
  <2>2. QED
    BY <1>1, <1>2, <2>1, Zenon DEF FilesInv, TmpInv
<1>6. QED
  BY <1>1, <1>3, <1>4, <1>5, Zenon DEF FilesInv, ReadInv

\* The new version in data_access; the old one is that of the files at rest.
LEMMA UpdateMapKeepsFilesInv ==
  ASSUME IInv, FilesInv, NEW i \in Sector, UpdateMap(i)
  PROVE  FilesInv'
<1>1. /\ phase = "running" /\ phase' = "running" /\ step[i] = "renamed"
      /\ UNCHANGED <<dir, known, settled, copy>>
  BY Zenon DEF UpdateMap, At
<1>2. /\ step'[i] = "mapped" /\ old'[i] = data_access[i] /\ data_access'[i] = VersionOf(copy[i])
      /\ \A j \in Sector : j # i => step'[j] = step[j] /\ old'[j] = old[j] /\ data_access'[j] = data_access[j]
  BY Zenon DEF UpdateMap, IInv, Shapes, FilesInv
<1>3. old' \in [Sector -> [ts : Nat, wr : Nat]]
  BY Zenon DEF UpdateMap, IInv, Shapes, FilesInv
<1>4. SectorInv(i)'
  <2>1. SectorInv(i)
    BY <1>1, Zenon DEF FilesInv
  <2>2. QED
    BY <1>1, <1>2, <2>1, Zenon DEF SectorInv, Base, FilesOf
<1>5. ASSUME NEW j \in Sector, j # i PROVE SectorInv(j)'
  BY <1>1, <1>2, <1>5, SectorKept, Zenon DEF FilesInv
<1>6. TmpInv'
  <2>1. \A f \in dir : f.tmp => f.idx # i /\ f.idx \in Sector
    BY <1>1, Zenon DEF IInv, Sound, Entry, FilesInv, TmpInv
  <2>2. QED
    BY <1>1, <1>2, <2>1, Zenon DEF FilesInv, TmpInv
<1>7. QED
  BY <1>1, <1>3, <1>4, <1>5, <1>6, Zenon DEF FilesInv, ReadInv

\* What the removal of the old file does to the files of the sectors.
LEMMA RemoveOldFiles ==
  ASSUME IInv, FilesInv, NEW i \in Sector, RemoveOld(i)
  PROVE  /\ copy[i] \in Copy
         /\ FilesIn(dir', i) = {f \in Renamed(settled[i], copy[i]) : ~SameVersion(f, old[i])}
         /\ \A j \in Sector : j # i => FilesIn(dir', j) = FilesIn(dir, j)
         /\ \A f \in dir' : f \in dir
<1>1. phase = "running" /\ step[i] = "mapped" /\ dir' = Remove(dir, OldFile(i))
  BY Zenon DEF RemoveOld, At
<1>2. copy[i] \in Copy /\ FilesIn(dir, i) = Renamed(settled[i], copy[i]) /\ Sound(dir)
  BY <1>1, Zenon DEF IInv, FilesInv, SectorInv, FilesOf
<1>3. OldFile(i).tmp = FALSE /\ OldFile(i).idx = i /\ OldFile(i).ts = old[i].ts /\ OldFile(i).wr = old[i].wr
  BY Zenon DEF OldFile, SectorFile
<1>4. FilesIn(dir', i) = {f \in FilesIn(dir, i) : ~SameVersion(f, OldFile(i))}
  BY <1>1, <1>2, <1>3, RemoveFile, Zenon
<1>5. \A f : SameVersion(f, OldFile(i)) <=> SameVersion(f, old[i])
  BY <1>3, Zenon DEF SameVersion
<1>6. \A j \in Sector : j # i => FilesIn(dir', j) = FilesIn(dir, j)
  BY <1>1, <1>3, RemoveOther, Zenon
<1>7. \A f \in dir' : f \in dir
  BY <1>1, Zenon DEF Remove
<1>8. QED
  BY <1>2, <1>4, <1>5, <1>6, <1>7, Zenon

\* The removal of the old file: what is left is at rest.
LEMMA RemoveOldKeepsFilesInv ==
  ASSUME IInv, IInv', FilesInv, NEW i \in Sector, RemoveOld(i)
  PROVE  FilesInv'
<1>1. /\ phase = "running" /\ phase' = "running" /\ step[i] = "mapped"
      /\ UNCHANGED data_access
  BY Zenon DEF RemoveOld, At
<1>2. /\ step'[i] = "idle" /\ copy'[i] = None /\ old'[i] = NoVersion /\ known'[i] = copy[i]
      /\ \A j \in Sector : j # i => /\ step'[j] = step[j] /\ old'[j] = old[j] /\ copy'[j] = copy[j]
                                    /\ known'[j] = known[j] /\ settled'[j] = settled[j]
  BY Zenon DEF RemoveOld, IInv, Shapes, FilesInv
<1>3. settled' = [settled EXCEPT ![i] = FilesIn(dir', i)] /\ settled'[i] = FilesIn(dir', i)
  BY Zenon DEF RemoveOld, FilesInv, FilesOf
<1>4. settled' \in [Sector -> SUBSET Cell]
  <2>1. FilesIn(dir', i) \in SUBSET Cell
    BY FilesSound, Zenon DEF IInv
  <2>2. QED
    BY <1>3, <2>1, Zenon DEF FilesInv
<1>5. old' \in [Sector -> [ts : Nat, wr : Nat]]
  BY Zenon DEF RemoveOld, FilesInv, NoVersion
<1>6. SectorInv(i)'
  <2>1. SectorInv(i) /\ known[i] # None
    BY <1>1, Zenon DEF FilesInv, IInv, WriteInv
  <2>2. /\ copy[i] \in Copy /\ copy[i] # None /\ copy[i] # InitialCopy
        /\ copy[i].ts \in Nat /\ copy[i].wr \in Nat
    BY RemoveOldFiles, CopyAssumption DEF InitialCopy
  <2>3. settled'[i] = {f \in Renamed(settled[i], copy[i]) : ~SameVersion(f, old[i])}
    BY <1>3, RemoveOldFiles, Zenon
  <2>4. /\ \A f \in settled[i] : SameVersion(f, old[i])
        /\ data_access[i] = VersionOf(copy[i]) /\ old[i] = VersionOf(known[i])
        /\ i \in Rising => Newer(copy[i], known[i])
    BY <1>1, <2>1, Zenon DEF SectorInv, Base
  <2>5. \A f \in settled'[i] : f = copy[i]
    BY <2>3, <2>4, Zenon DEF Renamed
  <2>6. \A f \in settled'[i] : SameVersion(f, data_access[i])
    BY <2>4, <2>5 DEF SameVersion, VersionOf
  <2>7. i \in Rising => settled'[i] = {copy[i]}
    <3>1. i \in Rising => ~SameVersion(copy[i], old[i])
      BY <2>2, <2>4 DEF SameVersion, VersionOf, Newer
    <3>2. copy[i] \in Renamed(settled[i], copy[i])
      BY Zenon DEF Renamed
    <3>3. QED
      BY <2>3, <2>5, <3>1, <3>2, Zenon
  <2>8. QED
    BY <1>1, <1>2, <1>3, <2>2, <2>4, <2>6, <2>7, Zenon DEF SectorInv, Base, FilesOf
<1>7. ASSUME NEW j \in Sector, j # i PROVE SectorInv(j)'
  <2>1. SectorInv(j) /\ FilesIn(dir', j) = FilesIn(dir, j)
    BY <1>1, <1>7, RemoveOldFiles, Zenon DEF FilesInv
  <2>2. QED
    BY <1>1, <1>2, <1>7, <2>1, SectorKept, Zenon
<1>8. TmpInv'
  <2>1. \A f \in dir' : f \in dir /\ (f.tmp => f.idx # i /\ f.idx \in Sector)
    BY <1>1, RemoveOldFiles, Zenon DEF IInv, Sound, Entry, FilesInv, TmpInv
  <2>2. QED
    BY <1>1, <1>2, <2>1, Zenon DEF FilesInv, TmpInv
<1>9. QED
  BY <1>1, <1>4, <1>5, <1>6, <1>7, <1>8, Zenon DEF FilesInv, ReadInv

\* The panic leaves the write where it was.
LEMMA RemoveOldFailsKeepsFilesInv ==
  ASSUME IInv, FilesInv, NEW i \in Sector, RemoveOldFails(i)
  PROVE  FilesInv'
<1>1. /\ phase = "running" /\ phase' = "running" /\ step[i] = "mapped"
      /\ UNCHANGED <<dir, data_access, old, known, settled, copy>>
  BY Zenon DEF RemoveOldFails, At
<1>2. step'[i] = "panicked" /\ \A j \in Sector : j # i => step'[j] = step[j]
  BY Zenon DEF RemoveOldFails, IInv, Shapes
<1>3. SectorInv(i)'
  <2>1. SectorInv(i)
    BY <1>1, Zenon DEF FilesInv
  <2>2. QED
    BY <1>1, <1>2, <2>1, Zenon DEF SectorInv, Base, FilesOf
<1>4. ASSUME NEW j \in Sector, j # i PROVE SectorInv(j)'
  BY <1>1, <1>2, <1>4, SectorKept, Zenon DEF FilesInv
<1>5. TmpInv'
  <2>1. \A f \in dir : f.tmp => f.idx # i /\ f.idx \in Sector
    BY <1>1, Zenon DEF IInv, Sound, Entry, FilesInv, TmpInv
  <2>2. QED
    BY <1>1, <1>2, <2>1, Zenon DEF FilesInv, TmpInv
<1>6. QED
  BY <1>1, <1>3, <1>4, <1>5, Zenon DEF FilesInv, ReadInv

\* A crash cuts the writes before their rename, or after it.
LEMMA CrashKeepsFilesInv ==
  ASSUME IInv, FilesInv, Crash
  PROVE  FilesInv'
<1>1. /\ phase' = "down" /\ UNCHANGED <<dir, copy, settled>>
      /\ old' = [i \in Sector |-> NoVersion] /\ known' = [i \in Sector |-> None]
  BY Zenon DEF Crash, GoDown
<1>2. old' \in [Sector -> [ts : Nat, wr : Nat]]
  BY <1>1, Zenon DEF NoVersion
<1>3. ASSUME NEW i \in Sector PROVE CutInv(i)'
  <2>1. CASE phase = "running"
    <3>1. SectorInv(i)
      BY <2>1, Zenon DEF FilesInv
    <3>2. QED
      BY <1>1, <3>1, Zenon DEF SectorInv, CutInv, FilesOf
  <2>2. CASE phase # "running"
    BY <1>1, <2>2, Zenon DEF FilesInv, CutInv, FilesOf
  <2>3. QED
    BY <2>1, <2>2, Zenon
<1>4. QED
  BY <1>1, <1>2, <1>3, Zenon DEF FilesInv, TmpInv, ReadInv

\* A flush changes the disk only.
LEMMA FlushKeepsFilesInv ==
  ASSUME FilesInv, Flush
  PROVE  FilesInv'
<1>1. UNCHANGED <<dir, data_access, phase, unread, step, copy, old, known, settled>>
  BY Zenon DEF Flush
<1>2. QED
  BY <1>1, Zenon DEF FilesInv, SectorInv, CutInv, FilesOf, Base, TmpInv, ReadInv

\* After a power failure what the disk has is at rest.
LEMMA PowerFailureKeepsFilesInv ==
  ASSUME IInv, FilesInv, PowerFailure
  PROVE  FilesInv'
<1>1. /\ phase' = "down" /\ dir' = kept /\ copy' = [i \in Sector |-> None]
      /\ settled' = [i \in Sector |-> FilesIn(kept, i)]
      /\ old' = [i \in Sector |-> NoVersion] /\ known' = [i \in Sector |-> None]
  BY Zenon DEF PowerFailure, GoDown
<1>2. old' \in [Sector -> [ts : Nat, wr : Nat]]
  BY <1>1, Zenon DEF NoVersion
<1>3. settled' \in [Sector -> SUBSET Cell]
  BY <1>1, FilesSound, Zenon DEF IInv
<1>4. ASSUME NEW i \in Sector PROVE CutInv(i)'
  BY <1>1, Zenon DEF CutInv, FilesOf
<1>5. QED
  BY <1>1, <1>2, <1>3, <1>4, Zenon DEF FilesInv, TmpInv, ReadInv

\* read_dir has yielded no entry yet.
LEMMA RestartKeepsFilesInv ==
  ASSUME FilesInv, Restart
  PROVE  FilesInv'
<1>1. /\ phase = "down" /\ phase' = "recovering" /\ unread' = dir
      /\ UNCHANGED <<dir, copy, old, known, settled>>
  BY Zenon DEF Restart
<1>2. QED
  BY <1>1, Zenon DEF FilesInv, CutInv, FilesOf, TmpInv, ReadInv

\* An entry of the recovery: the newest file stays, and data_access names what was kept.
LEMMA RecoverEntryKeepsFilesInv ==
  ASSUME IInv, FilesInv, NEW e \in unread, RecoverEntry(e)
  PROVE  FilesInv'
<1>1. /\ phase = "recovering" /\ phase' = "recovering" /\ unread' = unread \ {e}
      /\ UNCHANGED <<copy, old, known, settled>>
  BY Zenon DEF RecoverEntry
<1>2. ASSUME NEW i \in Sector PROVE CutInv(i)'
  BY <1>1, RecoverEntryFiles, Zenon DEF FilesInv, CutInv, FilesOf
<1>3. /\ e \in dir /\ e.idx \in Sector /\ (e.tmp => e.tmp = TRUE) /\ (~e.tmp => e.tmp = FALSE)
      /\ data_access \in [Sector -> [ts : Nat, wr : Nat]]
  BY <1>1, Zenon DEF IInv, UnreadInv, Sound, Entry, Shapes
<1>4. ASSUME NEW f \in dir'
      PROVE  f \in unread' \/ (~f.tmp /\ SameVersion(f, data_access'[f.idx]))
  <2>1. f \in dir /\ f.idx \in Sector /\ (~f.tmp => f.tmp = FALSE)
    BY <1>4 DEF RecoverEntry, Remove, IInv, Sound, Entry
  <2>2. f \in unread \/ (~f.tmp /\ SameVersion(f, data_access[f.idx]))
    BY <1>1, <2>1, Zenon DEF FilesInv, ReadInv
  <2>3. CASE e.tmp \/ (~e.tmp /\ data_access[e.idx] # NoVersion /\ ~Newer(e, data_access[e.idx]))
    <3>1. dir' = Remove(dir, e) /\ data_access' = data_access
      BY <2>3, Zenon DEF RecoverEntry
    <3>2. f # e
      BY <1>4, <3>1, Zenon DEF Remove, SameName, SameVersion
    <3>3. QED
      BY <1>1, <2>2, <3>1, <3>2, Zenon
  <2>4. CASE ~e.tmp /\ (data_access[e.idx] = NoVersion \/ Newer(e, data_access[e.idx]))
    <3>1. data_access' = [data_access EXCEPT ![e.idx] = VersionOf(e)]
      BY <2>4, Zenon DEF RecoverEntry
    <3>2. /\ data_access'[e.idx] = VersionOf(e)
          /\ \A j \in Sector : j # e.idx => data_access'[j] = data_access[j]
      BY <1>3, <3>1, Zenon
    <3>3. CASE f = e
      BY <2>4, <3>2, <3>3 DEF SameVersion, VersionOf
    <3>4. CASE f # e /\ f.idx # e.idx
      BY <1>1, <2>1, <2>2, <3>2, <3>4, Zenon
    <3>5. CASE f # e /\ f.idx = e.idx
      <4>1. ASSUME ~f.tmp, SameVersion(f, data_access[e.idx]) PROVE FALSE
        <5>1. CASE data_access[e.idx] = NoVersion
          BY <2>1, <4>1, <5>1 DEF IInv, Sound, Entry, SameVersion, NoVersion
        <5>2. CASE data_access[e.idx] # NoVersion
          <6>1. dir' = Remove(dir, SectorFile(e.idx, data_access[e.idx], Partial))
            BY <2>4, <5>2, Zenon DEF RecoverEntry
          <6>2. ~SameName(f, SectorFile(e.idx, data_access[e.idx], Partial))
            BY <1>4, <6>1, Zenon DEF Remove
          <6>3. QED
            BY <2>1, <3>5, <4>1, <6>2, Zenon DEF SameName, SameVersion, SectorFile
        <5>3. QED
          BY <5>1, <5>2, Zenon
      <4>2. QED
        BY <1>1, <2>2, <3>5, <4>1, Zenon
    <3>6. QED
      BY <3>3, <3>4, <3>5, Zenon
  <2>5. QED
    BY <2>3, <2>4, Zenon
<1>5. QED
  BY <1>1, <1>2, <1>4, Zenon DEF FilesInv, TmpInv, ReadInv

\* At the end of the recovery every file is the one that data_access names.
LEMMA RecoveryEndsKeepsFilesInv ==
  ASSUME IInv, FilesInv, RecoveryEnds
  PROVE  FilesInv'
<1>1. /\ phase = "recovering" /\ phase' = "running" /\ unread = {}
      /\ copy' = [i \in Sector |-> None] /\ settled' = [i \in Sector |-> FilesOf(i)]
      /\ UNCHANGED <<dir, data_access, step, old, known>>
  BY Zenon DEF RecoveryEnds
<1>2. settled' \in [Sector -> SUBSET Cell]
  BY <1>1, FilesSound, Zenon DEF IInv, FilesOf
<1>3. \A f \in dir : ~f.tmp /\ SameVersion(f, data_access[f.idx])
  BY <1>1, Zenon DEF FilesInv, ReadInv
<1>4. ASSUME NEW i \in Sector PROVE SectorInv(i)'
  <2>1. step[i] = "idle" /\ known[i] = None
    BY <1>1, Zenon DEF IInv, DownInv, FilesInv, CutInv
  <2>2. \A x \in FilesIn(dir, i) : SameVersion(x, data_access[i])
    BY <1>3, InFiles, CopyFields DEF SameVersion
  <2>3. QED
    BY <1>1, <2>1, <2>2, Zenon DEF SectorInv, Base, FilesOf
<1>5. QED
  BY <1>1, <1>2, <1>3, <1>4, Zenon DEF FilesInv, TmpInv, ReadInv

\* The second invariant is inductive: one case per action.
LEMMA NextKeepsFilesInv == IInv /\ IInv' /\ FilesInv /\ [Next]_vars => FilesInv'
<1> SUFFICES ASSUME IInv, IInv', FilesInv, [Next]_vars PROVE FilesInv'
  BY Zenon
<1>1. ASSUME NEW i \in Sector, Load(i) PROVE FilesInv'
  BY <1>1, LoadKeepsFilesInv, Zenon
<1>2. ASSUME NEW i \in Sector, NEW c \in Copy, Write(i, c) PROVE FilesInv'
  BY <1>2, WriteKeepsFilesInv, Zenon
<1>3. ASSUME NEW i \in Sector, FillTmp(i) PROVE FilesInv'
  BY <1>3, FillTmpKeepsFilesInv
<1>4. ASSUME NEW i \in Sector, SyncTmp(i) PROVE FilesInv'
  BY <1>4, SyncTmpKeepsFilesInv
<1>5. ASSUME NEW i \in Sector, RenameTmp(i) PROVE FilesInv'
  BY <1>5, RenameTmpKeepsFilesInv
<1>6. ASSUME NEW i \in Sector, UpdateMap(i) PROVE FilesInv'
  BY <1>6, UpdateMapKeepsFilesInv
<1>7. ASSUME NEW i \in Sector, RemoveOld(i) PROVE FilesInv'
  BY <1>7, RemoveOldKeepsFilesInv, Zenon
<1>8. ASSUME NEW i \in Sector, RemoveOldFails(i) PROVE FilesInv'
  BY <1>8, RemoveOldFailsKeepsFilesInv
<1>9. CASE Crash
  BY <1>9, CrashKeepsFilesInv, Zenon
<1>10. CASE Flush
  BY <1>10, FlushKeepsFilesInv, Zenon
<1>11. CASE PowerFailure
  BY <1>11, PowerFailureKeepsFilesInv
<1>12. CASE Restart
  BY <1>12, RestartKeepsFilesInv
<1>13. ASSUME NEW e \in unread, RecoverEntry(e) PROVE FilesInv'
  BY <1>13, RecoverEntryKeepsFilesInv, Zenon
<1>14. CASE RecoveryEnds
  BY <1>14, RecoveryEndsKeepsFilesInv
<1>15. CASE UNCHANGED vars
  BY <1>15, Zenon DEF vars, FilesInv, SectorInv, CutInv, FilesOf, Base, TmpInv, ReadInv
<1>16. QED
  BY <1>1, <1>2, <1>3, <1>4, <1>5, <1>6, <1>7, <1>8, <1>9, <1>10, <1>11, <1>12, <1>13, <1>14, <1>15, Zenon
     DEF Next

\* Both invariants hold of every state.
THEOREM Invariance == Spec => [](IInv /\ FilesInv)
BY InitIInv, NextKeepsIInv, InitFilesInv, NextKeepsFilesInv, PTL DEF Spec

\* For any number of sectors, any versions, and any number of crashes, power failures
\* and interrupted recoveries, the directory of a process with no write in progress
\* holds at most one file per sector and no temporary file: the removals of write()
\* and of sectors_crash_recovery leave nothing behind.
THEOREM AtMostOneFile == Spec => []QuietDirectory
<1>1. IInv /\ FilesInv => QuietDirectory
  <2> SUFFICES ASSUME IInv, FilesInv, phase = "running", \A i \in Sector : step[i] = "idle"
               PROVE  /\ \A f \in dir : ~f.tmp
                      /\ \A i \in Sector : Cardinality(FilesOf(i)) <= 1
    BY Zenon DEF QuietDirectory
  <2>1. \A f \in dir : ~f.tmp
    BY Zenon DEF FilesInv, TmpInv, IInv, Sound, Entry
  <2>2. ASSUME NEW i \in Sector PROVE Cardinality(FilesOf(i)) <= 1
    <3>1. \A f \in FilesOf(i) : SameVersion(f, data_access[i])
      BY Zenon DEF FilesInv, SectorInv, Base
    <3>2. \A f, g \in FilesOf(i) : SameVersion(f, g)
      BY <3>1, Zenon DEF SameVersion
    <3>3. \A f, g \in FilesOf(i) : f = g
      BY <3>2, FilesSound, Zenon DEF IInv, FilesOf
    <3>4. CASE FilesOf(i) = {}
      BY <3>4, FS_EmptySet
    <3>5. CASE FilesOf(i) # {}
      <4>1. PICK f : FilesOf(i) = {f}
        BY <3>3, <3>5, Zenon
      <4>2. Cardinality({f}) = 1
        BY FS_Singleton, Zenon
      <4>3. QED
        BY <4>1, <4>2
    <3>6. QED
      BY <3>4, <3>5, Zenon
  <2>3. QED
    BY <2>1, <2>2, Zenon
<1>2. QED
  BY Invariance, <1>1, PTL

-----------------------------------------------------------------------------
(***************************************************************************)
(* A write is one step                                                     *)
(***************************************************************************)
\* The file that write() removes is there when the files of its sector say so.
LEMMA OldFileFound ==
  ASSUME IInv, FilesInv, NEW i \in Sector, phase = "running", step[i] = "mapped"
  PROVE  /\ copy[i] \in Copy /\ settled[i] \subseteq Cell
         /\ old[i] = VersionOf(known[i]) /\ FilesOf(i) = Renamed(settled[i], copy[i])
         /\ Exists(dir, OldFile(i)) <=> \E f \in Renamed(settled[i], copy[i]) : SameVersion(f, old[i])
<1>1. /\ SectorInv(i) /\ known[i] # None /\ copy[i] \in Copy /\ Sound(dir)
      /\ settled[i] \subseteq Cell
  BY Zenon DEF FilesInv, IInv, WriteInv
<1>2. old[i] = VersionOf(known[i]) /\ FilesOf(i) = Renamed(settled[i], copy[i])
  BY <1>1, Zenon DEF SectorInv, Base
<1>3. OldFile(i).tmp = FALSE /\ OldFile(i).idx = i /\ OldFile(i).ts = old[i].ts /\ OldFile(i).wr = old[i].wr
  BY Zenon DEF OldFile, SectorFile
<1>4. \A f \in dir : SameName(f, OldFile(i)) <=> ~f.tmp /\ f.idx = i /\ SameVersion(CopyIn(f), old[i])
  BY <1>1, <1>3, CopyFields, Zenon DEF Sound, Entry, SameName, SameVersion
<1>5. Exists(dir, OldFile(i)) <=> \E f \in FilesIn(dir, i) : SameVersion(f, old[i])
  BY <1>4, InFiles DEF Exists
<1>6. QED
  BY <1>1, <1>2, <1>5, Zenon DEF FilesOf

\* No file has the version of a sector without one.
LEMMA VersionsCount ==
  ASSUME NEW S \in SUBSET Cell, NEW c \in Copy
  PROVE  \A f \in Renamed(S, c) : ~SameVersion(f, NoVersion)
<1>1. c.ts # 0
  BY CopyAssumption, Zenon
<1>2. \A f \in S : f.ts # 0
  BY Zenon DEF Cell
<1>3. QED
  BY <1>1, <1>2, Zenon DEF Renamed, SameVersion, NoVersion

\* write() returns,
LEMMA RemoveOldIsAfterWrite ==
  ASSUME IInv, FilesInv, NEW i \in Sector, RemoveOld(i)
  PROVE  /\ OldFileExists(settled[i], VersionOf(known[i]), copy[i])
         /\ FilesOf(i)' = AfterWrite(settled[i], VersionOf(known[i]), copy[i])
<1>1. phase = "running" /\ step[i] = "mapped" /\ (old[i] = NoVersion \/ Exists(dir, OldFile(i)))
  BY Zenon DEF RemoveOld, At
<1>2. /\ copy[i] \in Copy /\ settled[i] \subseteq Cell /\ old[i] = VersionOf(known[i])
      /\ Exists(dir, OldFile(i)) <=> \E f \in Renamed(settled[i], copy[i]) : SameVersion(f, old[i])
  BY <1>1, OldFileFound, Zenon
<1>3. FilesIn(dir', i) = {f \in Renamed(settled[i], copy[i]) : ~SameVersion(f, old[i])}
  BY RemoveOldFiles, Zenon
<1>4. \A f \in Renamed(settled[i], copy[i]) :
         ~SameVersion(f, old[i]) <=> (old[i] = NoVersion \/ ~SameVersion(f, old[i]))
  BY <1>2, VersionsCount, Zenon
<1>5. QED
  BY <1>1, <1>2, <1>3, <1>4, Zenon DEF OldFileExists, AfterWrite, FilesOf

\* it panics,
LEMMA RemoveOldFailsIsPanic ==
  ASSUME IInv, FilesInv, NEW i \in Sector, RemoveOldFails(i)
  PROVE  /\ ~OldFileExists(settled[i], VersionOf(known[i]), copy[i])
         /\ FilesOf(i)' = Renamed(settled[i], copy[i])
<1>1. /\ phase = "running" /\ step[i] = "mapped" /\ dir' = dir
      /\ old[i] # NoVersion /\ ~Exists(dir, OldFile(i))
  BY Zenon DEF RemoveOldFails, At
<1>2. QED
  BY <1>1, OldFileFound, Zenon DEF OldFileExists, FilesOf

\* and the recovery ends.
LEMMA RecoveryLeavesNewest ==
  ASSUME IInv, FilesInv, NEW i \in Sector, RecoveryEnds
  PROVE  \/ FilesOf(i)' = Newest(settled[i])
         \/ copy[i] # None /\ FilesOf(i)' = Newest(Renamed(settled[i], copy[i]))
<1>1. phase = "recovering" /\ unread = {} /\ dir' = dir
  BY Zenon DEF RecoveryEnds
<1>2. \A f \in dir : ~f.tmp /\ SameVersion(f, data_access[f.idx])
  BY <1>1, Zenon DEF FilesInv, ReadInv
<1>3. \A x \in FilesOf(i) : x.ts = data_access[i].ts /\ x.wr = data_access[i].wr
  BY <1>2, InFiles, CopyFields DEF SameVersion, FilesOf
<1>4. data_access[i].ts \in Nat /\ data_access[i].wr \in Nat
  BY Zenon DEF IInv, Shapes
<1>5. Newest(FilesOf(i)) = FilesOf(i)
  BY <1>3, <1>4 DEF Newest, Newer
<1>6. QED
  BY <1>1, <1>5, Zenon DEF FilesInv, CutInv, FilesOf

\* Whatever the versions, for any number of sectors written at the same time: a write()
\* that returns has changed the files of its sector as the one-step write AfterWrite
\* does, it panics exactly when the file it should remove is not there, and a recovery
\* leaves what a cut before the rename, or after it, leaves. AtomicRegister rests on it.
THEOREM WritesAreAtomic == Spec => WriteIsOneStep
<1> DEFINE Clauses(i) ==
      /\ (step[i] = "mapped" /\ step'[i] = "idle" /\ phase' = "running") =>
            /\ OldFileExists(settled[i], VersionOf(known[i]), copy[i])
            /\ FilesOf(i)' = AfterWrite(settled[i], VersionOf(known[i]), copy[i])
      /\ (step[i] = "mapped" /\ step'[i] = "panicked") =>
            /\ ~OldFileExists(settled[i], VersionOf(known[i]), copy[i])
            /\ FilesOf(i)' = Renamed(settled[i], copy[i])
      /\ (phase = "recovering" /\ phase' = "running") =>
            \/ FilesOf(i)' = Newest(settled[i])
            \/ copy[i] # None /\ FilesOf(i)' = Newest(Renamed(settled[i], copy[i]))
<1>1. ASSUME IInv, FilesInv, [Next]_vars, NEW i \in Sector PROVE Clauses(i)
  <2>1. phase # "running" => step[i] = "idle"
    BY <1>1, Zenon DEF IInv, DownInv
  <2>2. step = [j \in Sector |-> step[j]]
    BY <1>1, Zenon DEF IInv, Shapes
  <2>3. CASE \E j \in Sector : RemoveOld(j)
    <3>1. PICK j \in Sector : RemoveOld(j)
      BY <2>3, Zenon
    <3>2. phase = "running" /\ phase' = "running" /\ step' = [step EXCEPT ![j] = "idle"]
      BY <3>1, Zenon DEF RemoveOld, At
    <3>3. CASE j = i
      BY <1>1, <2>2, <3>1, <3>2, <3>3, RemoveOldIsAfterWrite, Zenon
    <3>4. CASE j # i
      BY <2>2, <3>2, <3>4, Zenon
    <3>5. QED
      BY <3>3, <3>4, Zenon
  <2>4. CASE \E j \in Sector : RemoveOldFails(j)
    <3>1. PICK j \in Sector : RemoveOldFails(j)
      BY <2>4
    <3>2. phase = "running" /\ phase' = "running" /\ step' = [step EXCEPT ![j] = "panicked"]
      BY <3>1, Zenon DEF RemoveOldFails, At
    <3>3. CASE j = i
      BY <1>1, <2>2, <3>1, <3>2, <3>3, RemoveOldFailsIsPanic, Zenon
    <3>4. CASE j # i
      BY <2>2, <3>2, <3>4, Zenon
    <3>5. QED
      BY <3>3, <3>4
  <2>5. CASE RecoveryEnds
    <3>1. phase = "recovering" /\ step[i] = "idle"
      BY <2>1, <2>5, Zenon DEF RecoveryEnds
    <3>2. QED
      BY <1>1, <2>5, <3>1, RecoveryLeavesNewest, Zenon
  <2>6. CASE \E j \in Sector : \/ Load(j) \/ \E c \in Copy : Write(j, c)
                               \/ FillTmp(j) \/ SyncTmp(j) \/ RenameTmp(j) \/ UpdateMap(j)
    <3>1. PICK j \in Sector :
            /\ phase = "running" /\ phase' = "running"
            /\ \/ step' = step
               \/ \E s \in {"created", "filled", "synced", "renamed", "mapped"} : step' = [step EXCEPT ![j] = s]
      BY <2>2, <2>6, Zenon DEF Load, Write, FillTmp, SyncTmp, RenameTmp, UpdateMap, At
    <3>2. QED
      BY <2>2, <3>1, Zenon
  <2>7. CASE Crash \/ PowerFailure
    <3>1. phase' = "down" /\ step'[i] = "idle"
      BY <2>7, Zenon DEF Crash, PowerFailure, GoDown
    <3>2. QED
      BY <3>1, Zenon
  <2>8. CASE Flush \/ Restart \/ (\E e \in unread : RecoverEntry(e)) \/ UNCHANGED vars
    <3>1. step' = step /\ (phase' = phase \/ phase' = "recovering")
      BY <2>8, Zenon DEF Flush, Restart, RecoverEntry, vars
    <3>2. QED
      BY <3>1, Zenon
  <2>9. QED
    BY <1>1, <2>3, <2>4, <2>5, <2>6, <2>7, <2>8, Zenon DEF Next
<1>2. IInv /\ FilesInv /\ [Next]_vars => [\A i \in Sector : Clauses(i)]_vars
  BY <1>1, Zenon
<1>3. QED
  BY Invariance, <1>2, PTL DEF Spec, WriteIsOneStep

-----------------------------------------------------------------------------
(***************************************************************************)
(* The directory implements the store                                      *)
(***************************************************************************)
\* What a restart finds depends on the newest file only,
LEMMA SameContent ==
  ASSUME NEW d, NEW e, NEW i, Newest(FilesIn(d, i)) = Newest(FilesIn(e, i))
  PROVE  Content(d, i) = Content(e, i)
BY DEF Content

\* it finds the copy of a sector at rest,
LEMMA RestContent ==
  ASSUME NEW d, NEW i, NEW k \in Cell \union {InitialCopy},
         FilesIn(d, i) = IF k = InitialCopy THEN {} ELSE {k}
  PROVE  Content(d, i) = k
<1>1. CASE k = InitialCopy
  BY <1>1, Zenon DEF Content, Newest
<1>2. CASE k # InitialCopy
  <2>1. ~Newer(k, k)
    BY <1>2 DEF Newer, Cell
  <2>2. Newest(FilesIn(d, i)) = {k}
    BY <1>2, <2>1, Zenon DEF Newest
  <2>3. QED
    BY <2>2, Zenon DEF Content
<1>3. QED
  BY <1>1, <1>2, Zenon

\* and the new copy of a sector once the temporary file is renamed.
LEMMA RenamedContent ==
  ASSUME NEW d, NEW i, NEW k \in Cell \union {InitialCopy}, NEW c \in Copy, Newer(c, k),
         FilesIn(d, i) = Renamed(IF k = InitialCopy THEN {} ELSE {k}, c)
  PROVE  Content(d, i) = c
<1>1. k.ts \in Nat /\ k.wr \in Nat /\ c.ts \in Nat /\ c.wr \in Nat
  BY CopyAssumption DEF Cell, InitialCopy
<1>2. ~Newer(c, c) /\ ~Newer(k, c)
  BY <1>1 DEF Newer
<1>3. c \in FilesIn(d, i) /\ \A x \in FilesIn(d, i) : x = c \/ x = k
  BY Zenon DEF Renamed
<1>4. Newest(FilesIn(d, i)) = {c}
  BY <1>2, <1>3, Zenon DEF Newest
<1>5. QED
  BY <1>4, Zenon DEF Content

\* What the register of a Rising sector knows, and what the directory has for it.
LEMMA RisingContent ==
  ASSUME IInv, FilesInv, NEW i \in Rising, phase = "running", known[i] # None
  PROVE  /\ known[i] \in Cell \union {InitialCopy}
         /\ step[i] \in {"renamed", "mapped", "panicked"} => copy[i] \in Copy /\ Content(dir, i) = copy[i]
<1>1. i \in Sector /\ SectorInv(i) /\ settled[i] \subseteq Cell
  BY BoundsAssumption, Zenon DEF FilesInv
<1>2. settled[i] = IF known[i] = InitialCopy THEN {} ELSE {known[i]}
  BY <1>1, Zenon DEF SectorInv
<1>3. known[i] \in Cell \union {InitialCopy}
  BY <1>1, <1>2, Zenon
<1>4. ASSUME step[i] \in {"renamed", "mapped", "panicked"} PROVE copy[i] \in Copy /\ Content(dir, i) = copy[i]
  <2>1. copy[i] \in Copy /\ Newer(copy[i], known[i]) /\ FilesIn(dir, i) = Renamed(settled[i], copy[i])
    BY <1>1, <1>4, Zenon DEF SectorInv, FilesOf
  <2>2. QED
    BY <1>2, <1>3, <2>1, RenamedContent, Zenon
<1>5. QED
  BY <1>3, <1>4, Zenon

\* A step that changes no sector file, and nothing the registers of Rising sectors see.
LEMMA Stutter ==
  ASSUME \A j \in Rising : Content(dir', j) = Content(dir, j),
         \A j \in Rising : Content(kept', j) = Content(kept, j),
         \A j \in Rising : known'[j] = known[j],
         phase' = "running" <=> phase = "running",
         phase = "running" => \A j \in Rising : copy'[j] = copy[j]
  PROVE  UNCHANGED Store!vars
BY Zenon DEF Store!vars

\* An empty directory is a store of initial copies.
LEMMA InitStore == Init => Store!Init
<1> SUFFICES ASSUME Init PROVE Store!Init
  OBVIOUS
<1>1. \A i \in Rising : Content(dir, i) = InitialCopy /\ Content(kept, i) = InitialCopy
  BY RestContent, Zenon DEF Init, FilesIn
<1>2. QED
  BY <1>1, BoundsAssumption, Zenon DEF Init, Store!Init

\* read_metadata and read_data find what the cell holds.
LEMMA LoadFindsContent ==
  ASSUME IInv, FilesInv, NEW i \in Sector, Load(i)
  PROVE  known'[i] = Content(dir, i)
<1>1. phase = "running" /\ known[i] = None
  BY Zenon DEF Load
<1>2. \A f \in FilesIn(dir, i) : SameVersion(f, data_access[i])
  BY <1>1, Zenon DEF IInv, FilesInv, WriteInv, SectorInv, Base, FilesOf
<1>3. FilesIn(dir, i) \subseteq Cell /\ \A x, y \in FilesIn(dir, i) : SameVersion(x, y) => x = y
  BY FilesSound, Zenon DEF IInv
<1>4. CASE data_access[i] = NoVersion
  <2>1. FilesIn(dir, i) = {}
    BY <1>2, <1>3, <1>4 DEF Cell, SameVersion, NoVersion
  <2>2. known'[i] = InitialCopy
    BY <1>4 DEF Load, IInv, Shapes
  <2>3. QED
    BY <2>1, <2>2, RestContent, Zenon
<1>5. CASE data_access[i] # NoVersion
  <2>1. PICK f \in FilesIn(dir, i) : known'[i] = f
    BY <1>5, Zenon DEF Load, IInv, Shapes, FilesOf
  <2>2. \A g \in FilesIn(dir, i) : g = f
    BY <1>2, <1>3, Zenon DEF SameVersion
  <2>3. f \in Cell /\ f # InitialCopy /\ FilesIn(dir, i) = {f}
    BY <1>3, <2>2 DEF Cell, InitialCopy
  <2>4. QED
    BY <2>1, <2>3, RestContent, Zenon
<1>6. QED
  BY <1>4, <1>5, Zenon

\* Building the register of i loads the cell.
LEMMA LoadSimulation ==
  ASSUME IInv, FilesInv, NEW i \in Sector, Load(i)
  PROVE  [Store!Next]_Store!vars
<1>1. /\ phase = "running" /\ known[i] = None
      /\ UNCHANGED <<dir, kept, phase, copy>>
      /\ \A j \in Sector : j # i => known'[j] = known[j]
  BY Zenon DEF Load, disk, IInv, Shapes
<1>2. CASE i \in Rising
  <2>1. [j \in Rising |-> known'[j]] = [[j \in Rising |-> known[j]] EXCEPT ![i] = Content(dir, i)]
    BY <1>1, <1>2, BoundsAssumption, LoadFindsContent, Zenon
  <2>2. Store!Load(i)
    BY <1>1, <1>2, <2>1, Zenon DEF Store!Load
  <2>3. QED
    BY <1>2, <2>2, Zenon DEF Store!Next
<1>3. CASE i \notin Rising
  BY <1>1, <1>3, BoundsAssumption, Stutter, Zenon
<1>4. QED
  BY <1>2, <1>3, Zenon

\* The creation of the temporary file is the call of the write.
LEMMA WriteSimulation ==
  ASSUME IInv, FilesInv, NEW i \in Sector, NEW c \in Copy, Write(i, c)
  PROVE  [Store!Next]_Store!vars
<1>1. /\ phase = "running" /\ step[i] = "idle" /\ known[i] # None
      /\ UNCHANGED <<kept, phase, known>>
      /\ dir' = Put(dir, TmpFile(i, c, Partial))
  BY Zenon DEF Write, At, NotOnDisk
<1>2. copy'[i] = c /\ \A j \in Sector : j # i => copy'[j] = copy[j]
  BY Zenon DEF Write, IInv, Shapes
<1>3. \A j : FilesIn(dir', j) = FilesIn(dir, j)
  BY <1>1, PartialTmp, PutTmpFiles, Zenon
<1>4. \A j : Content(dir', j) = Content(dir, j)
  BY <1>3, SameContent, Zenon
<1>5. CASE i \in Rising
  <2>1. copy[i] = None
    BY <1>1, Zenon DEF FilesInv, SectorInv
  <2>2. [j \in Rising |-> copy'[j]] = [[j \in Rising |-> copy[j]] EXCEPT ![i] = c]
    BY <1>2, <1>5, BoundsAssumption, Zenon
  <2>3. Store!Call(i)
    BY <1>1, <1>4, <1>5, <2>1, <2>2, Zenon DEF Store!Call
  <2>4. QED
    BY <1>5, <2>3, Zenon DEF Store!Next
<1>6. CASE i \notin Rising
  BY <1>1, <1>2, <1>4, <1>6, BoundsAssumption, Stutter, Zenon
<1>7. QED
  BY <1>5, <1>6, Zenon

\* write_all and sync_data.
LEMMA FillSimulation ==
  ASSUME IInv, FilesInv, NEW i \in Sector, FillTmp(i) \/ SyncTmp(i)
  PROVE  UNCHANGED Store!vars
<1> DEFINE t == TmpFile(i, copy[i], copy[i].val)
<1>1. /\ phase = "running" /\ UNCHANGED <<kept, phase, known, copy>>
      /\ step[i] \in {"created", "filled"}
      /\ dir' = Put(dir, t) \/ dir' = Put(dir, [t EXCEPT !.synced = TRUE])
  BY Zenon DEF FillTmp, SyncTmp, At, disk
<1>2. copy[i] \in Copy
  BY <1>1, Zenon DEF IInv, WriteInv
<1>3. t \in Entry /\ t.tmp = TRUE
  <2>1. copy[i].val \in Bytes
    BY <1>2, Zenon DEF Bytes
  <2>2. QED
    BY <1>2, <2>1, CopyAssumption, Zenon DEF TmpFile, SectorFile, Entry
<1> HIDE DEF t
<1>4. [t EXCEPT !.synced = TRUE] \in Entry /\ [t EXCEPT !.synced = TRUE].tmp = TRUE
  BY <1>3, SyncedFields, Zenon
<1>5. \A j : FilesIn(dir', j) = FilesIn(dir, j)
  <2>1. \A j : FilesIn(Put(dir, t), j) = FilesIn(dir, j)
    BY <1>3, PutTmpFiles, Zenon
  <2>2. \A j : FilesIn(Put(dir, [t EXCEPT !.synced = TRUE]), j) = FilesIn(dir, j)
    BY <1>4, PutTmpFiles, Zenon
  <2>3. QED
    BY <1>1, <2>1, <2>2, Zenon
<1>6. \A j : Content(dir', j) = Content(dir, j)
  BY <1>5, SameContent, Zenon
<1>7. QED
  BY <1>1, <1>6, Stutter, Zenon

\* The rename is where a write takes effect.
LEMMA RenameSimulation ==
  ASSUME IInv, FilesInv, IInv', FilesInv', NEW i \in Sector, RenameTmp(i)
  PROVE  [Store!Next]_Store!vars
<1>1. /\ phase = "running" /\ step[i] = "synced" /\ UNCHANGED <<kept, phase, known, copy, settled>>
  BY Zenon DEF RenameTmp, At, NotOnDisk
<1>2. \A j \in Sector : j # i => Content(dir', j) = Content(dir, j)
  BY RenameTmpFiles, SameContent, Zenon
<1>3. CASE i \in Rising
  <2>1. copy[i] \in Copy /\ copy[i] # None /\ FilesIn(dir', i) = Renamed(settled[i], copy[i])
    BY RenameTmpFiles, CopyAssumption, Zenon
  <2>2. /\ known[i] # None /\ Newer(copy[i], known[i])
        /\ settled[i] = IF known[i] = InitialCopy THEN {} ELSE {known[i]}
    BY <1>1, <1>3, Zenon DEF IInv, FilesInv, WriteInv, SectorInv
  <2>3. known[i] \in Cell \union {InitialCopy}
    BY <1>1, <1>3, <2>2, RisingContent, Zenon
  <2>4. Content(dir', i) = copy[i]
    BY <2>1, <2>2, <2>3, RenamedContent, Zenon
  <2>5. [j \in Rising |-> Content(dir', j)] = [[j \in Rising |-> Content(dir, j)] EXCEPT ![i] = copy[i]]
    BY <1>2, <1>3, <2>4, BoundsAssumption, Zenon
  <2>6. Store!TakeEffect(i)
    BY <1>1, <1>3, <2>1, <2>5, Zenon DEF Store!TakeEffect
  <2>7. QED
    BY <1>3, <2>6, Zenon DEF Store!Next
<1>4. CASE i \notin Rising
  BY <1>1, <1>2, <1>4, BoundsAssumption, Stutter, Zenon
<1>5. QED
  BY <1>3, <1>4, Zenon

\* A change of data_access is not seen, nor is a failed removal.
LEMMA MapSimulation ==
  ASSUME NEW i \in Sector, UpdateMap(i) \/ RemoveOldFails(i)
  PROVE  UNCHANGED Store!vars
<1>1. UNCHANGED <<dir, kept, phase, known, copy>>
  BY Zenon DEF UpdateMap, RemoveOldFails, disk
<1>2. QED
  BY <1>1, Stutter, Zenon

\* The removal of the old file is the return.
LEMMA RemoveOldSimulation ==
  ASSUME IInv, FilesInv, FilesInv', NEW i \in Sector, RemoveOld(i)
  PROVE  [Store!Next]_Store!vars
<1>1. phase = "running" /\ step[i] = "mapped" /\ UNCHANGED <<kept, phase>>
  BY Zenon DEF RemoveOld, At, NotOnDisk
<1>2. /\ copy'[i] = None /\ known'[i] = copy[i] /\ step'[i] = "idle"
      /\ \A j \in Sector : j # i => copy'[j] = copy[j] /\ known'[j] = known[j]
  BY Zenon DEF RemoveOld, IInv, Shapes
<1>3. \A j \in Sector : j # i => Content(dir', j) = Content(dir, j)
  BY RemoveOldFiles, SameContent, Zenon
<1>4. CASE i \in Rising
  <2>1. known[i] # None
    BY <1>1, Zenon DEF IInv, WriteInv
  <2>2. copy[i] \in Copy /\ copy[i] # None /\ Content(dir, i) = copy[i]
    BY <1>1, <1>4, <2>1, RisingContent, CopyAssumption, Zenon
  <2>3. FilesIn(dir', i) = IF copy[i] = InitialCopy THEN {} ELSE {copy[i]}
    <3>1. SectorInv(i)'
      BY <1>1, Zenon DEF FilesInv
    <3>2. QED
      BY <1>2, <1>4, <2>2, <3>1, Zenon DEF SectorInv, FilesOf
  <2>4. copy[i] \in Cell
    <3>1. copy[i].val \in Bytes
      BY <2>2, Zenon DEF Bytes
    <3>2. QED
      BY <2>2, <3>1, CopyAssumption, Zenon DEF Cell
  <2>5. Content(dir', i) = copy[i]
    BY <2>3, <2>4, RestContent, Zenon
  <2>6. /\ [j \in Rising |-> known'[j]] = [[j \in Rising |-> known[j]] EXCEPT ![i] = Content(dir, i)]
        /\ [j \in Rising |-> copy'[j]] = [[j \in Rising |-> copy[j]] EXCEPT ![i] = None]
    BY <1>2, <1>4, <2>2, BoundsAssumption, Zenon
  <2>7. [j \in Rising |-> Content(dir', j)] = [j \in Rising |-> Content(dir, j)]
    BY <1>3, <2>2, <2>5, BoundsAssumption, Zenon
  <2>8. Store!Return(i)
    BY <1>1, <1>4, <2>2, <2>6, <2>7, Zenon DEF Store!Return
  <2>9. QED
    BY <1>4, <2>8, Zenon DEF Store!Next
<1>5. CASE i \notin Rising
  BY <1>1, <1>2, <1>3, <1>5, BoundsAssumption, Stutter, Zenon
<1>6. QED
  BY <1>4, <1>5, Zenon

\* A crash of a process that is up is a crash of the store; the rest is not seen.
LEMMA CrashSimulation ==
  ASSUME FilesInv, Crash
  PROVE  [Store!Next]_Store!vars
<1>1. /\ phase' = "down" /\ UNCHANGED <<dir, kept>> /\ known' = [i \in Sector |-> None]
  BY Zenon DEF Crash, GoDown, disk
<1>2. CASE phase = "running"
  <2>1. Store!Crash
    BY <1>1, <1>2, BoundsAssumption, Zenon DEF Store!Crash, Store!GoDown
  <2>2. QED
    BY <2>1, Zenon DEF Store!Next
<1>3. CASE phase # "running"
  <2>1. \A j \in Rising : known'[j] = known[j]
    BY <1>1, <1>3, BoundsAssumption, Zenon DEF FilesInv, CutInv
  <2>2. QED
    BY <1>1, <1>3, <2>1, Stutter, Zenon
<1>4. QED
  BY <1>2, <1>3, Zenon

\* Sector files are synced before they get their name, so a flush keeps their content.
LEMMA FlushSimulation ==
  ASSUME IInv, Flush
  PROVE  [Store!Next]_Store!vars
<1>1. UNCHANGED <<dir, phase, known, copy>>
  BY Zenon DEF Flush
<1>2. \A j \in Rising : Content(kept', j) = Content(dir, j)
  <2>1. \A j \in Sector : FilesIn(kept', j) = FilesIn(dir, j)
    BY FlushFiles, Zenon DEF IInv
  <2>2. QED
    BY <2>1, SameContent, BoundsAssumption, Zenon
<1>3. [j \in Rising |-> Content(kept', j)] = [j \in Rising |-> Content(dir, j)]
  BY <1>2, Zenon
<1>4. Store!Flush
  BY <1>1, <1>3, Zenon DEF Store!Flush
<1>5. QED
  BY <1>4, Zenon DEF Store!Next

\* A power failure goes back to what the last flush kept.
LEMMA PowerFailureSimulation ==
  ASSUME PowerFailure
  PROVE  [Store!Next]_Store!vars
<1>1. phase' = "down" /\ dir' = kept /\ kept' = kept /\ known' = [i \in Sector |-> None]
  BY Zenon DEF PowerFailure, GoDown
<1>2. Store!PowerFailure
  BY <1>1, BoundsAssumption, Zenon DEF Store!PowerFailure, Store!GoDown
<1>3. QED
  BY <1>2, Zenon DEF Store!Next

\* Until the recovery ends the process is not up.
LEMMA RecoverySimulation ==
  ASSUME IInv, FilesInv, Restart \/ \E e \in unread : RecoverEntry(e)
  PROVE  UNCHANGED Store!vars
<1>1. phase # "running" /\ phase' # "running" /\ UNCHANGED <<kept, known>>
  BY Zenon DEF Restart, RecoverEntry, NotOnDisk, disk
<1>2. \A j \in Rising : Content(dir', j) = Content(dir, j)
  <2>1. CASE Restart
    BY <2>1, Zenon DEF Restart
  <2>2. ASSUME NEW e \in unread, RecoverEntry(e) PROVE \A j \in Rising : Content(dir', j) = Content(dir, j)
    BY <2>2, RecoverEntryFiles, SameContent, BoundsAssumption, Zenon
  <2>3. QED
    BY <2>1, <2>2, Zenon
<1>3. QED
  BY <1>1, <1>2, Stutter, Zenon

\* The store is up again when the recovery has ended.
LEMMA RecoveryEndsSimulation ==
  ASSUME IInv, FilesInv, RecoveryEnds
  PROVE  [Store!Next]_Store!vars
<1>1. /\ phase = "recovering" /\ phase' = "running" /\ UNCHANGED <<dir, kept, known>>
      /\ copy' = [i \in Sector |-> None]
  BY Zenon DEF RecoveryEnds, disk
<1>2. Store!Restart
  BY <1>1, BoundsAssumption, Zenon DEF Store!Restart
<1>3. QED
  BY <1>2, Zenon DEF Store!Next

\* Every step of the directory is a step of the store or leaves it alone.
LEMMA StepSimulation ==
  IInv /\ FilesInv /\ IInv' /\ FilesInv' /\ [Next]_vars => [Store!Next]_Store!vars
<1> SUFFICES ASSUME IInv, FilesInv, IInv', FilesInv', [Next]_vars PROVE [Store!Next]_Store!vars
  BY Zenon
<1>1. ASSUME NEW i \in Sector, Load(i) PROVE [Store!Next]_Store!vars
  BY <1>1, LoadSimulation, Zenon
<1>2. ASSUME NEW i \in Sector, NEW c \in Copy, Write(i, c) PROVE [Store!Next]_Store!vars
  BY <1>2, WriteSimulation, Zenon
<1>3. ASSUME NEW i \in Sector, FillTmp(i) \/ SyncTmp(i) PROVE [Store!Next]_Store!vars
  BY <1>3, FillSimulation, Zenon
<1>4. ASSUME NEW i \in Sector, RenameTmp(i) PROVE [Store!Next]_Store!vars
  BY <1>4, RenameSimulation, Zenon
<1>5. ASSUME NEW i \in Sector, UpdateMap(i) \/ RemoveOldFails(i) PROVE [Store!Next]_Store!vars
  BY <1>5, MapSimulation, Zenon
<1>6. ASSUME NEW i \in Sector, RemoveOld(i) PROVE [Store!Next]_Store!vars
  BY <1>6, RemoveOldSimulation, Zenon
<1>7. CASE Crash
  BY <1>7, CrashSimulation, Zenon
<1>8. CASE Flush
  BY <1>8, FlushSimulation, Zenon
<1>9. CASE PowerFailure
  BY <1>9, PowerFailureSimulation, Zenon
<1>10. CASE Restart \/ \E e \in unread : RecoverEntry(e)
  BY <1>10, RecoverySimulation, Zenon
<1>11. CASE RecoveryEnds
  BY <1>11, RecoveryEndsSimulation, Zenon
<1>12. CASE UNCHANGED vars
  BY <1>12, Stutter, Zenon DEF vars
<1>13. QED
  BY <1>1, <1>2, <1>3, <1>4, <1>5, <1>6, <1>7, <1>8, <1>9, <1>10, <1>11, <1>12, Zenon DEF Next

\* For any set of sectors whose callers write rising versions, and whatever the others
\* write: the directory implements the store of SectorStore. A write takes effect at its
\* rename; a crash at any await of write() or of the recovery loses nothing of it and
\* tears nothing, and a power failure goes back to the last flush.
THEOREM DirectoryIsAStore == Spec => ImplementsStore
BY InitStore, StepSimulation, Invariance, PTL DEF Spec, ImplementsStore, Store!Spec

-----------------------------------------------------------------------------
(***************************************************************************)
(* Types                                                                   *)
(***************************************************************************)
Versions == {VersionOf(c) : c \in Copy} \union {NoVersion}
FileOK(f) == f.tmp \in BOOLEAN /\ f.idx \in Sector /\ f.synced \in BOOLEAN /\ CopyIn(f) \in Copy \union Partly

\* TypeOK, one conjunct for each kind of state.
FilesOK == \A f \in dir \union kept \union unread : FileOK(f)
MemoryOK ==
    /\ data_access \in [Sector -> Versions]
    /\ phase \in {"running", "down", "recovering"}
    /\ step \in [Sector -> Steps]
    /\ copy \in [Sector -> Copy \union {None}]
    /\ old \in [Sector -> Versions]
    /\ known \in [Sector -> Copy \union {InitialCopy, None}]
CountsOK == crashes \in 0 .. MaxCrashes /\ lag \in 0 .. MaxLag
SettledOK == settled \in [Sector -> SUBSET (Copy \union Partly)]

\* TypeOK is made of these four.
LEMMA TypeParts == TypeOK <=> FilesOK /\ MemoryOK /\ CountsOK /\ SettledOK
BY Zenon DEF TypeOK, FilesOK, FileOK, MemoryOK, CountsOK, SettledOK, Versions

\* The temporary file of a write, created or filled.
LEMMA TmpFileOK ==
  ASSUME NEW i \in Sector, NEW c \in Copy
  PROVE  /\ FileOK(TmpFile(i, c, Partial)) /\ FileOK(TmpFile(i, c, c.val))
         /\ FileOK([TmpFile(i, c, c.val) EXCEPT !.synced = TRUE])
<1>1. c = [ts |-> c.ts, wr |-> c.wr, val |-> c.val]
  BY CopyAssumption, Zenon
<1>2. [c EXCEPT !.val = Partial] = [ts |-> c.ts, wr |-> c.wr, val |-> Partial]
  BY <1>1
<1>3. [ts |-> c.ts, wr |-> c.wr, val |-> Partial] \in Partly
  BY <1>2, Zenon DEF Partly
<1>4. ASSUME NEW v PROVE /\ TmpFile(i, c, v).tmp \in BOOLEAN /\ TmpFile(i, c, v).idx \in Sector
                         /\ TmpFile(i, c, v).synced \in BOOLEAN
                         /\ CopyIn(TmpFile(i, c, v)) = [ts |-> c.ts, wr |-> c.wr, val |-> v]
  BY Zenon DEF TmpFile, SectorFile, CopyIn
<1>5. LET t == [TmpFile(i, c, c.val) EXCEPT !.synced = TRUE]
      IN  t.tmp \in BOOLEAN /\ t.idx \in Sector /\ t.synced \in BOOLEAN /\ CopyIn(t) = c
  BY <1>1, Zenon DEF TmpFile, SectorFile, CopyIn
<1>6. FileOK(TmpFile(i, c, Partial))
  BY <1>3, <1>4, Zenon DEF FileOK
<1>7. FileOK(TmpFile(i, c, c.val))
  BY <1>1, <1>4, Zenon DEF FileOK
<1>8. QED
  BY <1>5, <1>6, <1>7, Zenon DEF FileOK

\* Steps on the directory.
LEMMA FilesOKKept ==
  ASSUME IInv, FilesOK, [Next]_vars
  PROVE  FilesOK'
<1>1. ASSUME NEW t, FileOK(t), dir' \subseteq dir \union {t}, UNCHANGED <<kept, unread>> PROVE FilesOK'
  BY <1>1, Zenon DEF FilesOK
<1>2. ASSUME dir' \subseteq dir \union kept, kept' = kept, unread' \subseteq unread \union dir PROVE FilesOK'
  BY <1>2, Zenon DEF FilesOK
<1>3. ASSUME NEW i \in Sector, NEW c \in Copy, Write(i, c) PROVE FilesOK'
  <2>1. dir' \subseteq dir \union {TmpFile(i, c, Partial)} /\ UNCHANGED <<kept, unread>>
    BY <1>3, Zenon DEF Write, Put, NotOnDisk
  <2>2. QED
    BY <1>1, <2>1, TmpFileOK, Zenon
<1>4. ASSUME NEW i \in Sector, FillTmp(i) PROVE FilesOK'
  <2>1. /\ dir' \subseteq dir \union {TmpFile(i, copy[i], copy[i].val)} /\ UNCHANGED <<kept, unread>>
        /\ copy[i] \in Copy
    BY <1>4, Zenon DEF FillTmp, Put, At, disk, IInv, WriteInv
  <2>2. QED
    BY <1>1, <2>1, TmpFileOK, Zenon
<1>5. ASSUME NEW i \in Sector, SyncTmp(i) PROVE FilesOK'
  <2>1. /\ dir' \subseteq dir \union {[TmpFile(i, copy[i], copy[i].val) EXCEPT !.synced = TRUE]}
        /\ UNCHANGED <<kept, unread>> /\ copy[i] \in Copy
    BY <1>5, Zenon DEF SyncTmp, Put, At, disk, IInv, WriteInv
  <2>2. QED
    BY <1>1, <2>1, TmpFileOK, Zenon
<1>6. ASSUME NEW i \in Sector, RenameTmp(i) PROVE FilesOK'
  <2>1. PICK f \in dir : dir' = Put(dir \ {f}, [f EXCEPT !.tmp = FALSE])
    BY <1>6, Zenon DEF RenameTmp
  <2>2. f \in Entry /\ FileOK(f)
    BY Zenon DEF IInv, Sound, FilesOK
  <2>3. FileOK([f EXCEPT !.tmp = FALSE])
    BY <2>2, Zenon DEF FileOK, Entry, CopyIn
  <2>4. dir' \subseteq dir \union {[f EXCEPT !.tmp = FALSE]} /\ UNCHANGED <<kept, unread>>
    BY <1>6, <2>1, Zenon DEF Put, RenameTmp, NotOnDisk
  <2>5. QED
    BY <1>1, <2>3, <2>4, Zenon
<1>7. CASE Flush
  <2>1. ASSUME NEW f \in dir PROVE FileOK([f EXCEPT !.val = IF f.synced THEN f.val ELSE Partial])
    <3>1. f \in Entry /\ FileOK(f)
      BY Zenon DEF IInv, Sound, FilesOK
    <3>2. CASE f.synced
      <4>1. [f EXCEPT !.val = f.val] = f
        BY <3>1, Zenon DEF Entry
      <4>2. QED
        BY <3>1, <3>2, <4>1, Zenon
    <3>3. CASE ~f.synced
      <4>1. PICK g : g = [f EXCEPT !.val = Partial]
        BY Zenon
      <4>2. g.tmp = f.tmp /\ g.idx = f.idx /\ g.synced = f.synced /\ g.ts = f.ts /\ g.wr = f.wr /\ g.val = Partial
        BY <3>1, <4>1, Zenon DEF Entry
      <4>3. PICK c \in Copy : CopyIn(f) = c \/ CopyIn(f) = [c EXCEPT !.val = Partial]
        BY <3>1, Zenon DEF FileOK, Partly
      <4>4. c = [ts |-> c.ts, wr |-> c.wr, val |-> c.val]
        BY CopyAssumption, Zenon
      <4>5. CopyIn(f).ts = c.ts /\ CopyIn(f).wr = c.wr
        BY <4>3, <4>4, Zenon
      <4>6. CopyIn(g) = [c EXCEPT !.val = Partial]
        <5>1. [c EXCEPT !.val = Partial] = [ts |-> c.ts, wr |-> c.wr, val |-> Partial]
          BY <4>4
        <5>2. f.ts = c.ts /\ f.wr = c.wr
          BY <4>5, CopyFields, Zenon
        <5>3. QED
          BY <4>2, <5>1, <5>2, Zenon DEF CopyIn
      <4>7. CopyIn(g) \in Partly
        BY <4>6, Zenon DEF Partly
      <4>8. FileOK(g)
        BY <3>1, <4>2, <4>7, Zenon DEF FileOK
      <4>9. QED
        BY <3>3, <4>1, <4>8, Zenon
    <3>4. QED
      BY <3>2, <3>3, Zenon
  <2>2. kept' = {[f EXCEPT !.val = IF f.synced THEN f.val ELSE Partial] : f \in dir} /\ UNCHANGED <<dir, unread>>
    BY <1>7, Zenon DEF Flush
  <2>3. \A g \in kept' : FileOK(g)
    BY <2>1, <2>2, Zenon
  <2>4. QED
    BY <2>2, <2>3, Zenon DEF FilesOK
<1>8. CASE \/ \E i \in Sector : Load(i) \/ UpdateMap(i) \/ RemoveOld(i) \/ RemoveOldFails(i)
           \/ Crash \/ PowerFailure \/ Restart \/ (\E e \in unread : RecoverEntry(e)) \/ RecoveryEnds
           \/ UNCHANGED vars
  <2>1. dir' \subseteq dir \union kept /\ kept' = kept /\ unread' \subseteq unread \union dir
    BY <1>8, Zenon DEF Load, UpdateMap, RemoveOld, RemoveOldFails, Crash, PowerFailure, GoDown, Restart,
                RecoverEntry, RecoveryEnds, vars, disk, NotOnDisk, Remove
  <2>2. QED
    BY <1>2, <2>1, Zenon
<1>9. QED
  BY <1>3, <1>4, <1>5, <1>6, <1>7, <1>8, Zenon DEF Next

\* The sector files of a directory whose files are as they should be.
LEMMA FilesAreCopies ==
  ASSUME NEW d, \A f \in d : FileOK(f), NEW i
  PROVE  /\ FilesIn(d, i) \subseteq Copy \union Partly
         /\ Sound(d) => FilesIn(d, i) \subseteq Copy
<1>1. ASSUME NEW x \in FilesIn(d, i) PROVE x \in Copy \union Partly
  BY <1>1, InFiles DEF FileOK
<1>2. ASSUME Sound(d), NEW x \in FilesIn(d, i) PROVE x \in Copy
  <2>1. PICK f \in d : ~f.tmp /\ f.idx = i /\ x = CopyIn(f)
    BY InFiles
  <2>2. x.val # Partial
    BY <1>2, <2>1, CopyFields, Zenon DEF Sound, Complete
  <2>3. \A c \in Copy : [c EXCEPT !.val = Partial].val = Partial
    BY CopyAssumption, Zenon
  <2>4. QED
    BY <1>1, <2>2, <2>3, Zenon DEF Partly
<1>3. QED
  BY <1>1, <1>2, Zenon

\* What is recorded as at rest are files of the directory or of the disk.
LEMMA SettledOKKept ==
  ASSUME FilesOK, FilesOK', SettledOK, [Next]_vars
  PROVE  SettledOK'
<1>1. \A i : FilesIn(dir, i) \subseteq Copy \union Partly
  BY FilesAreCopies, Zenon DEF FilesOK
<1>2. \A i : FilesIn(kept, i) \subseteq Copy \union Partly
  BY FilesAreCopies, Zenon DEF FilesOK
<1>3. \A i : FilesIn(dir', i) \subseteq Copy \union Partly
  BY FilesAreCopies, Zenon DEF FilesOK
<1>4. ASSUME NEW i \in Sector, RemoveOld(i) PROVE SettledOK'
  <2>1. settled' = [settled EXCEPT ![i] = FilesIn(dir', i)]
    BY <1>4, Zenon DEF RemoveOld, FilesOf
  <2>2. QED
    BY <1>3, <2>1, Zenon DEF SettledOK
<1>5. CASE PowerFailure
  BY <1>2, <1>5, Zenon DEF PowerFailure, SettledOK
<1>6. CASE RecoveryEnds
  BY <1>1, <1>6, Zenon DEF RecoveryEnds, SettledOK, FilesOf
<1>7. CASE \/ \E i \in Sector : \/ Load(i) \/ (\E c \in Copy : Write(i, c)) \/ FillTmp(i) \/ SyncTmp(i)
                                \/ RenameTmp(i) \/ UpdateMap(i) \/ RemoveOldFails(i)
           \/ Crash \/ Flush \/ Restart \/ (\E e \in unread : RecoverEntry(e)) \/ UNCHANGED vars
  <2>1. settled' = settled
    BY <1>7, Zenon DEF Load, Write, FillTmp, SyncTmp, RenameTmp, UpdateMap, RemoveOldFails, Crash, Flush,
                Restart, RecoverEntry, vars
  <2>2. QED
    BY <2>1, Zenon DEF SettledOK
<1>8. QED
  BY <1>4, <1>5, <1>6, <1>7, Zenon DEF Next

\* The counters stay within their bounds.
LEMMA CountsOKKept ==
  ASSUME CountsOK, [Next]_vars
  PROVE  CountsOK'
<1>1. ASSUME NotOnDisk, crashes' = crashes PROVE CountsOK'
  BY <1>1, BoundsAssumption DEF NotOnDisk, CountsOK
<1>2. ASSUME GoDown, lag' = lag \/ lag' = 0 PROVE CountsOK'
  BY <1>2, BoundsAssumption DEF GoDown, CountsOK
<1>3. ASSUME lag' = lag \/ lag' = 0, crashes' = crashes PROVE CountsOK'
  BY <1>3, BoundsAssumption DEF CountsOK
<1>4. CASE \/ \E i \in Sector : (\E c \in Copy : Write(i, c)) \/ RenameTmp(i) \/ RemoveOld(i)
           \/ \E e \in unread : RecoverEntry(e)
  BY <1>1, <1>4, Zenon DEF Write, RenameTmp, RemoveOld, RecoverEntry
<1>5. CASE Crash \/ PowerFailure
  BY <1>2, <1>5, Zenon DEF Crash, PowerFailure, disk
<1>6. CASE \/ \E i \in Sector : Load(i) \/ FillTmp(i) \/ SyncTmp(i) \/ UpdateMap(i) \/ RemoveOldFails(i)
           \/ Flush \/ Restart \/ RecoveryEnds \/ UNCHANGED vars
  BY <1>3, <1>6, Zenon DEF Load, FillTmp, SyncTmp, UpdateMap, RemoveOldFails, Flush, Restart, RecoveryEnds, vars, disk
<1>7. QED
  BY <1>4, <1>5, <1>6, Zenon DEF Next

\* The version of a file is one of a copy.
LEMMA VersionOfFile ==
  ASSUME NEW f, FileOK(f)
  PROVE  VersionOf(f) \in Versions
<1>1. PICK c \in Copy : CopyIn(f) = c \/ CopyIn(f) = [c EXCEPT !.val = Partial]
  BY Zenon DEF FileOK, Partly
<1>2. CopyIn(f).ts = c.ts /\ CopyIn(f).wr = c.wr
  BY <1>1, CopyAssumption, Zenon
<1>3. VersionOf(f) = VersionOf(c)
  BY <1>2, CopyFields, Zenon DEF VersionOf
<1>4. QED
  BY <1>3, Zenon DEF Versions

\* What a process has in memory.
LEMMA MemoryOKKept ==
  ASSUME IInv, FilesOK, MemoryOK, [Next]_vars
  PROVE  MemoryOK'
<1>1. \A c \in Copy : VersionOf(c) \in Versions
  BY Zenon DEF Versions
<1>2. NoVersion \in Versions
  BY Zenon DEF Versions
<1>3. ASSUME NEW i \in Sector, Load(i) PROVE MemoryOK'
  <2>1. FilesOf(i) \subseteq Copy
    BY FilesAreCopies, Zenon DEF FilesOK, IInv, FilesOf
  <2>2. PICK k \in Copy \union {InitialCopy} : known' = [known EXCEPT ![i] = k]
    BY <1>3, <2>1, Zenon DEF Load
  <2>3. QED
    BY <1>3, <2>2, Zenon DEF Load, MemoryOK
<1>4. ASSUME NEW i \in Sector, NEW c \in Copy, Write(i, c) PROVE MemoryOK'
  BY <1>4, Zenon DEF Write, MemoryOK, Steps
<1>5. ASSUME NEW i \in Sector, FillTmp(i) PROVE MemoryOK'
  BY <1>5, Zenon DEF FillTmp, MemoryOK, Steps
<1>6. ASSUME NEW i \in Sector, SyncTmp(i) PROVE MemoryOK'
  BY <1>6, Zenon DEF SyncTmp, MemoryOK, Steps
<1>7. ASSUME NEW i \in Sector, RenameTmp(i) PROVE MemoryOK'
  BY <1>7, Zenon DEF RenameTmp, MemoryOK, Steps
<1>8. ASSUME NEW i \in Sector, UpdateMap(i) PROVE MemoryOK'
  <2>1. copy[i] \in Copy
    BY <1>8, Zenon DEF UpdateMap, At, IInv, WriteInv
  <2>2. VersionOf(copy[i]) \in Versions
    BY <1>1, <2>1, Zenon
  <2>3. QED
    BY <1>8, <2>2, Zenon DEF UpdateMap, MemoryOK, Steps
<1>9. ASSUME NEW i \in Sector, RemoveOld(i) PROVE MemoryOK'
  <2>1. copy[i] \in Copy
    BY <1>9, Zenon DEF RemoveOld, At, IInv, WriteInv
  <2>2. QED
    BY <1>2, <1>9, <2>1, Zenon DEF RemoveOld, MemoryOK, Steps
<1>10. ASSUME NEW i \in Sector, RemoveOldFails(i) PROVE MemoryOK'
  BY <1>10, Zenon DEF RemoveOldFails, MemoryOK, Steps
<1>11. CASE Crash \/ PowerFailure
  BY <1>2, <1>11 DEF Crash, PowerFailure, GoDown, MemoryOK, Steps
<1>12. ASSUME NEW e \in unread, RecoverEntry(e) PROVE MemoryOK'
  <2>1. VersionOf(e) \in Versions /\ e.idx \in Sector
    BY VersionOfFile, Zenon DEF FilesOK, FileOK
  <2>2. data_access' = data_access \/ data_access' = [data_access EXCEPT ![e.idx] = VersionOf(e)]
    BY <1>12, Zenon DEF RecoverEntry
  <2>3. data_access' \in [Sector -> Versions]
    BY <2>1, <2>2, Zenon DEF MemoryOK
  <2>4. QED
    BY <1>12, <2>3, Zenon DEF RecoverEntry, MemoryOK
<1>13. CASE RecoveryEnds
  BY <1>13, Zenon DEF RecoveryEnds, MemoryOK
<1>14. CASE Flush \/ Restart \/ UNCHANGED vars
  BY <1>14, Zenon DEF Flush, Restart, vars, MemoryOK
<1>15. QED
  BY <1>3, <1>4, <1>5, <1>6, <1>7, <1>8, <1>9, <1>10, <1>11, <1>12, <1>13, <1>14, Zenon DEF Next

\* The initial state.
LEMMA InitTypes == Init => TypeOK
<1> SUFFICES ASSUME Init PROVE FilesOK /\ MemoryOK /\ CountsOK /\ SettledOK
  BY TypeParts, Zenon
<1>1. FilesOK /\ SettledOK
  BY Zenon DEF Init, FilesOK, SettledOK
<1>2. MemoryOK
  BY Zenon DEF Init, MemoryOK, Versions, Steps
<1>3. QED
  BY <1>1, <1>2, BoundsAssumption DEF Init, CountsOK

\* Every variable stays in its type, for every value of the constants: what a file of
\* the directory or of the disk holds is a copy that some caller wrote, or that copy
\* with its data not written yet.
THEOREM TypeCorrect == Spec => []TypeOK
<1>1. IInv /\ TypeOK /\ [Next]_vars => TypeOK'
  <2> SUFFICES ASSUME IInv, TypeOK, [Next]_vars PROVE TypeOK'
    BY Zenon
  <2>1. FilesOK /\ MemoryOK /\ CountsOK /\ SettledOK
    BY TypeParts, Zenon
  <2>2. FilesOK' /\ MemoryOK' /\ CountsOK'
    BY <2>1, FilesOKKept, MemoryOKKept, CountsOKKept, Zenon
  <2>3. SettledOK'
    BY <2>1, <2>2, SettledOKKept, Zenon
  <2>4. (FilesOK /\ MemoryOK /\ CountsOK /\ SettledOK)' => TypeOK'
    BY TypeParts, PTL
  <2>5. QED
    BY <2>2, <2>3, <2>4, Zenon
<1>2. QED
  BY InitTypes, Invariance, <1>1, PTL DEF Spec
=============================================================================
