------------------------------ MODULE SectorFiles ------------------------------
(***************************************************************************)
(* Versions of a sector and the set of its files in a storage directory    *)
(* (solution/src/sectors_manager.rs). A file is a record with the ts and   *)
(* wr of its name and the val it holds. AtomicRegister takes a whole       *)
(* SectorsManager::write as one step, AfterWrite; SectorsManager takes it  *)
(* one file operation at a time and is checked against these operators.    *)
(***************************************************************************)
EXTENDS Integers

\* The entry of data_access for a sector that has none: unwrap_or((0, 0)).
NoVersion == [ts |-> 0, wr |-> 0]

\* Mutated VersionOf: the data stays with the version.
VersionWithData(c) == c

VersionOf(c) == [ts |-> c.ts, wr |-> c.wr]

\* The comparison (ts, wr) > (old_ts, old_wr) of Rust pairs.
Newer(a, b) == a.ts > b.ts \/ (a.ts = b.ts /\ a.wr > b.wr)

\* Two copies of a sector have the same file name, idx_ts_wr.
SameVersion(a, b) == a.ts = b.ts /\ a.wr = b.wr

\* The files once the temporary file of c is renamed: a file with the name of c is
\* replaced.
Renamed(dir, c) == {f \in dir : ~SameVersion(f, c)} \union {c}

\* Mutated AfterWrite: the old file stays.
AfterWriteKeepsOld(dir, version, c) == Renamed(dir, c)

\* The files once write() has returned: it has removed the one data_access named.
AfterWrite(dir, version, c) ==
    {f \in Renamed(dir, c) : version = NoVersion \/ ~SameVersion(f, version)}

\* remove_file(&old_file_path) finds its file.
OldFileExists(dir, version, c) ==
    version = NoVersion \/ \E f \in Renamed(dir, c) : SameVersion(f, version)

\* The files that sectors_crash_recovery leaves: only the newest.
Newest(dir) == {f \in dir : \A g \in dir : ~Newer(g, f)}
=============================================================================
