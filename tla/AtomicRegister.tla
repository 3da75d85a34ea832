---------------------------- MODULE AtomicRegister ----------------------------
(***************************************************************************)
(* The (N,N)-AtomicRegister of one sector: the AtomicRegisterState that    *)
(* every process runs for it (solution/src/atomic_register.rs), the sector *)
(* file each of them keeps (solution/src/sectors_manager.rs), and crashes  *)
(* and restarts of the processes (build_atomic_register in lib.rs).        *)
(*                                                                         *)
(* A handler of the code runs with exclusive access to its register (one   *)
(* worker task per sector), so it is one action here, its call of          *)
(* SectorsManager::write included; the points at which a crash can cut it  *)
(* short are the ones StoreIsCutShort and the loss of messages give.       *)
(*                                                                         *)
(* The links are the ones README.md grants the register: "you can assume   *)
(* that RegisterClient passed to the function implements StubbornLink".    *)
(* A message that was sent stays in msgs, so it may be delivered late,     *)
(* again, out of order, or never.                                          *)
(***************************************************************************)
EXTENDS Integers, Sequences, FiniteSets, SectorFiles

CONSTANTS
    N,           \* processes_count: the ranks are 1 .. N
    Value,       \* sector contents that clients write
    Zero,        \* the 4096 zero bytes of a sector never written
    ReadAt,      \* the processes that clients send reads to
    WriteAt,     \* the processes that clients send writes to
    InitialFiles,\* InitialFiles[p]: the sector's file in the directory p starts on
    MaxOps,      \* bound: client commands in a behaviour
    MaxPending,  \* bound: client commands outstanding at once (closed-loop clients)
    MaxAnswers,  \* bound: different Values a process sends for one ReadProc
    MaxCrashes   \* bound: crashes in a behaviour

ASSUME NAssumption == N \in Nat \ {0}
ASSUME ZeroAssumption == Zero \notin Value
ASSUME ClientsAssumption == ReadAt \subseteq 1 .. N /\ WriteAt \subseteq 1 .. N
ASSUME BoundsAssumption ==
    MaxOps \in Nat /\ MaxPending \in Nat /\ MaxAnswers \in Nat /\ MaxCrashes \in Nat

VARIABLES
    worker,       \* worker[p]: "running", "panicked" (task is dead) or "down" (process is)
    sec,          \* sec[p]: ts, wr and val of AtomicRegisterState
    op_id,        \* op_id[p]: identifier of the current operation, NoOp for None
    callback,     \* callback[p]: operation whose client waits for the callback, or NoOp
    reading,
    writing,
    write_phase,
    readlist,     \* readlist[p]: HashMap from ranks to copies
    acklist,      \* acklist[p]: HashSet of ranks
    writeval,
    readval,
    files,        \* files[p]: the sector's files in the storage directory of p
    data_access,  \* data_access[p]: the cached (timestamp, write rank), in memory
    msgs,         \* system commands handed to the links
    hist,         \* history: hist[i] is the client command with op_id i
    proposed,     \* history: the copy each operation sent out in WriteProc
    lexical,      \* history: every choice so far was the highest by (ts, wr)
    stored,       \* history: every copy name a process ever held in a file
    crashes       \* number of crashes so far

opVars == <<op_id, callback, reading, writing, write_phase,
            readlist, acklist, writeval, readval>>
storeVars == <<files, data_access, stored>>
sendVars == <<msgs, proposed>>
vars == <<worker, sec, opVars, storeVars, sendVars, hist, lexical, crashes>>

-----------------------------------------------------------------------------
(***************************************************************************)
(* Data                                                                    *)
(***************************************************************************)
Proc == 1 .. N
OpId == 1 .. MaxOps
NoOp == 0
Data == Value \union {Zero}

\* A sector copy: the (timestamp, write rank, sector data) that travels in
\* Value and WriteProc, sits in readlist, and is stored in a file.
Copy == [ts : Nat, wr : 0 .. N, val : Data]

InitialCopy == [ts |-> 0, wr |-> 0, val |-> Zero]

\* A directory that a recovery has left: at most one file for the sector.
ASSUME FilesAssumption ==
    /\ InitialFiles \in [Proc -> SUBSET {c \in Copy : c.ts > 0 /\ c.wr > 0}]
    /\ \A p \in Proc : \A f, g \in InitialFiles[p] : f = g

ReadProcMsg(p, q, id) == [type |-> "ReadProc", from |-> p, to |-> q, id |-> id]
ValueMsg(p, q, id, c) == [type |-> "Value", from |-> p, to |-> q, id |-> id, copy |-> c]
WriteProcMsg(p, q, id, c) == [type |-> "WriteProc", from |-> p, to |-> q, id |-> id, copy |-> c]
AckMsg(p, q, id) == [type |-> "Ack", from |-> p, to |-> q, id |-> id]

Message == [type : {"ReadProc", "Ack"}, from : Proc, to : Proc, id : OpId]
           \union
           [type : {"Value", "WriteProc"}, from : Proc, to : Proc, id : OpId, copy : Copy]

\* Mutated Majority: half of the processes is enough.
MajorityOrHalf(S) == Cardinality(S) >= N \div 2

\* Mutated Majority: one more than a majority is needed.
MajorityPlusOne(S) == Cardinality(S) > N \div 2 + 1

\* len() > processes_count / 2, in integer division.
Majority(S) == Cardinality(S) > N \div 2

\* HashMap::insert, which replaces the entry of a key that is already there.
Insert(map, k, v) == [x \in DOMAIN map \union {k} |-> IF x = k THEN v ELSE map[x]]

EmptyMap == [q \in {} |-> InitialCopy]

\* readlist.iter().max_by(|a, b| a.1.1.cmp(&b.1.1)): field 1 of the triple is the
\* write rank, so that is all the comparison looks at. Of equal elements max_by
\* returns the last one, and a HashMap iterates in no fixed order.
Highest(rl) ==
    {rl[q] : q \in {q \in DOMAIN rl : \A r \in DOMAIN rl : rl[r].wr <= rl[q].wr}}

-----------------------------------------------------------------------------
(***************************************************************************)
(* The sector file                                                         *)
(***************************************************************************)
\* Mutated Recovered: the files are not read.
RecoveredNothing(dir) == InitialCopy

\* Mutated Recovered: a sector without a file gets no data.
RecoveredWithoutData(dir) ==
    IF Newest(dir) = {} THEN NoVersion ELSE CHOOSE f \in Newest(dir) : TRUE

\* What read_metadata and read_data return after a restart on the directory dir.
Recovered(dir) == IF Newest(dir) = {} THEN InitialCopy ELSE CHOOSE f \in Newest(dir) : TRUE

Held(p, c) == [proc |-> p, ts |-> c.ts, wr |-> c.wr]

\* SectorsManager::write(idx, c) runs to its end. The file it removes is the one
\* data_access named, be it the one just written.
StoreReturns(p, c) ==
    /\ OldFileExists(files[p], data_access[p], c)
    /\ files' = [files EXCEPT ![p] = AfterWrite(files[p], data_access[p], c)]
    /\ data_access' = [data_access EXCEPT ![p] = VersionOf(c)]
    /\ stored' = stored \union {Held(p, c)}

\* write() panics: "Failed to remove old sector file".
StorePanics(p, c) ==
    /\ ~OldFileExists(files[p], data_access[p], c)
    /\ files' = [files EXCEPT ![p] = Renamed(files[p], c)]
    /\ data_access' = [data_access EXCEPT ![p] = VersionOf(c)]
    /\ stored' = stored \union {Held(p, c)}

\* The process crashes inside write(), after the rename and before the removal.
\* A crash before the rename leaves the files as they were.
StoreIsCutShort(p, c) ==
    /\ files' = [files EXCEPT ![p] = Renamed(files[p], c)]
    /\ data_access' = [data_access EXCEPT ![p] = NoVersion]
    /\ stored' = stored \union {Held(p, c)}

-----------------------------------------------------------------------------
(***************************************************************************)
(* Start, crash and restart                                                *)
(***************************************************************************)
Init ==
    /\ worker = [p \in Proc |-> "running"]
    /\ sec = [p \in Proc |-> Recovered(InitialFiles[p])]
    /\ op_id = [p \in Proc |-> NoOp]
    /\ callback = [p \in Proc |-> NoOp]
    /\ reading = [p \in Proc |-> FALSE]
    /\ writing = [p \in Proc |-> FALSE]
    /\ write_phase = [p \in Proc |-> FALSE]
    /\ readlist = [p \in Proc |-> EmptyMap]
    /\ acklist = [p \in Proc |-> {}]
    /\ writeval = [p \in Proc |-> Zero]
    /\ readval = [p \in Proc |-> Zero]
    /\ files = InitialFiles
    /\ data_access = [p \in Proc |-> VersionOf(Recovered(InitialFiles[p]))]
    /\ msgs = {}
    /\ hist = <<>>
    /\ proposed = {}
    /\ lexical = TRUE
    /\ stored = UNION {{Held(p, c) : c \in InitialFiles[p] \union {InitialCopy}} : p \in Proc}
    /\ crashes = 0

\* The memory of p is gone: AtomicRegisterState::new starts from these values.
ForgetOperation(p) ==
    /\ op_id' = [op_id EXCEPT ![p] = NoOp]
    /\ callback' = [callback EXCEPT ![p] = NoOp]
    /\ reading' = [reading EXCEPT ![p] = FALSE]
    /\ writing' = [writing EXCEPT ![p] = FALSE]
    /\ write_phase' = [write_phase EXCEPT ![p] = FALSE]
    /\ readlist' = [readlist EXCEPT ![p] = EmptyMap]
    /\ acklist' = [acklist EXCEPT ![p] = {}]
    /\ writeval' = [writeval EXCEPT ![p] = Zero]
    /\ readval' = [readval EXCEPT ![p] = Zero]

\* The process of p goes down, and with it the channel of its messages to itself.
GoDown(p) ==
    /\ crashes < MaxCrashes
    /\ crashes' = crashes + 1
    /\ worker' = [worker EXCEPT ![p] = "down"]
    /\ sec' = [sec EXCEPT ![p] = InitialCopy]
    /\ msgs' = {m \in msgs : m.from # p \/ m.to # p}
    /\ ForgetOperation(p)
    /\ UNCHANGED <<proposed, hist>>

Crash(p) ==
    /\ worker[p] # "down"
    /\ GoDown(p)
    /\ data_access' = [data_access EXCEPT ![p] = NoVersion]
    /\ UNCHANGED <<files, stored, lexical>>

\* A restart: sectors_crash_recovery, then build_atomic_register.
Recover(p) ==
    /\ worker[p] = "down"
    /\ worker' = [worker EXCEPT ![p] = "running"]
    /\ files' = [files EXCEPT ![p] = Newest(files[p])]
    /\ data_access' = [data_access EXCEPT ![p] = VersionOf(Recovered(files[p]))]
    /\ sec' = [sec EXCEPT ![p] = Recovered(files[p])]
    /\ ForgetOperation(p)
    /\ UNCHANGED <<stored, sendVars, hist, lexical, crashes>>

\* A panic inside a handler ends the worker task of the sector.
Panic(p) == worker' = [worker EXCEPT ![p] = "panicked"]

-----------------------------------------------------------------------------
(***************************************************************************)
(* client_command                                                          *)
(***************************************************************************)
Pending == {i \in DOMAIN hist : ~hist[i].done}
Returned == DOMAIN hist \ Pending

\* The sector's semaphore has one permit, and the callback of the operation in
\* progress owns it: a command reaches the register when callback is None.
ClientCommand(p, kind, data) ==
    LET id == Len(hist) + 1 IN
    /\ Len(hist) < MaxOps
    /\ Cardinality(Pending) < MaxPending
    /\ worker[p] = "running"
    /\ callback[p] = NoOp
    /\ op_id' = [op_id EXCEPT ![p] = id]
    /\ callback' = [callback EXCEPT ![p] = id]
    /\ readlist' = [readlist EXCEPT ![p] = EmptyMap]
    /\ acklist' = [acklist EXCEPT ![p] = {}]
    /\ reading' = IF kind = "Read" THEN [reading EXCEPT ![p] = TRUE] ELSE reading
    /\ writing' = IF kind = "Write" THEN [writing EXCEPT ![p] = TRUE] ELSE writing
    /\ writeval' = IF kind = "Write" THEN [writeval EXCEPT ![p] = data] ELSE writeval
    /\ msgs' = msgs \union {ReadProcMsg(p, q, id) : q \in Proc}
    /\ hist' = Append(hist, [proc |-> p, kind |-> kind, data |-> data,
                             done |-> FALSE, before |-> Returned])
    /\ UNCHANGED <<worker, sec, write_phase, readval, storeVars, proposed, lexical, crashes>>

ReadCommand(p) == p \in ReadAt /\ ClientCommand(p, "Read", Zero)

WriteCommand(p) == p \in WriteAt /\ \E v \in Value : ClientCommand(p, "Write", v)

-----------------------------------------------------------------------------
(***************************************************************************)
(* system_command                                                          *)
(***************************************************************************)
Delivered(p, m, type) == worker[p] = "running" /\ m.to = p /\ m.type = type

\* The Values that p has sent in answer to the ReadProc m.
Answers(p, m) == {a \in msgs : a.type = "Value" /\ a.from = p /\ a.id = m.id}

ReadProc(p, m) ==
    /\ Delivered(p, m, "ReadProc")
    /\ Cardinality(Answers(p, m)) < MaxAnswers
    /\ msgs' = msgs \union {ValueMsg(p, m.from, m.id, sec[p])}
    /\ UNCHANGED <<worker, sec, opVars, storeVars, proposed, hist, lexical, crashes>>

\* self.op_id.unwrap() while op_id is None.
ReplyWithoutOperation(p, m) ==
    /\ Delivered(p, m, "Value") \/ Delivered(p, m, "Ack")
    /\ op_id[p] = NoOp
    /\ Panic(p)
    /\ UNCHANGED <<sec, opVars, storeVars, sendVars, hist, lexical, crashes>>

\* Mutated ValueCounts: write_phase is not looked at.
ValueCountsAgain(p, m) ==
    /\ Delivered(p, m, "Value")
    /\ op_id[p] # NoOp
    /\ m.id = op_id[p]

\* The condition under which a Value is put in readlist.
ValueCounts(p, m) ==
    /\ Delivered(p, m, "Value")
    /\ op_id[p] # NoOp
    /\ m.id = op_id[p]
    /\ ~write_phase[p]

ReadlistWith(p, m) == Insert(readlist[p], m.from, m.copy)

ReadQuorum(p, m) ==
    Majority(DOMAIN ReadlistWith(p, m)) /\ (reading[p] \/ writing[p])

\* A Value that does not complete a majority.
ValueRecorded(p, m) ==
    /\ ValueCounts(p, m)
    /\ ~ReadQuorum(p, m)
    /\ readlist' = [readlist EXCEPT ![p] = ReadlistWith(p, m)]
    /\ UNCHANGED <<worker, sec, op_id, callback, reading, writing, write_phase,
                   acklist, writeval, readval, storeVars, sendVars, hist, lexical, crashes>>

EnterWritePhase(p, c) ==
    /\ readval' = [readval EXCEPT ![p] = c.val]
    /\ readlist' = [readlist EXCEPT ![p] = EmptyMap]
    /\ acklist' = [acklist EXCEPT ![p] = {}]
    /\ write_phase' = [write_phase EXCEPT ![p] = TRUE]
    /\ UNCHANGED <<op_id, callback, reading, writing, writeval>>

BroadcastWriteProc(p, c) ==
    /\ msgs' = msgs \union {WriteProcMsg(p, q, op_id[p], c) : q \in Proc}
    /\ proposed' = proposed \union {[id |-> op_id[p], copy |-> c]}

\* The list to choose from: the register puts its own copy in readlist.
FullReadlist(p, m) == Insert(ReadlistWith(p, m), p, sec[p])
Chosen(p, m) == Highest(FullReadlist(p, m))
Candidates(p, m) == {FullReadlist(p, m)[q] : q \in DOMAIN FullReadlist(p, m)}

\* A majority of Values, for a read: write the chosen copy back.
ValueQuorumReading(p, m) ==
    /\ ValueCounts(p, m)
    /\ ReadQuorum(p, m)
    /\ reading[p]
    /\ \E c \in Chosen(p, m) :
         /\ EnterWritePhase(p, c)
         /\ BroadcastWriteProc(p, c)
         /\ lexical' = (lexical /\ c \in Newest(Candidates(p, m)))
    /\ UNCHANGED <<worker, sec, storeVars, hist, crashes>>

\* Mutated NextCopy: the write rank of the highest copy is kept.
NextCopyKeepsRank(p, c) == [ts |-> c.ts + 1, wr |-> c.wr, val |-> writeval[p]]

\* The copy a write makes of its data when c is the highest.
NextCopy(p, c) == [ts |-> c.ts + 1, wr |-> p, val |-> writeval[p]]

\* A majority of Values, for a write: store the new copy, then send it out.
ValueQuorumWriting(p, m) ==
    /\ ValueCounts(p, m)
    /\ ReadQuorum(p, m)
    /\ ~reading[p]
    /\ \E c \in Chosen(p, m) : LET new == NextCopy(p, c) IN
         /\ lexical' = (lexical /\ c \in Newest(Candidates(p, m)))
         /\ \/ /\ StoreReturns(p, new)
               /\ EnterWritePhase(p, c)
               /\ sec' = [sec EXCEPT ![p] = new]
               /\ BroadcastWriteProc(p, new)
               /\ UNCHANGED <<worker, hist, crashes>>
            \/ /\ StorePanics(p, new)
               /\ EnterWritePhase(p, c)
               /\ sec' = [sec EXCEPT ![p] = new]
               /\ Panic(p)
               /\ UNCHANGED <<sendVars, hist, crashes>>
            \/ /\ StoreIsCutShort(p, new)
               /\ GoDown(p)

\* Mutated WriteProcStored: the versions are not compared.
WriteProcAlwaysStored(p, m) ==
    /\ Delivered(p, m, "WriteProc")
    /\ StoreReturns(p, m.copy)
    /\ sec' = [sec EXCEPT ![p] = m.copy]
    /\ msgs' = msgs \union {AckMsg(p, m.from, m.id)}
    /\ UNCHANGED <<worker, opVars, proposed, hist, lexical, crashes>>

\* WriteProc with a newer copy: store it, then acknowledge.
WriteProcStored(p, m) ==
    /\ Delivered(p, m, "WriteProc")
    /\ Newer(m.copy, sec[p])
    /\ \/ /\ StoreReturns(p, m.copy)
          /\ sec' = [sec EXCEPT ![p] = m.copy]
          /\ msgs' = msgs \union {AckMsg(p, m.from, m.id)}
          /\ UNCHANGED <<worker, opVars, proposed, hist, lexical, crashes>>
       \/ /\ StorePanics(p, m.copy)
          /\ sec' = [sec EXCEPT ![p] = m.copy]
          /\ Panic(p)
          /\ UNCHANGED <<opVars, sendVars, hist, lexical, crashes>>
       \/ /\ StoreIsCutShort(p, m.copy)
          /\ GoDown(p)
          /\ UNCHANGED lexical

\* WriteProc with a copy that is not newer: acknowledge only.
WriteProcOld(p, m) ==
    /\ Delivered(p, m, "WriteProc")
    /\ ~Newer(m.copy, sec[p])
    /\ msgs' = msgs \union {AckMsg(p, m.from, m.id)}
    /\ UNCHANGED <<worker, sec, opVars, storeVars, proposed, hist, lexical, crashes>>

\* Mutated AckCounts: Acks of earlier operations count.
AckCountsAnyOperation(p, m) ==
    /\ Delivered(p, m, "Ack")
    /\ op_id[p] # NoOp
    /\ write_phase[p]

\* The condition under which an Ack is put in acklist.
AckCounts(p, m) ==
    /\ Delivered(p, m, "Ack")
    /\ op_id[p] # NoOp
    /\ m.id = op_id[p]
    /\ write_phase[p]

AckQuorum(p, m) ==
    Majority(acklist[p] \union {m.from}) /\ (reading[p] \/ writing[p])

AckRecorded(p, m) ==
    /\ AckCounts(p, m)
    /\ ~AckQuorum(p, m)
    /\ acklist' = [acklist EXCEPT ![p] = @ \union {m.from}]
    /\ UNCHANGED <<worker, sec, op_id, callback, reading, writing, write_phase,
                   readlist, writeval, readval, storeVars, sendVars, hist, lexical, crashes>>

\* The client command op once p has answered it: a read returns readval.
Answered(p, op) ==
    [op EXCEPT !.done = TRUE, !.data = IF reading[p] THEN readval[p] ELSE op.data]

\* callback.take(): the callback, if there is one, sends the response to its client
\* and gives the permit back.
Respond(p) ==
    LET id == callback[p] IN
    /\ hist' = IF id = NoOp THEN hist ELSE [hist EXCEPT ![id] = Answered(p, hist[id])]
    /\ callback' = [callback EXCEPT ![p] = NoOp]

\* A majority of Acks: the operation is complete.
AckCompletes(p, m) ==
    /\ AckCounts(p, m)
    /\ AckQuorum(p, m)
    /\ acklist' = [acklist EXCEPT ![p] = {}]
    /\ write_phase' = [write_phase EXCEPT ![p] = FALSE]
    /\ reading' = [reading EXCEPT ![p] = FALSE]
    /\ writing' = IF reading[p] THEN writing ELSE [writing EXCEPT ![p] = FALSE]
    /\ Respond(p)
    /\ UNCHANGED <<worker, sec, op_id, readlist, writeval, readval,
                   storeVars, sendVars, lexical, crashes>>

SystemCommand(p, m) ==
    \/ ReadProc(p, m)
    \/ ReplyWithoutOperation(p, m)
    \/ ValueRecorded(p, m)
    \/ ValueQuorumReading(p, m)
    \/ ValueQuorumWriting(p, m)
    \/ WriteProcStored(p, m)
    \/ WriteProcOld(p, m)
    \/ AckRecorded(p, m)
    \/ AckCompletes(p, m)

-----------------------------------------------------------------------------
Next ==
    \E p \in Proc :
        \/ ReadCommand(p)
        \/ WriteCommand(p)
        \/ \E m \in msgs : SystemCommand(p, m)
        \/ Crash(p)
        \/ Recover(p)

Spec == Init /\ [][Next]_vars

\* The stubborn links between two processes that stay up: what one has sent, the
\* other handles in the end. Clients, crashes and restarts owe nothing.
FairSpec ==
    /\ Spec
    /\ \A p, q \in Proc :
          WF_vars(\E m \in msgs : m.from = q /\ worker[q] = "running" /\ SystemCommand(p, m))

-----------------------------------------------------------------------------
(***************************************************************************)
(* Properties                                                              *)
(***************************************************************************)
ClientOp == [proc : Proc, kind : {"Read", "Write"}, data : Data,
             done : BOOLEAN, before : SUBSET OpId]

\* Every variable stays in its type.
TypeOK ==
    /\ worker \in [Proc -> {"running", "panicked", "down"}]
    /\ sec \in [Proc -> Copy]
    /\ op_id \in [Proc -> OpId \union {NoOp}]
    /\ callback \in [Proc -> OpId \union {NoOp}]
    /\ reading \in [Proc -> BOOLEAN]
    /\ writing \in [Proc -> BOOLEAN]
    /\ write_phase \in [Proc -> BOOLEAN]
    /\ DOMAIN readlist = Proc
    /\ \A p \in Proc : \E S \in SUBSET Proc : readlist[p] \in [S -> Copy]
    /\ acklist \in [Proc -> SUBSET Proc]
    /\ writeval \in [Proc -> Data]
    /\ readval \in [Proc -> Data]
    /\ files \in [Proc -> SUBSET Copy]
    /\ data_access \in [Proc -> [ts : Nat, wr : 0 .. N]]
    /\ msgs \subseteq Message
    /\ hist \in Seq(ClientOp)
    /\ Len(hist) <= MaxOps
    /\ proposed \subseteq [id : OpId, copy : Copy]
    /\ lexical \in BOOLEAN
    /\ stored \subseteq [proc : Proc, ts : Nat, wr : 0 .. N]
    /\ crashes \in 0 .. MaxCrashes

\* The processes that have held, in a file, c or a copy newer than c.
Holders(c) == {q \in Proc : \E s \in stored : s.proc = q /\ ~Newer(c, s)}

\* An operation returns to its client only after a majority of the processes has
\* put in a file the copy it sent out, or a newer one; that copy has the data the
\* operation wrote or returned. (The Ack branch counts Acks of the operation in
\* progress only, and WriteProc stores before it acknowledges, whatever crashes,
\* repeats and late messages do.)
DurableQuorum ==
    \A i \in Returned :
        \E w \in proposed :
            /\ w.id = i
            /\ w.copy.val = hist[i].data
            /\ 2 * Cardinality(Holders(w.copy)) > N

\* An operation sends out one copy: repeated Values never make the Value branch
\* choose a second time for the same op_id (the write_phase flag).
OneProposalPerOperation ==
    \A w1, w2 \in proposed : w1.id = w2.id => w1 = w2

\* Where the copy c comes from: a directory the system was started on, or a write
\* command with that data that a client sent to the process named by the write rank.
HasOrigin(c) ==
    \/ c = InitialCopy
    \/ \E p \in Proc : c \in InitialFiles[p]
    \/ \E i \in DOMAIN hist :
          hist[i].kind = "Write" /\ hist[i].proc = c.wr /\ hist[i].data = c.val

\* No copy is out of thin air: whatever a register, a file, a read list or a
\* message holds was written by the process its write rank names, across crashes
\* and restarts, and so was whatever a read sends out before it returns.
Provenance ==
    /\ \A p \in Proc : HasOrigin(sec[p])
    /\ \A p \in Proc : \A f \in files[p] : HasOrigin(f)
    /\ \A p \in Proc : \A q \in DOMAIN readlist[p] : HasOrigin(readlist[p][q])
    /\ \A m \in msgs : m.type \in {"Value", "WriteProc"} => HasOrigin(m.copy)
    /\ \A w \in proposed : HasOrigin(w.copy)

\* As long as every choice was the highest by (ts, wr), as the comment in the Value
\* branch says it is, a restart of a running process on its directory would find
\* the copy its register holds: SectorsManager::write never removes the file it has
\* just written, and never misses the one it replaces.
RestartKeepsCopyIfHighest ==
    lexical => \A p \in Proc : worker[p] = "running" => files[p] =
                   (IF sec[p] = InitialCopy THEN {} ELSE {sec[p]})

\* As long as every choice was the highest by (ts, wr), the copies that operations
\* send out are ordered as README.md wants the operations to be: an operation that
\* starts after another has returned sends out no older copy, a write a newer one,
\* and no two writes the same version, whatever overlaps, crashes and restarts.
VersionsFollowRealTime ==
    lexical => \A v, w \in proposed :
        /\ v.id \in hist[w.id].before => ~Newer(v.copy, w.copy)
        /\ hist[w.id].kind = "Write" =>
              /\ v.id \in hist[w.id].before => Newer(w.copy, v.copy)
              /\ v.id # w.id /\ hist[v.id].kind = "Write" => ~SameVersion(v.copy, w.copy)

\* As long as every choice was the highest by (ts, wr), no step takes the copy that
\* a restart would find back to an older version, be it a handler, a crash inside
\* a store, or a recovery.
NeverRegresses ==
    [][lexical' => \A p \in Proc : ~Newer(Recovered(files[p]), Recovered(files'[p]))]_vars

-----------------------------------------------------------------------------
(***************************************************************************)
(* Linearizability                                                         *)
(***************************************************************************)
Reads == {i \in DOMAIN hist : hist[i].kind = "Read"}
Writes == {i \in DOMAIN hist : hist[i].kind = "Write"}

\* The orders of the operations in S: ord[k] is the k-th.
Orders(S) ==
    {ord \in [1 .. Cardinality(S) -> S] : \A j, k \in DOMAIN ord : ord[j] = ord[k] => j = k}

RespectsRealTime(ord) ==
    \A j, k \in DOMAIN ord : j < k => ord[k] \notin hist[ord[j]].before

\* The newest copy in the directories that the system was started on.
StartCopy == Recovered(UNION {InitialFiles[p] : p \in Proc})

\* What a stop of the whole system leaves when no operation was under way: a majority
\* of the directories has the newest copy, and the others have older ones.
Settled ==
    /\ 2 * Cardinality({p \in Proc : Recovered(InitialFiles[p]) = StartCopy}) > N
    /\ \A p \in Proc : \A f \in InitialFiles[p] : f = StartCopy \/ Newer(StartCopy, f)

\* The content of a register after the first k operations of ord.
ContentAfter(ord, k) ==
    LET W == {j \in 1 .. k : ord[j] \in Writes}
    IN  IF W = {} THEN StartCopy.val
        ELSE hist[ord[CHOOSE j \in W : \A i \in W : i <= j]].data

\* README.md: "Every read returns the most recently written value. If an operation
\* o happens before operation o' when the system is processing messages, then o
\* must appear before o' on such a common timeline." The operations that returned,
\* and some writes that did not, have an order that respects real time in which
\* every read returns what the last write before it wrote.
Linearizable ==
    \E P \in SUBSET (Pending \intersect Writes) :
        \E ord \in Orders(Returned \union P) :
            /\ RespectsRealTime(ord)
            /\ \A k \in DOMAIN ord :
                  ord[k] \in Reads => hist[ord[k]].data = ContentAfter(ord, k)

\* As long as every choice was the highest by (ts, wr), the operations are
\* linearizable: whatever concurrent operations, crashes and restarts do, stale
\* results come from the comparison in the Value branch alone.
LinearizableIfHighest == lexical => Linearizable
=============================================================================
