# Verification of the distributed register

TLA+ specifications of the distributed block device in this repository: what the
processes do, TLC runs that check it on small instances, and TLAPS proofs that hold
for every instance. Paths are relative to the repository; `PROJECT.json` maps every
definition to the lines it models.

## The system

A *process* (`solution/src/lib.rs`, `run_register_process`) serves sectors of 4096
bytes to clients over TCP. The processes keep every sector in an (N,N)-atomic
register: an operation reads the copies of a majority, then makes a majority store
the chosen or the new copy. Copies are ordered by version, `(ts, wr)`.

| Part | Source | Module |
|---|---|---|
| atomic register of a sector | `solution/src/atomic_register.rs` | `AtomicRegister`, `MCAtomicRegister`; `AtomicRegisterInv`, `AtomicRegisterTypes`, `AtomicRegisterSteps`, `AtomicRegisterEffects`, `AtomicRegisterProofs` |
| storage directory | `solution/src/sectors_manager.rs` | `SectorFiles`, `SectorStore`, `SectorsManager`, `MCSectorsManager`, `SectorsManagerProofs` |
| tasks of a process | `solution/src/register_process.rs` | `RegisterProcess`, `RegisterProcessProofs` |
| links between processes | `solution/src/register_client.rs` | `RegisterClient`, `RegisterClientProofs` |
| byte format of commands | `solution/src/transfer_operations.rs` | `Transfer`, `MCTransfer` |
| Linux block device driver and its TCP client | `driver/atomic_disc_driver.c`, `driver/atdd_tcp_client.c`, `driver/tcp.c` | `DriverRelay` (one relay thread), `DriverRelayProofs` |
| driver parameters | `driver/parse_args.c` | no: a function of strings, no state |
| tests | `public-tests/`, `test-utils/` | no: read for what they expect |

A client's command goes from the task of its connection, through the semaphore of the
sector, to the worker of the sector, which owns the register. The register talks to
the other processes, and to itself, through `RegisterClient`, and stores through
`SectorsManager`. When a majority has acknowledged, it calls the callback, which writes
the response and releases the semaphore. Commands between processes and from clients
have one byte format (`transfer_operations.rs`). A client can be the Linux block driver:
its relay threads keep requests in a ring, forward them over TCP and end them when the
responses come.

## Modules

**AtomicRegister.** One sector on all processes. `sec`, `op_id`, `callback`,
`reading`, `writing`, `write_phase`, `readlist`, `acklist`, `writeval`, `readval` are
the fields of `AtomicRegisterState`; `files` and `data_access` are the sector's part
of the storage. `client_command` is `ReadCommand` and `WriteCommand`; each branch of
`system_command` is one action per outcome (`ValueRecorded`, `ValueQuorumReading`,
`ValueQuorumWriting`, `WriteProcStored`, ...). A handler is atomic because one task
runs it with `&mut self`. The two exceptions are modelled: a crash inside
`SectorsManager::write` leaves the file renamed and the old one in place
(`StoreIsCutShort`), and a crash inside a broadcast is the loss of some messages.
`ReplyWithoutOperation` is the `unwrap` of `op_id` when it is `None`. `Highest` is the
comparison as it is written: by write rank only, and any of the equal ones, because the
iteration order of a `HashMap` is arbitrary. `hist`, `proposed`, `stored` and
`lexical` are history variables that no action reads in a guard on the code's behaviour.

Messages stay in `msgs` and may be delivered late, again, in any order, or never. This
is what `README.md` grants the register ("implements StubbornLink"), and more than the
links of `RegisterClient` do. In particular a reply to an operation from before a crash
may arrive and end the worker, which `RegisterClient`, without reconnection, rules out.

**SectorFiles** holds what a write and a recovery do to the files of one sector, as
operators. `AtomicRegister` uses them as single steps. **SectorsManager** takes every
file operation (create, fill, sync, rename, update the map, remove) and every directory
entry of the recovery as a step, with several sectors and crashes between any two steps.
`WriteIsOneStep` shows that the two agree. **SectorStore** is the abstract promise of
the trait (a cell per sector), and `ImplementsStore` the refinement: `content`
is what a restart would find.

A crash of the process leaves `dir`, the directory as the operating system has it. A
power failure leaves `kept`, what the disk has of it. The file system is external and is
taken to put changes of the directory on disk in their order, at any time (`Flush`), and
the content of a file when `sync_data` asks for it; without that, a renamed file is
`Partial` after a power failure. `write` never syncs the directory itself, so the store
that the code implements is one that a power failure takes back to the last flush: a copy
that was acknowledged may go, but no copy is ever torn.

**RegisterProcess.** The connection tasks, the workers, the self-message task, their
channels, the semaphores and callbacks, with panics: a failed `expect` ends its task,
which closes its channel, which ends the tasks that send to it. An operation is
abstracted to one round of question and answers, since the rounds themselves are in
`AtomicRegister`. HMAC validity is a Boolean of a command. A client's connection holds
`Room` responses, then writes to it block.

**RegisterClient.** Start-up (connecting to one process after the other), `send` and
`broadcast` push by push, the two tasks of each link, a bounded TCP window, and crashes
and restarts of the peers. Calls of different workers interleave between their pushes.

**Transfer.** `serialize_rc` as a function from commands to bytes, and `deserialize_rc`
one `read_exact` at a time: the search for the magic number by sliding one byte, the
header, the fields by type, the tag. Long fields are shortened (a `u64` is two bytes, a
UUID and a tag one, a sector four), and offsets with them. A tag is equal to another only
for the same key and the same bytes. The peer sends messages, bytes of the magic number
outside of messages, and closes at any time. An unknown message type ends the task by the
`unwrap` at `transfer_operations.rs:205`, where `README.md:319` asks to discard the
header; `StopsOnlyAtStrayMagic` says what it takes to get there.

**DriverRelay.** One relay thread, its ring with the three positions `accepted`,
`forwarded` and `completed` modulo `Size` (256 in the code), `submit_atdd_request` beside
it, and the connection with its receive queue, error flag and count of awaited responses.
A response's request changes places with the first one not completed, as in
`atdd_finish_all_completed_requests`. Two things in the code put the positions wrong, and
the history variable `fault` records the first:

- *overrun*: `accepted - completed == 255` is computed in `int`, so it is never true while
  `accepted` has wrapped and `completed` has not, and a request is stored over an open one;
- *slipped*: after a connection error `forwarded` goes back to `completed`, and responses
  still in the receive queue are then read until none is awaited; `completed` passes
  `forwarded`, which stays behind it.

The properties say that the ring is right until then, and that nothing else breaks it.

## Runs

All runs say `CHECK_DEADLOCK FALSE`: the clients issue a bounded number of commands, and
then the system is at rest.

| Run | Instance | Shows |
|---|---|---|
| `ar_crash` | 3 processes, 2 reads or writes at process 1, 1 crash anywhere | `TypeOK`, `DurableQuorum`, `OneProposalPerOperation`, `Provenance`, `RestartKeepsCopyIfHighest`, `NeverRegresses`, `VersionsFollowRealTime`, `LinearizableIfHighest` |
| `ar_concurrent` | 2 processes, 3 operations, 2 at a time, 2 values | `VersionsFollowRealTime`, `LinearizableIfHighest` |
| `ar_live` | 3 processes, one directory behind, 1 operation, 2 crashes, fair | `OperationsReturn` |
| `sm_store` | 2 sectors, one with rising versions and one with any, 2 crashes or power failures | `TypeOK`, `ImplementsStore`, `WriteIsOneStep`, `QuietDirectory`, `LoadFindsFile` |
| `rp_live` | 2 sectors, 2 clients of which one may close, 3 commands, fair | `TypeOK`, `PermitPerCallback`, `RespondedOnce`, `NoTaskDies`, `AnsweredWhileOpen` |
| `rc_live` | 1 peer, 2 workers, 2 calls, 1 crash, fair | `TypeOK`, `InOrder`, `ArrivesOnOpenLink`, `RepeatsForever` |
| `tr_frames` | 2 commands of any type and key, 4 bytes outside of them | `ReturnsWhatWasSent`, `NothingSkipped`, `StopsOnlyAtStrayMagic` |
| `dr_relay` | ring of 4, 6 requests, 1 broken connection, fair | `TypeOK`, `RingHoldsOpenRequests`, `ForwardsOpenRequests`, `EveryRequestEnds` |

Four runs end in a counterexample to what a document or comment says:

| Run | Statement | What happens |
|---|---|---|
| `ar_stale_read` | "Every read returns the most recently written value." (`README.md`) | the highest copy is chosen by `wr` alone; a read after a write returns the older value. No crash, links in order. |
| `ar_lost_file` | "we can remove the old data safely" (`sectors_manager.rs`) | a process stores `(2,1)`, crashes before its broadcast, restarts, writes; the comparison by `wr` makes it use `(2,1)` again, and `write` deletes the file it just renamed. The constraint `LinksInOrder` keeps the run to links that deliver in order. Over the links of `RegisterClient` the other processes must restart too, since they do not reconnect. |
| `rp_lost_worker` | progress with a majority (`README.md`) | a client leaves before its response; the `expect` in `send_response` ends the sector's worker; another client is never answered. |
| `rc_reconnect` | "not allowed to lose any messages, even when a target process crashes" (`README.md`) | a broken connection is never replaced. |

`ar_stale_read` is why the passing linearizability runs check `LinearizableIfHighest`:
the history variable `lexical` turns false at the first choice that is not the highest
by `(ts, wr)`, and until then nothing else breaks linearizability.

### Bounds

- *Register.* Three processes are the fewest with a quorum that leaves one out; the
  stale copy, the missed write and the crash of a minority all happen. Two processes
  suffice for concurrent coordinators with colliding timestamps. With two processes both
  are in each quorum, so what `ar_concurrent` shows is about interleaving and not about
  quorums that differ; the latter are in `ar_crash`. `MaxAnswers`
  bounds how many different copies a process may send for one `ReadProc`.
- *Storage.* Two crashes cover one in a write and one in the recovery that follows.
  `MaxLag` is how many changes of the directory the disk may be behind: two are a rename
  and the removal after it. `MCCopy` has three versions, of which the newest is not the
  one of highest rank, and two copies of one version.
  `Rising` is what a register without the fault of `ar_stale_read` does; the other sector
  shows that a faulty caller does not disturb its neighbour.
- *Process.* One response of room makes writes block; two commands of one client and one
  of the other make one wait for a permit while the other is answered. `MaxLoad` counts a
  command beyond sector 0 twice: three commands for sector 0, or one for each sector.
- *Links.* One message in the window, one in the queue for a tick: longer ones only
  delay. `MaxQueue` limits ticks only, never calls.
- *Wire.* Two messages show that the first leaves the reader at the second. Four stray
  bytes are a whole magic number, or any beginning of one before a message. The sectors
  hold a magic number, or the end of one and the beginning of another.
- *Driver.* Six requests take the positions of a ring of four round once and a half; three
  open requests fill it. One broken connection is followed by one that lasts.

### Fairness

- `AtomicRegister!FairSpec`: what a running process has sent, a running process
  handles in the end. This is the stubborn link; crashes, restarts and clients are free.
- `RegisterProcess!FairSpec`: tokio runs every task that can go on; a client that keeps
  its connection reads it; peers answer. Semaphore permits are modelled in the order of
  the waiters, as tokio's semaphore gives them.
- `RegisterClient!FairSpec`: tasks and timers run, a peer that is up reads, a peer that
  crashed comes back. A timer that traffic keeps resetting need not fire; with finitely
  many calls it fires in the end.
- `DriverRelay!FairSpec`: the relay thread runs, a submission that has begun ends, a
  register process answers what it received while its connection lasts, and a closed
  connection answers what it is still sent with a reset. Of repeated attempts to connect
  one succeeds (strong fairness of `Connect`): the relay tries all configured addresses
  and, after a pause, again.

## Proofs

Every safety property that a passing run checks is also proved, for all values of the
constants, except linearizability itself and the three properties of `Transfer`.

### The register

`AtomicRegisterInv` holds the invariants. `AtomicRegisterTypes` proves the types and where
copies come from, `AtomicRegisterSteps` that every step keeps the invariant of the
operations, `AtomicRegisterEffects` what a step can do to the history, the files, the
messages and the operations under way, and `AtomicRegisterProofs` the theorems. They hold
for every `N`, every set of values, every set of initial directories (at most one file
each) and all bounds:

- `TypeCorrect`: `Spec => []TypeOK`;
- `ReturnsAreDurable`: `Spec => []DurableQuorum`. An operation that returned has had its
  copy, or a newer one, put in a file by a majority. "Newer" and "has had" matter: a
  file may be replaced later, and `ar_lost_file` shows it may even be deleted;
- `ProposesOnce`: `Spec => []OneProposalPerOperation`;
- `CopiesHaveOrigin`: `Spec => []Provenance`. No copy comes out of thin air;
- `RestartFindsRegister`: `Spec => []RestartKeepsCopyIfHighest`;
- `NoStepRegresses`: `Spec => NeverRegresses`, an action property;
- `OperationsInOrder`: `Spec => []VersionsFollowRealTime`. As long as every choice was the
  highest by `(ts, wr)`, an operation sends out no older copy than one that returned before
  it started, a write a newer one, and no two writes the same version.

The first three rest on `Invariance`, `Spec => []IInv`. `DurableQuorum` is not inductive: it
speaks only of operations that returned. `IInv` is the types and what an operation under
way means:

- `OperationInv`: the flags, the callback and `op_id` belong to the same operation;
- `ProposalInv`: an operation has sent a copy exactly when it is in or past its write
  phase, and the copy carries the data that it writes or will return;
- `AckInv`: a `WriteProc` carries a proposed copy, and an `Ack`, in a link or counted,
  comes from a process that has stored that copy or a newer one;
- `HeldInv`: what a register holds, its directory has held.

The completing Ack then has a majority in `acklist`, all of them holders
(`CompletedIsHeld`), and `stored` only grows (`HoldersGrow`). Nothing in this depends on the
comparison in `Highest`, only on the chosen copy being in the list.

The others add one invariant each. `KindInv` and `CopiesIn(G)`, every copy anywhere is in
`G`, give `Provenance`, with the copies that have an origin for `G`. `DiskInv` says what the
files of a process, its map and its register have to do with each other; while `lexical`
holds, one file is newer than all others and nothing the process ever stored is newer than
that one, in the middle of a store that was cut short too. `OrderInv` is the argument of the
algorithm: from every operation that returned on, a majority (`QuorumInv`) answers those that
start later with nothing older, in the files, in the `Value`s under way and in the read lists
(`Sees`). It meets the majority that the later operation waits for.

Between `OperationsInOrder` and linearizability is the construction of one order of all
operations: by version, a write before its reads. For an arbitrary history that takes an
induction over it, so `LinearizableIfHighest` is checked by TLC only.

Assumptions: `N` positive, `Zero` not a client's value, clients talk to processes, bounds
natural, and `FilesAssumption` on the directories. TLC evaluates them in every `ar_` run.

### The storage directory

`SectorsManagerProofs` proves every property of `sm_store`, for any sectors, copies and
bounds, however often the process crashed or the power failed, in recoveries too:

- `LoadAlwaysFindsFile`, `Spec => []LoadFindsFile`: the file that `read_data` opens when a
  register is built exists and is complete, so its `expect`s do not fail;
- `AtMostOneFile`, `Spec => []QuietDirectory`: without a write in progress there is at most
  one file per sector and no temporary file;
- `WritesAreAtomic`, `Spec => WriteIsOneStep`: the file operations of a write, other sectors
  being written at the same time, amount to the one step that `AtomicRegister` takes; so
  does what a crash and the recovery leave of it;
- `DirectoryIsAStore`, `Spec => ImplementsStore`: for the sectors in `Rising` the directory
  refines `SectorStore`. Each step is simulated by a step of the store or a stutter; a write
  takes effect at its rename, and a power failure goes back to the last flush;
- `TypeCorrect`, `Spec => []TypeOK`.

`LoadFindsFile` speaks of the moment of loading only. `IInv` is about single files:

- `Sound(dir)`, `Sound(kept)`: names are unique, and a file without its temporary name is
  filled and synced, in the directory and on the disk;
- `WriteInv`: a temporary file about to be renamed is synced;
- `MapInv`: `data_access` names a file that exists until the register is built, and
  during the recovery;
- `UnreadInv`: the entries that the recovery has still to read exist, and `data_access`
  names none of them, so removing what it names, or what is older, takes none away;
- `DownInv`: a process that is down has no map and no writes.

`FilesInv` is about all files of a sector, and the other theorems need both:

- `SectorInv(i)`: the files of a sector are those it had at rest, with the renamed one added
  from the rename to the end of the write; in a `Rising` sector the one at rest is the copy
  the register knows, and the write has a newer version;
- `CutInv(i)`: after a crash the newest file is what it would be without the write that was
  cut short, or with it;
- `TmpInv`, `ReadInv`: a temporary file belongs to a write in progress, and what a recovery
  has read and left is what `data_access` names.

For a sector outside `Rising` no refinement is claimed: `ar_lost_file` shows that its file
may be deleted.

Assumptions: `CopyAssumption` (a copy is a record of a positive version and data that is no
marker) and `BoundsAssumption`, which TLC evaluates in `sm_store`, and the in-order file
system above.

### The tasks of a process

`RegisterProcessProofs` proves every safety property of `rp_live`, for any clients, peers,
sectors and bounds, whichever tasks panic and when.

- `PermitGoesWithCallback`, `Spec => []PermitPerCallback`: the semaphore of a sector is taken
  exactly while one client command is in the channel of its worker or in the register, so
  `client_command` never replaces the callback of another operation;
- `TasksStayAlive`, `Spec => []NoTaskDies`: while no client has closed its connection, no
  task dies. With `IInv` this is inductive as it stands;
- `OneResponse`, `Spec => []RespondedOnce`: at most one response to a command, and the right
  one;
- `TypeCorrect`, `Spec => []TypeOK`.

`PermitPerCallback` counts callbacks as a set; `IInv` says where they are:

- `Guarded(s)`: the permit is free, or with the callback in the register and none in the
  channel, or with exactly one callback in the channel and none in the register. The
  position matters: the worker may take the command only from the third state, and leaves
  the second;
- `WorkOK`: channels hold valid commands and messages, and a worker that is responding has
  an operation, so the permit that it releases is that operation's;
- `ConnOK`, `SentOK`: a task that waits for a permit holds a valid command of its own
  connection, and what peers and the process send itself are messages, never client
  commands, so nothing else puts a callback in a channel.

`RespondedOnce` speaks of responses only. `TrackInv` follows a command to its response: it is
in the stream, or held by the waiting task, or a callback of its sector, or answered, and at
one of these places only (`PlaceInv`); from the first to the second it gets only if it
deserves `Ok`. `NumberInv` makes the request numbers of a client unique, without which a
response could not be told to belong to a command. `LineInv` (a waiting task is in line for
its sector's permit) and `StageInv` complete the types.

Assumptions: `ProcessAssumption` and `NoneAssumption` (connections of clients and of peers
differ, and `None` is neither a connection nor a command), evaluated in both `rp_` runs.

### The links

`RegisterClientProofs` shows `ArriveInOrder`, `Spec => []InOrder`, and `TypeCorrect`: a target
that got a message of a worker got every earlier one of that worker, for any number of
processes, workers, calls and crashes and any window. `IInv` is `TypeInv` and `OrderInv`:

- `Ordered(t)`: in what arrived, on the wire and in the channel of a target, no message comes
  before an earlier one of its worker;
- `Repeats(t)`: a message in the retransmission channel or slot has been in the channel, so
  that a repetition is never the first to arrive;
- `Pushed(w, t)`, `TodoInv(w)`: what a worker was told to send has entered the channel or is
  still to be pushed, to the channel before the retransmission channel. Without this order of
  the two pushes the timer could overtake the worker.

It is claimed of open connections only: of a broken one nothing more arrives.

Assumptions: `LinksAssumption`, evaluated in both `rc_` runs.

### The ring of a relay

`DriverRelayProofs` shows for a ring of any size, any number of requests and of broken
connections, and responses in any order: `RingIsRight`, `Spec => []RingHoldsOpenRequests`;
`ForwardsOnlyOpen`, `Spec => ForwardsOpenRequests`, an action property; and `TypeCorrect`,
which holds after a fault too. `IInv` is `TypeInv` and, until the first fault:

- `RingInv`: the slots from `completed` to `accepted` hold the open requests, each once, and a
  request being stored is at `accepted`, outside of them;
- `PositionInv`: `forwarded` is between the two, except while responses of a connection that
  broke are read, and what the thread may still forward is there;
- `LinkInv`, `TrafficInv`: every command under way and every response is for an open request,
  one for each, and on an open connection for one already forwarded; so a response ends a
  request in the ring, once.

Assumptions: `SizeAssumption` and `BoundsAssumption`, evaluated in `dr_relay`.

### Only model-checked

- Liveness (`OperationsReturn`, `AnsweredWhileOpen`, `ArrivesOnOpenLink`, `RepeatsForever`,
  `EveryRequestEnds`): the prover has no rules for fairness and `ENABLED`.
- `LinearizableIfHighest`: the order of operations is built by induction, see above.
- `Transfer`: its invariant has to say where in the unread bytes the messages begin, and to
  follow the offsets of six layouts through it. No proof has been written yet.

## Not modelled

- A file system that puts changes of the directory on disk out of order: it could keep
  the removal of the old file and lose the rename of the new one. `write` has no sync of
  the directory that would rule it out.
- The composition of `RegisterProcess` and `RegisterClient` with both rounds of the
  register. Each is checked against the weakest form of the other: the process against
  peers that answer in any order, the links against workers that call at any time.
- A property of start-up: `RegisterClientState::new` panics when a single peer is down
  (`register_client.rs:61`). `Connect` models it; it is what the code does.
- In the driver: the choice among relays and the requeue when all are full, setting up
  and removing the device, the layout of its messages. They touch no state of a relay,
  or are calls of the kernel's interfaces in sequence.
- Time: the 500 ms timer ticks at any moment.
- Overflow of `ts` (64 bits).
- Failing file operations other than the removal of a missing file.
- Commands between processes with an invalid tag (dropped) or sector (the processes
  share one configuration).

## Plan

1. A composition of `RegisterProcess` and `RegisterClient` with the two rounds of the
   register, to check progress over the links the code has.
2. A proof of `ReturnsWhatWasSent`, with the places of the unread messages in the stream.
3. The dispatch over several relays of the driver.
