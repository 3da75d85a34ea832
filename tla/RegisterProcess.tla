---------------------------- MODULE RegisterProcess ----------------------------
(***************************************************************************)
(* The tasks of one process (solution/src/register_process.rs): a task per *)
(* connection that reads commands (accept_connections), a worker per       *)
(* sector that owns its AtomicRegister (run_ar_worker), and the task that  *)
(* hands the process its messages to itself (handle_self_messages). They   *)
(* are joined by unbounded channels and by one semaphore per sector.       *)
(*                                                                         *)
(* The register itself is the module AtomicRegister. Here an operation is  *)
(* one question to every process and ends with the answers of a majority.  *)
(***************************************************************************)
EXTENDS Integers, Sequences, FiniteSets

CONSTANTS
    Client,         \* connections of clients
    Peer,           \* connections of the other processes
    Self,           \* this process
    NSectors,       \* Configuration.public.n_sectors
    None,
    Closing,        \* the clients that may close their connection
    Room,           \* responses a client's connection holds before writes block
    MaxCommands,    \* bound: commands of one client
    MaxLoad,        \* bound: commands of all clients, each beyond sector 0 counted twice
    MaxRequests     \* bound: questions of one peer

ASSUME ProcessAssumption ==
    /\ NSectors \in Nat \ {0} /\ Room \in Nat \ {0}
    /\ MaxCommands \in Nat /\ MaxLoad \in Nat /\ MaxRequests \in Nat
    /\ Closing \subseteq Client /\ Self \notin Peer /\ Client \intersect Peer = {}

Conn == Client \union Peer
Sector == 0 .. NSectors - 1

\* A client may ask for a sector that the process does not have.
ClientCommand ==
    [type : {"Client"}, conn : Client, rid : 1 .. MaxCommands, sector : 0 .. NSectors, mac : BOOLEAN]

\* None is no connection, command or status.
ASSUME NoneAssumption ==
    None \notin Client /\ None \notin ClientCommand /\ None \notin {"AuthFailure", "InvalidSectorIndex"}

Request(q, s, cmd) == [type |-> "Request", from |-> q, sector |-> s, op |-> cmd]
Answer(q, cmd) == [type |-> "Answer", from |-> q, sector |-> cmd.sector, op |-> cmd]
Response(cmd, status) == [rid |-> cmd.rid, status |-> status]

VARIABLES
    inbox,      \* bytes of a connection that its task has not read, by command
    task,       \* the connection's task: "reading", "waiting" for a permit, "dead"
    held,       \* the command of a waiting task
    permit,     \* sectors_guards: who has the only permit of the sector
    waiters,    \* sectors_guards: the tasks in line for it
    queue,      \* sectors_txs: the channel of the sector's worker
    worker,     \* "running", "responding" (in the callback), "dead"
    op,         \* the command whose callback the register holds
    answers,    \* the processes that answered it
    selfq,      \* the channel of handle_self_messages
    selfTask,   \* "running" or "dead"
    asked,      \* operations a peer has yet to answer
    outbuf,     \* responses written to a connection and not read by the client
    received,   \* responses the client has read
    closed,     \* the clients that closed their connection
    sent,       \* the commands of each client
    requests    \* the number of questions of each peer

connVars == <<inbox, task, held>>
guardVars == <<permit, waiters>>
workerVars == <<queue, worker, op, answers>>
selfVars == <<selfq, selfTask>>
clientVars == <<received, closed, sent>>
vars == <<connVars, guardVars, workerVars, selfVars, asked, outbuf, clientVars, requests>>

Init ==
    /\ inbox = [c \in Conn |-> <<>>]
    /\ task = [c \in Conn |-> "reading"]
    /\ held = [c \in Conn |-> None]
    /\ permit = [s \in Sector |-> None]
    /\ waiters = [s \in Sector |-> <<>>]
    /\ queue = [s \in Sector |-> <<>>]
    /\ worker = [s \in Sector |-> "running"]
    /\ op = [s \in Sector |-> None]
    /\ answers = [s \in Sector |-> {}]
    /\ selfq = <<>>
    /\ selfTask = "running"
    /\ asked = [q \in Peer |-> {}]
    /\ outbuf = [c \in Client |-> <<>>]
    /\ received = [c \in Client |-> <<>>]
    /\ closed = {}
    /\ sent = [c \in Client |-> {}]
    /\ requests = [q \in Peer |-> 0]

-----------------------------------------------------------------------------
(***************************************************************************)
(* Clients and peers, as the code uses them                                *)
(***************************************************************************)
Responses(c) == received[c] \o outbuf[c]
IsAnswered(c, cmd) == \E k \in DOMAIN Responses(c) : Responses(c)[k].rid = cmd.rid

\* How far a set of commands uses up the bound.
Load(S) == Cardinality(S) + Cardinality({cmd \in S : cmd.sector # 0})

\* A client waits for a response before it asks for the same sector again.
ClientSends(c, cmd) ==
    /\ c \notin closed /\ cmd.conn = c
    /\ cmd.rid = Cardinality(sent[c]) + 1
    /\ \A d \in sent[c] : d.sector = cmd.sector => IsAnswered(c, d)
    /\ sent' = [sent EXCEPT ![c] = @ \union {cmd}]
    /\ Load(UNION {sent'[d] : d \in Client}) <= MaxLoad
    /\ inbox' = [inbox EXCEPT ![c] = Append(@, cmd)]
    /\ UNCHANGED <<task, held, guardVars, workerVars, selfVars, asked, outbuf, received, closed, requests>>

ClientReads(c) ==
    /\ c \notin closed /\ outbuf[c] # <<>>
    /\ received' = [received EXCEPT ![c] = Append(@, Head(outbuf[c]))]
    /\ outbuf' = [outbuf EXCEPT ![c] = Tail(@)]
    /\ UNCHANGED <<connVars, guardVars, workerVars, selfVars, asked, closed, sent, requests>>

ClientCloses(c) ==
    /\ c \in Closing \ closed
    /\ closed' = closed \union {c}
    /\ UNCHANGED <<connVars, guardVars, workerVars, selfVars, asked, outbuf, received, sent, requests>>

PeerAnswers(q, cmd) ==
    /\ cmd \in asked[q]
    /\ asked' = [asked EXCEPT ![q] = @ \ {cmd}]
    /\ inbox' = [inbox EXCEPT ![q] = Append(@, Answer(q, cmd))]
    /\ UNCHANGED <<task, held, guardVars, workerVars, selfVars, outbuf, clientVars, requests>>

PeerAsks(q, s) ==
    /\ requests[q] < MaxRequests
    /\ requests' = [requests EXCEPT ![q] = @ + 1]
    /\ inbox' = [inbox EXCEPT ![q] = Append(@, Request(q, s, None))]
    /\ UNCHANGED <<task, held, guardVars, workerVars, selfVars, asked, outbuf, clientVars>>

-----------------------------------------------------------------------------
(***************************************************************************)
(* send_response: write_all blocks while the connection is full. On a      *)
(* connection the client closed it may still succeed, or fail and panic.   *)
(***************************************************************************)
WriteReturns(c, r) ==
    \/ /\ c \notin closed /\ Len(outbuf[c]) < Room
       /\ outbuf' = [outbuf EXCEPT ![c] = Append(@, r)]
    \/ c \in closed /\ UNCHANGED outbuf

\* Mutated WritePanics: a full connection is an error as well.
WritePanicsWhenFull(c) == c \in closed \/ Len(outbuf[c]) = Room

WritePanics(c) == c \in closed

(***************************************************************************)
(* The task of a connection                                                *)
(***************************************************************************)
Reads(c) == task[c] = "reading" /\ inbox[c] # <<>>
Consume(c) == inbox' = [inbox EXCEPT ![c] = Tail(@)]
Dies(c) == task' = [task EXCEPT ![c] = "dead"]

\* Mutated ValidSector: off by one.
ValidSectorOffByOne(s) == s <= NSectors

\* sector_idx < rp.n_sectors
ValidSector(s) == s < NSectors

\* Mutated Refusal: the sector is looked at first.
RefusalSectorFirst(cmd) ==
    IF ~ValidSector(cmd.sector) THEN "InvalidSectorIndex"
    ELSE IF ~cmd.mac THEN "AuthFailure" ELSE None

\* Invalid HMAC or sector index: the task answers by itself.
Refusal(cmd) ==
    IF ~cmd.mac THEN "AuthFailure"
    ELSE IF ~ValidSector(cmd.sector) THEN "InvalidSectorIndex" ELSE None

ReadRefused(c) ==
    /\ Reads(c) /\ c \in Client
    /\ Refusal(Head(inbox[c])) # None
    /\ Consume(c)
    /\ \/ WriteReturns(c, Response(Head(inbox[c]), Refusal(Head(inbox[c])))) /\ UNCHANGED task
       \/ WritePanics(c) /\ Dies(c) /\ UNCHANGED outbuf
    /\ UNCHANGED <<held, guardVars, workerVars, selfVars, asked, clientVars, requests>>

\* acquire_owned().await: the semaphore is fair, the task gets in line.
ReadClientCommand(c) ==
    LET cmd == Head(inbox[c]) IN
    /\ Reads(c) /\ c \in Client
    /\ Refusal(cmd) = None
    /\ Consume(c)
    /\ waiters' = [waiters EXCEPT ![cmd.sector] = Append(@, c)]
    /\ task' = [task EXCEPT ![c] = "waiting"]
    /\ held' = [held EXCEPT ![c] = cmd]
    /\ UNCHANGED <<permit, workerVars, selfVars, asked, outbuf, clientVars, requests>>

\* Mutated HasPermit: the semaphore is not limited to one permit.
HasSparePermit(c) ==
    /\ task[c] = "waiting"
    /\ Head(waiters[held[c].sector]) = c

\* The task has the permit and sends the command, with the callback that now owns
\* the permit, to the worker. If the worker is dead the send fails, the task panics
\* and the callback is dropped with the permit.
HasPermit(c) ==
    /\ task[c] = "waiting"
    /\ permit[held[c].sector] = None
    /\ Head(waiters[held[c].sector]) = c

Acquire(c) ==
    LET s == held[c].sector IN
    /\ HasPermit(c)
    /\ waiters' = [waiters EXCEPT ![s] = Tail(@)]
    /\ held' = [held EXCEPT ![c] = None]
    /\ \/ /\ worker[s] # "dead"
          /\ permit' = [permit EXCEPT ![s] = c]
          /\ queue' = [queue EXCEPT ![s] = Append(@, held[c])]
          /\ task' = [task EXCEPT ![c] = "reading"]
       \/ worker[s] = "dead" /\ Dies(c) /\ UNCHANGED <<permit, queue>>
    /\ UNCHANGED <<inbox, worker, op, answers, selfVars, asked, outbuf, clientVars, requests>>

ReadSystemCommand(q) ==
    LET s == Head(inbox[q]).sector IN
    /\ Reads(q) /\ q \in Peer
    /\ Consume(q)
    /\ \/ /\ worker[s] # "dead"
          /\ queue' = [queue EXCEPT ![s] = Append(@, Head(inbox[q]))]
          /\ UNCHANGED task
       \/ worker[s] = "dead" /\ Dies(q) /\ UNCHANGED queue
    /\ UNCHANGED <<held, guardVars, worker, op, answers, selfVars, asked, outbuf, clientVars, requests>>

\* The end of the stream, or its reset: "Failed to deserialize command".
ConnectionEnds(c) ==
    /\ task[c] = "reading" /\ c \in closed
    /\ Dies(c)
    /\ UNCHANGED <<inbox, held, guardVars, workerVars, selfVars, asked, outbuf, clientVars, requests>>

-----------------------------------------------------------------------------
(***************************************************************************)
(* The worker of a sector. When it panics its register is dropped with the *)
(* callback of the operation in progress, and so is that permit. The       *)
(* channel is closed but keeps what was not received, callbacks included.  *)
(***************************************************************************)
Majority(S) == 2 * Cardinality(S) > Cardinality(Peer) + 1

Handles(s, type) == worker[s] = "running" /\ queue[s] # <<>> /\ Head(queue[s]).type = type

WorkerDies(s) ==
    /\ worker' = [worker EXCEPT ![s] = "dead"]
    /\ op' = [op EXCEPT ![s] = None]
    /\ answers' = [answers EXCEPT ![s] = {}]

\* client_command: the register keeps the callback and broadcasts. The message to
\* the process itself goes to handle_self_messages; if that task is dead the
\* broadcast panics, after it reached some of the peers.
HandleClientCommand(s) ==
    LET cmd == Head(queue[s]) IN
    /\ Handles(s, "Client")
    /\ queue' = [queue EXCEPT ![s] = Tail(@)]
    /\ \/ /\ selfTask = "running"
          /\ selfq' = Append(selfq, Request(Self, s, cmd))
          /\ asked' = [q \in Peer |-> asked[q] \union {cmd}]
          /\ op' = [op EXCEPT ![s] = cmd]
          /\ answers' = [answers EXCEPT ![s] = {}]
          /\ UNCHANGED <<worker, permit>>
       \/ /\ selfTask = "dead"
          /\ \E Q \in SUBSET Peer :
                asked' = [q \in Peer |-> IF q \in Q THEN asked[q] \union {cmd} ELSE asked[q]]
          /\ WorkerDies(s)
          /\ permit' = [permit EXCEPT ![s] = None]
          /\ UNCHANGED selfq
    /\ UNCHANGED <<connVars, waiters, selfTask, outbuf, clientVars, requests>>

\* system_command, a ReadProc or WriteProc: the answer to a peer goes to its link,
\* the answer to the process itself to handle_self_messages.
HandleRequest(s) ==
    LET m == Head(queue[s]) IN
    /\ Handles(s, "Request")
    /\ queue' = [queue EXCEPT ![s] = Tail(@)]
    /\ \/ m.from # Self /\ UNCHANGED <<selfq, worker, op, answers, permit>>
       \/ /\ m.from = Self /\ selfTask = "running"
          /\ selfq' = Append(selfq, Answer(Self, m.op))
          /\ UNCHANGED <<worker, op, answers, permit>>
       \/ /\ m.from = Self /\ selfTask = "dead"
          /\ WorkerDies(s)
          /\ permit' = [permit EXCEPT ![s] = IF op[s] = None THEN @ ELSE None]
          /\ UNCHANGED selfq
    /\ UNCHANGED <<connVars, waiters, selfTask, asked, outbuf, clientVars, requests>>

\* system_command, a Value or Ack: the one that completes a majority runs the callback.
HandleAnswer(s) ==
    LET m == Head(queue[s]) IN
    /\ Handles(s, "Answer")
    /\ queue' = [queue EXCEPT ![s] = Tail(@)]
    /\ \/ /\ op[s] = m.op
          /\ answers' = [answers EXCEPT ![s] = @ \union {m.from}]
          /\ worker' = [worker EXCEPT ![s] = IF Majority(answers'[s]) THEN "responding" ELSE @]
       \/ op[s] # m.op /\ UNCHANGED <<answers, worker>>
    /\ UNCHANGED <<connVars, guardVars, op, selfVars, asked, outbuf, clientVars, requests>>

\* Mutated Respond: the permit is not dropped after the response.
RespondKeepsPermit(s) ==
    /\ worker[s] = "responding"
    /\ WriteReturns(op[s].conn, Response(op[s], "Ok"))
    /\ worker' = [worker EXCEPT ![s] = "running"]
    /\ op' = [op EXCEPT ![s] = None]
    /\ answers' = [answers EXCEPT ![s] = {}]
    /\ UNCHANGED <<connVars, guardVars, queue, selfVars, asked, clientVars, requests>>

\* success_callback: send_response, then drop(guard).
Respond(s) ==
    /\ worker[s] = "responding"
    /\ \/ /\ WriteReturns(op[s].conn, Response(op[s], "Ok"))
          /\ worker' = [worker EXCEPT ![s] = "running"]
          /\ op' = [op EXCEPT ![s] = None]
          /\ answers' = [answers EXCEPT ![s] = {}]
       \/ WritePanics(op[s].conn) /\ WorkerDies(s) /\ UNCHANGED outbuf
    /\ permit' = [permit EXCEPT ![s] = None]
    /\ UNCHANGED <<connVars, waiters, queue, selfVars, asked, clientVars, requests>>

\* handle_self_messages: a dead worker's channel is closed and the send panics.
HandleSelfMessage ==
    LET s == Head(selfq).sector IN
    /\ selfTask = "running" /\ selfq # <<>>
    /\ selfq' = Tail(selfq)
    /\ \/ /\ worker[s] # "dead"
          /\ queue' = [queue EXCEPT ![s] = Append(@, Head(selfq))]
          /\ UNCHANGED selfTask
       \/ worker[s] = "dead" /\ selfTask' = "dead" /\ UNCHANGED queue
    /\ UNCHANGED <<connVars, guardVars, worker, op, answers, asked, outbuf, clientVars, requests>>

-----------------------------------------------------------------------------
ConnectionStep(c) ==
    \/ ReadRefused(c)
    \/ ReadClientCommand(c)
    \/ Acquire(c)
    \/ ReadSystemCommand(c)
    \/ ConnectionEnds(c)

WorkerStep(s) ==
    \/ HandleClientCommand(s)
    \/ HandleRequest(s)
    \/ HandleAnswer(s)
    \/ Respond(s)

Next ==
    \/ \E c \in Client : \E cmd \in ClientCommand : ClientSends(c, cmd)
    \/ \E c \in Client : ClientReads(c)
    \/ \E c \in Client : ClientCloses(c)
    \/ \E q \in Peer : \E cmd \in asked[q] : PeerAnswers(q, cmd)
    \/ \E q \in Peer, s \in Sector : PeerAsks(q, s)
    \/ \E c \in Conn : ConnectionStep(c)
    \/ \E s \in Sector : WorkerStep(s)
    \/ HandleSelfMessage

Spec == Init /\ [][Next]_vars

(***************************************************************************)
(* tokio polls every task that can proceed. A client that keeps its        *)
(* connection reads its responses. A peer answers: its link is stubborn.   *)
(***************************************************************************)
FairSpec ==
    /\ Spec
    /\ \A c \in Conn : WF_vars(ConnectionStep(c))
    /\ \A s \in Sector : WF_vars(WorkerStep(s))
    /\ WF_vars(HandleSelfMessage)
    /\ \A c \in Client : WF_vars(ClientReads(c))
    /\ \A q \in Peer : WF_vars(\E cmd \in asked[q] : PeerAnswers(q, cmd))

-----------------------------------------------------------------------------
(***************************************************************************)
(* Properties                                                              *)
(***************************************************************************)
SystemCommand == [type : {"Request"}, from : Peer \union {Self}, sector : Sector, op : ClientCommand \union {None}]
    \union [type : {"Answer"}, from : Peer \union {Self}, sector : Sector, op : ClientCommand]

\* Every variable stays in its type.
TypeOK ==
    /\ \A c \in Client : \A k \in DOMAIN inbox[c] : inbox[c][k] \in ClientCommand
    /\ \A q \in Peer : \A k \in DOMAIN inbox[q] : inbox[q][k] \in SystemCommand
    /\ task \in [Conn -> {"reading", "waiting", "dead"}]
    /\ \A c \in Conn :
          IF task[c] = "waiting" THEN held[c] \in ClientCommand /\ held[c].sector \in Sector
                                 ELSE held[c] = None
    /\ permit \in [Sector -> Client \union {None}]
    /\ \A s \in Sector : \A k \in DOMAIN waiters[s] : waiters[s][k] \in Client
    /\ \A s \in Sector : \A k \in DOMAIN queue[s] : queue[s][k] \in ClientCommand \union SystemCommand
    /\ worker \in [Sector -> {"running", "responding", "dead"}]
    /\ op \in [Sector -> ClientCommand \union {None}]
    /\ answers \in [Sector -> SUBSET (Peer \union {Self})]
    /\ \A k \in DOMAIN selfq : selfq[k] \in SystemCommand
    /\ selfTask \in {"running", "dead"}
    /\ asked \in [Peer -> SUBSET ClientCommand]
    /\ closed \subseteq Closing
    /\ \A c \in Client : Len(outbuf[c]) <= Room /\ Cardinality(sent[c]) <= MaxCommands
    /\ requests \in [Peer -> 0 .. MaxRequests]

\* The commands of sector s whose callback exists: in the channel or in the register.
Callbacks(s) ==
    {queue[s][k] : k \in {j \in DOMAIN queue[s] : queue[s][j].type = "Client"}}
        \union ({op[s]} \ {None})

\* The permit of a sector goes with its callback: one client command at a time is on
\* its way to the register or in it, so client_command never replaces the callback of
\* an operation in progress, and when a task, a worker or the response fails the
\* permit is not lost and not given twice.
PermitPerCallback ==
    \A s \in Sector :
        \/ Callbacks(s) = {} /\ permit[s] = None
        \/ \E cmd \in Callbacks(s) : Callbacks(s) = {cmd} /\ permit[s] = cmd.conn

\* A client gets at most one response to a command, with the status the command
\* deserves; in particular an operation runs only for an authentic command.
RespondedOnce ==
    \A c \in Client :
        /\ \A j, k \in DOMAIN Responses(c) : Responses(c)[j].rid = Responses(c)[k].rid => j = k
        /\ \A k \in DOMAIN Responses(c) : \E cmd \in sent[c] :
              Responses(c)[k] = Response(cmd, IF ~cmd.mac THEN "AuthFailure"
                                              ELSE IF cmd.sector \in Sector THEN "Ok"
                                              ELSE "InvalidSectorIndex")

\* As long as every client keeps its connection no task panics, however full the
\* connections are and however the tasks interleave.
NoTaskDies ==
    closed = {} => /\ \A c \in Conn : task[c] # "dead"
                   /\ \A s \in Sector : worker[s] # "dead"
                   /\ selfTask = "running"

Sent(c, r) == \E cmd \in sent[c] : cmd.rid = r
Responded(c, r) == \E k \in DOMAIN received[c] : received[c][k].rid = r

\* As long as every client keeps its connection each command gets a response: no permit,
\* channel, full connection or other client blocks it for ever.
AnsweredWhileOpen ==
    \A c \in Client \ Closing : \A r \in 1 .. MaxCommands :
        Sent(c, r) ~> (Responded(c, r) \/ closed # {})

\* A client that keeps its connection gets a response to each of its commands, whatever
\* other clients do. (README.md: "the system is able to progress on operations as long
\* as at least a majority of the instances are working correctly"; here all of them are.)
EveryCommandAnswered ==
    \A c \in Client \ Closing : \A r \in 1 .. MaxCommands : Sent(c, r) ~> Responded(c, r)
=============================================================================
