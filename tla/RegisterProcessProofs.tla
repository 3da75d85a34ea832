------------------------- MODULE RegisterProcessProofs -------------------------
(***************************************************************************)
(* Proofs about the tasks of a process, for any number of clients, peers   *)
(* and sectors, while clients close connections and tasks panic in any     *)
(* order: the permit of a sector goes with its callback, nobody dies while *)
(* all connections are open, a command gets at most one response and the   *)
(* right one, and every variable stays in its type.                        *)
(***************************************************************************)
EXTENDS RegisterProcess, FiniteSetTheorems, SequenceTheorems, TLAPS

ValidCommand == {cmd \in ClientCommand : cmd.sector \in Sector}
CommandOf(c) == {cmd \in ClientCommand : cmd.conn = c}

\* Messages of the register. What the process asks itself is about an operation.
Question == [type : {"Request"}, from : Peer \union {Self}, sector : Sector, op : ValidCommand]
    \union [type : {"Request"}, from : Peer, sector : Sector, op : {None}]
Reply == [type : {"Answer"}, from : Peer \union {Self}, sector : Sector, op : ValidCommand]
Message == Question \union Reply

\* The client commands in a channel: none, or one, of connection c.
NoClient(q) == \A k \in DOMAIN q : q[k].type # "Client"
OneClient(q, c) ==
    \E k \in DOMAIN q :
        /\ q[k].type = "Client" /\ q[k].conn = c
        /\ \A j \in DOMAIN q : q[j].type = "Client" => j = k

\* What the tasks of connections read and hold.
ConnOK ==
    /\ DOMAIN inbox = Conn
    /\ \A c \in Client : inbox[c] \in Seq(CommandOf(c))
    /\ \A q \in Peer : inbox[q] \in Seq(Message)
    /\ task = [c \in Conn |-> task[c]]
    /\ held = [c \in Conn |-> held[c]]
    /\ \A c \in Conn : task[c] = "waiting" => c \in Client /\ held[c] \in CommandOf(c) \cap ValidCommand

\* What the workers and the semaphores hold.
WorkOK ==
    /\ permit = [s \in Sector |-> permit[s]]
    /\ queue \in [Sector -> Seq(ValidCommand \union Message)]
    /\ worker = [s \in Sector |-> worker[s]]
    /\ op \in [Sector -> ValidCommand \union {None}]
    /\ \A s \in Sector : worker[s] = "responding" => op[s] # None

\* What is on its way to the process itself and to its peers.
SentOK ==
    /\ selfq \in Seq(Message)
    /\ asked \in [Peer -> SUBSET ValidCommand]

\* The permit is free, or with the callback in the register, or with the callback in the channel.
Guarded(s) ==
    \/ permit[s] = None /\ op[s] = None /\ NoClient(queue[s])
    \/ op[s] # None /\ permit[s] = op[s].conn /\ NoClient(queue[s])
    \/ op[s] = None /\ OneClient(queue[s], permit[s])

IInv == ConnOK /\ WorkOK /\ SentOK /\ \A s \in Sector : Guarded(s)

-----------------------------------------------------------------------------
\* A client command and a message of the register are told apart by their type.
LEMMA Kinds ==
  /\ \A cmd \in ValidCommand :
        cmd \in ClientCommand /\ cmd.type = "Client" /\ cmd.sector \in Sector /\ cmd.conn \in Client
  /\ \A m \in Message : m.type # "Client" /\ m.sector \in Sector
  /\ None \notin ValidCommand
BY ProcessAssumption, NoneAssumption, Zenon DEF ValidCommand, ClientCommand, Message, Question, Reply

\* A message is put in a channel without, or with one, client command.
LEMMA AppendOther ==
  ASSUME NEW S, NEW q \in Seq(S), NEW x \in S, x.type # "Client"
  PROVE  /\ NoClient(q) => NoClient(Append(q, x))
         /\ \A c : OneClient(q, c) => OneClient(Append(q, x), c)
<1>1. NoClient(q) => NoClient(Append(q, x))
  BY DEF NoClient
<1>2. ASSUME NEW c, OneClient(q, c)
      PROVE  OneClient(Append(q, x), c)
  <2>1. PICK k \in DOMAIN q : /\ q[k].type = "Client" /\ q[k].conn = c
                              /\ \A j \in DOMAIN q : q[j].type = "Client" => j = k
    BY <1>2, Zenon DEF OneClient
  <2>2. k \in DOMAIN Append(q, x) /\ Append(q, x)[k] = q[k]
    OBVIOUS
  <2>3. ASSUME NEW j \in DOMAIN Append(q, x), Append(q, x)[j].type = "Client"
        PROVE  j = k
    BY <2>1, <2>3
  <2>4. QED
    BY <2>1, <2>2, <2>3, Zenon DEF OneClient
<1>3. QED
  BY <1>1, <1>2, Zenon

\* A client command is put in a channel that has none.
LEMMA AppendClient ==
  ASSUME NEW S, NEW q \in Seq(S), NEW x \in S, x.type = "Client", NoClient(q)
  PROVE  OneClient(Append(q, x), x.conn)
<1>1. /\ Len(q) + 1 \in DOMAIN Append(q, x) /\ Append(q, x)[Len(q) + 1] = x
      /\ \A j \in DOMAIN Append(q, x) : j # Len(q) + 1 => j \in DOMAIN q /\ Append(q, x)[j] = q[j]
  OBVIOUS
<1>2. QED
  BY <1>1, Zenon DEF OneClient, NoClient

\* The worker takes the first of its channel.
LEMMA TakeFirst ==
  ASSUME NEW S, NEW q \in Seq(S), q # <<>>
  PROVE  /\ Tail(q) \in Seq(S) /\ Head(q) \in S
         /\ NoClient(q) => Head(q).type # "Client" /\ NoClient(Tail(q))
         /\ \A c : OneClient(q, c) =>
               \/ Head(q).type = "Client" /\ Head(q).conn = c /\ NoClient(Tail(q))
               \/ Head(q).type # "Client" /\ OneClient(Tail(q), c)
<1>1. /\ Tail(q) \in Seq(S) /\ Head(q) \in S /\ Head(q) = q[1] /\ 1 \in DOMAIN q
      /\ \A j \in DOMAIN Tail(q) : j + 1 \in DOMAIN q /\ Tail(q)[j] = q[j + 1] /\ j + 1 # 1
      /\ \A j \in DOMAIN q : j # 1 => j - 1 \in DOMAIN Tail(q) /\ Tail(q)[j - 1] = q[j]
  OBVIOUS
<1>2. NoClient(q) => Head(q).type # "Client" /\ NoClient(Tail(q))
  BY <1>1 DEF NoClient
<1>3. ASSUME NEW c, OneClient(q, c)
      PROVE  \/ Head(q).type = "Client" /\ Head(q).conn = c /\ NoClient(Tail(q))
             \/ Head(q).type # "Client" /\ OneClient(Tail(q), c)
  <2>1. PICK k \in DOMAIN q : /\ q[k].type = "Client" /\ q[k].conn = c
                              /\ \A j \in DOMAIN q : q[j].type = "Client" => j = k
    BY <1>3, Zenon DEF OneClient
  <2>2. CASE k = 1
    BY <1>1, <2>1, <2>2, Zenon DEF NoClient
  <2>3. CASE k # 1
    <3>1. k - 1 \in DOMAIN Tail(q) /\ Tail(q)[k - 1] = q[k]
      BY <1>1, <2>3, Zenon
    <3>2. ASSUME NEW j \in DOMAIN Tail(q), Tail(q)[j].type = "Client"
          PROVE  j = k - 1
      <4>1. j + 1 \in DOMAIN q /\ q[j + 1].type = "Client"
        BY <1>1, <3>2, Zenon
      <4>2. j + 1 = k /\ j \in Int
        BY <2>1, <4>1
      <4>3. QED
        BY <4>2
    <3>3. OneClient(Tail(q), c)
      BY <2>1, <3>1, <3>2, Zenon DEF OneClient
    <3>4. QED
      BY <1>1, <2>1, <2>3, <3>3, Zenon
  <2>4. QED
    BY <2>2, <2>3, Zenon
<1>4. QED
  BY <1>1, <1>2, <1>3, Zenon

\* A sector that a step leaves alone stays guarded.
LEMMA OtherSector ==
  ASSUME NEW s \in Sector, Guarded(s),
         permit'[s] = permit[s], op'[s] = op[s], queue'[s] = queue[s]
  PROVE  Guarded(s)'
BY Zenon DEF Guarded

-----------------------------------------------------------------------------
\* The initial state.
LEMMA InitIInv == Init => IInv
BY DEF Init, IInv, ConnOK, WorkOK, SentOK, Guarded, NoClient, Conn

\* Steps that leave the workers, the semaphores and the messages alone.
LEMMA WorkUnchanged ==
  ASSUME IInv, UNCHANGED <<permit, queue, worker, op>>
  PROVE  WorkOK' /\ \A s \in Sector : Guarded(s)'
BY Zenon DEF IInv, WorkOK, Guarded

\* A command or a message arrives at a connection.
LEMMA Arrives ==
  ASSUME ConnOK, NEW c \in Conn, NEW x, c \in Client => x \in CommandOf(c), c \in Peer => x \in Message,
         inbox' = [inbox EXCEPT ![c] = Append(@, x)], UNCHANGED <<task, held>>
  PROVE  ConnOK'
<1>1. \A d \in Conn : inbox'[d] = IF d = c THEN Append(inbox[c], x) ELSE inbox[d]
  BY Zenon DEF ConnOK
<1>2. ASSUME NEW d \in Client PROVE inbox'[d] \in Seq(CommandOf(d))
  <2>1. d \in Conn /\ inbox[d] \in Seq(CommandOf(d))
    BY Zenon DEF ConnOK, Conn
  <2>2. d = c => Append(inbox[d], x) \in Seq(CommandOf(d))
    BY <2>1
  <2>3. QED
    BY <1>1, <2>1, <2>2, Zenon
<1>3. ASSUME NEW q \in Peer PROVE inbox'[q] \in Seq(Message)
  <2>1. q \in Conn /\ inbox[q] \in Seq(Message)
    BY Zenon DEF ConnOK, Conn
  <2>2. q = c => Append(inbox[q], x) \in Seq(Message)
    BY <2>1
  <2>3. QED
    BY <1>1, <2>1, <2>2, Zenon
<1>4. QED
  BY <1>2, <1>3, Zenon DEF ConnOK

\* A client sends a command of its own.
LEMMA ClientSendsKeepsIInv ==
  ASSUME IInv, NEW c \in Client, NEW cmd \in ClientCommand, ClientSends(c, cmd)
  PROVE  IInv'
<1>1. WorkOK' /\ SentOK' /\ \A s \in Sector : Guarded(s)'
  BY WorkUnchanged, Zenon DEF IInv, SentOK, ClientSends, guardVars, workerVars, selfVars
<1>2. c \in Conn /\ c \notin Peer /\ cmd \in CommandOf(c)
  BY ProcessAssumption, Zenon DEF Conn, CommandOf, ClientSends
<1>3. ConnOK'
  BY <1>2, Arrives, Zenon DEF IInv, ClientSends
<1>4. QED
  BY <1>1, <1>3, Zenon DEF IInv

\* A peer answers a command it was asked about.
LEMMA PeerAnswersKeepsIInv ==
  ASSUME IInv, NEW q \in Peer, NEW cmd \in asked[q], PeerAnswers(q, cmd)
  PROVE  IInv'
<1>1. WorkOK' /\ \A s \in Sector : Guarded(s)'
  BY WorkUnchanged, Zenon DEF PeerAnswers, guardVars, workerVars
<1>2. SentOK'
  BY Zenon DEF IInv, SentOK, PeerAnswers, selfVars
<1>3. cmd \in ValidCommand
  BY Zenon DEF IInv, SentOK
<1>4. Answer(q, cmd) \in Message
  BY <1>3, Kinds, Zenon DEF Answer, Message, Reply
<1>5. q \in Conn /\ q \notin Client
  BY ProcessAssumption, Zenon DEF Conn
<1>6. ConnOK'
  BY <1>4, <1>5, Arrives, Zenon DEF IInv, PeerAnswers
<1>7. QED
  BY <1>1, <1>2, <1>6, Zenon DEF IInv

\* A peer asks about a sector, for an operation of its own.
LEMMA PeerAsksKeepsIInv ==
  ASSUME IInv, NEW q \in Peer, NEW s \in Sector, PeerAsks(q, s)
  PROVE  IInv'
<1>1. WorkOK' /\ SentOK' /\ \A t \in Sector : Guarded(t)'
  BY WorkUnchanged, Zenon DEF IInv, SentOK, PeerAsks, guardVars, workerVars, selfVars
<1>2. Request(q, s, None) \in Message
  BY Zenon DEF Request, Message, Question
<1>3. q \in Conn /\ q \notin Client
  BY ProcessAssumption, Zenon DEF Conn
<1>4. ConnOK'
  BY <1>2, <1>3, Arrives, Zenon DEF IInv, PeerAsks
<1>5. QED
  BY <1>1, <1>4, Zenon DEF IInv

-----------------------------------------------------------------------------
\* The task of a connection has read a command.
LEMMA Consumed ==
  ASSUME ConnOK, NEW c \in Conn, inbox[c] # <<>>, Consume(c)
  PROVE  /\ DOMAIN inbox' = Conn
         /\ \A d \in Client : inbox'[d] \in Seq(CommandOf(d))
         /\ \A q \in Peer : inbox'[q] \in Seq(Message)
<1>1. \A d \in Conn : inbox'[d] = IF d = c THEN Tail(inbox[c]) ELSE inbox[d]
  BY Zenon DEF ConnOK, Consume
<1>2. ASSUME NEW d \in Client PROVE inbox'[d] \in Seq(CommandOf(d))
  <2>1. d \in Conn /\ inbox[d] \in Seq(CommandOf(d))
    BY Zenon DEF ConnOK, Conn
  <2>2. d = c => Tail(inbox[d]) \in Seq(CommandOf(d))
    BY <2>1, TakeFirst, Zenon
  <2>3. QED
    BY <1>1, <2>1, <2>2, Zenon
<1>3. ASSUME NEW q \in Peer PROVE inbox'[q] \in Seq(Message)
  <2>1. q \in Conn /\ inbox[q] \in Seq(Message)
    BY Zenon DEF ConnOK, Conn
  <2>2. q = c => Tail(inbox[q]) \in Seq(Message)
    BY <2>1, TakeFirst, Zenon
  <2>3. QED
    BY <1>1, <2>1, <2>2, Zenon
<1>4. QED
  BY <1>2, <1>3, Zenon DEF ConnOK, Consume

\* handle_client_command refuses a command: no permit is involved.
LEMMA ReadRefusedKeepsIInv ==
  ASSUME IInv, NEW c \in Conn, ReadRefused(c)
  PROVE  IInv'
<1>1. WorkOK' /\ SentOK' /\ \A s \in Sector : Guarded(s)'
  BY WorkUnchanged, Zenon DEF IInv, SentOK, ReadRefused, guardVars, workerVars, selfVars
<1>2. /\ DOMAIN inbox' = Conn
      /\ \A d \in Client : inbox'[d] \in Seq(CommandOf(d))
      /\ \A q \in Peer : inbox'[q] \in Seq(Message)
  BY Consumed, Zenon DEF IInv, ReadRefused, Reads
<1>3. held' = held /\ (task' = task \/ task' = [task EXCEPT ![c] = "dead"])
  BY Zenon DEF ReadRefused, Dies
<1>4. ConnOK'
  BY <1>2, <1>3, Zenon DEF IInv, ConnOK
<1>5. QED
  BY <1>1, <1>4, Zenon DEF IInv

\* handle_client_command reads a valid command and waits for the permit of its sector.
LEMMA ReadClientCommandKeepsIInv ==
  ASSUME IInv, NEW c \in Conn, ReadClientCommand(c)
  PROVE  IInv'
<1> DEFINE cmd == Head(inbox[c])
<1>1. WorkOK' /\ SentOK' /\ \A s \in Sector : Guarded(s)'
  BY WorkUnchanged, Zenon DEF IInv, SentOK, ReadClientCommand, workerVars, selfVars
<1>2. /\ DOMAIN inbox' = Conn
      /\ \A d \in Client : inbox'[d] \in Seq(CommandOf(d))
      /\ \A q \in Peer : inbox'[q] \in Seq(Message)
  BY Consumed, Zenon DEF IInv, ReadClientCommand, Reads
<1>3. c \in Client /\ cmd \in CommandOf(c)
  BY DEF IInv, ConnOK, ReadClientCommand, Reads
<1>4. cmd \in ValidCommand
  BY <1>3, NoneAssumption, ProcessAssumption
     DEF ReadClientCommand, Refusal, ValidSector, ValidCommand, CommandOf, ClientCommand, Sector
<1>5. task' = [task EXCEPT ![c] = "waiting"] /\ held' = [held EXCEPT ![c] = cmd]
  BY Zenon DEF ReadClientCommand
<1>6. ConnOK'
  BY <1>2, <1>3, <1>4, <1>5, Zenon DEF IInv, ConnOK
<1>7. QED
  BY <1>1, <1>6 DEF IInv

\* The task gets the permit when no callback has it, and gives it to the callback that
\* it puts in the channel.
LEMMA AcquireKeepsIInv ==
  ASSUME IInv, NEW c \in Conn, Acquire(c)
  PROVE  IInv'
<1>0. c \in Client /\ held[c] \in ValidCommand /\ held[c].conn = c
  BY Zenon DEF IInv, ConnOK, Acquire, HasPermit, CommandOf
<1>1. PICK s \in Sector : s = held[c].sector
  BY <1>0, Kinds, Zenon
<1>2. permit[s] = None /\ held[c].type = "Client"
  BY <1>0, <1>1, Kinds, Zenon DEF Acquire, HasPermit
<1>3. SentOK' /\ worker' = worker /\ op' = op /\ inbox' = inbox /\ held' = [held EXCEPT ![c] = None]
  BY Zenon DEF IInv, SentOK, Acquire, selfVars
<1>4. task' = [task EXCEPT ![c] = "reading"] \/ task' = [task EXCEPT ![c] = "dead"]
  BY Zenon DEF Acquire, Dies
<1>5. ConnOK'
  BY <1>3, <1>4, Zenon DEF IInv, ConnOK
<1>6. CASE permit' = permit /\ queue' = queue
  BY <1>3, <1>5, <1>6, WorkUnchanged, Zenon DEF IInv
<1>7. CASE permit' = [permit EXCEPT ![s] = c] /\ queue' = [queue EXCEPT ![s] = Append(@, held[c])]
  <2>1. queue[s] \in Seq(ValidCommand \union Message)
    BY Zenon DEF IInv, WorkOK
  <2>2. WorkOK'
    <3>1. Append(queue[s], held[c]) \in Seq(ValidCommand \union Message)
      BY <1>0, <2>1
    <3>2. queue' \in [Sector -> Seq(ValidCommand \union Message)]
      BY <1>7, <3>1, Zenon DEF IInv, WorkOK
    <3>3. QED
      BY <1>3, <1>7, <3>2, Zenon DEF IInv, WorkOK
  <2>3. op[s] = None /\ NoClient(queue[s])
    <3>1. c # None /\ \A d \in Client : d # None
      BY <1>0, NoneAssumption, Zenon
    <3>2. op[s] # None => op[s].conn # None
      BY <1>2, <3>1, Kinds, Zenon DEF IInv, WorkOK
    <3>3. ~OneClient(queue[s], None)
      <4>1. \A k \in DOMAIN queue[s] : queue[s][k].type = "Client" => queue[s][k].conn # None
        BY <2>1, <3>1, Kinds
      <4>2. QED
        BY <4>1, Zenon DEF OneClient
    <3>4. QED
      BY <1>2, <3>2, <3>3, Zenon DEF IInv, Guarded
  <2>4. permit'[s] = c /\ queue'[s] = Append(queue[s], held[c])
    BY <1>2, <1>7, Zenon DEF IInv, WorkOK
  <2>5. OneClient(Append(queue[s], held[c]), c)
    BY <1>0, <1>2, <2>1, <2>3, AppendClient, Zenon
  <2>6. Guarded(s)'
    BY <1>3, <2>3, <2>4, <2>5, Zenon DEF Guarded
  <2>7. ASSUME NEW t \in Sector, t # s PROVE Guarded(t)'
    <3>1. permit'[t] = permit[t] /\ op'[t] = op[t] /\ queue'[t] = queue[t]
      BY <1>3, <1>7, <2>7, Zenon DEF IInv, WorkOK
    <3>2. QED
      BY <3>1, OtherSector, Zenon DEF IInv
  <2>8. QED
    BY <1>3, <1>5, <2>2, <2>6, <2>7, Zenon DEF IInv
<1>8. QED
  BY <1>1, <1>6, <1>7, Zenon DEF Acquire

\* A message of the register is put in a channel.
LEMMA EnqueueKeeps ==
  ASSUME IInv, NEW m \in Message, NEW s \in Sector,
         queue' = [queue EXCEPT ![s] = Append(@, m)], UNCHANGED <<permit, worker, op>>
  PROVE  WorkOK' /\ \A t \in Sector : Guarded(t)'
<1>1. queue[s] \in Seq(ValidCommand \union Message) /\ m.type # "Client"
  BY Kinds, Zenon DEF IInv, WorkOK
<1>2. WorkOK'
  BY <1>1 DEF IInv, WorkOK
<1>3. queue'[s] = Append(queue[s], m) /\ \A t \in Sector : t # s => queue'[t] = queue[t]
  BY Zenon DEF IInv, WorkOK
<1>4. /\ NoClient(queue[s]) => NoClient(Append(queue[s], m))
      /\ \A c : OneClient(queue[s], c) => OneClient(Append(queue[s], m), c)
  BY <1>1, AppendOther, Zenon
<1>5. Guarded(s)'
  BY <1>3, <1>4, Zenon DEF IInv, Guarded
<1>6. ASSUME NEW t \in Sector, t # s PROVE Guarded(t)'
  <2>1. Guarded(t)
    BY Zenon DEF IInv
  <2>2. queue'[t] = queue[t]
    BY <1>3, <1>6, Zenon
  <2>3. permit'[t] = permit[t] /\ op'[t] = op[t]
    BY Zenon
  <2>4. QED
    BY <2>1, <2>2, <2>3, OtherSector, Zenon
<1>7. QED
  BY <1>2, <1>5, <1>6, Zenon

\* handle_system_command passes a message to the worker of its sector, or its task dies.
LEMMA ReadSystemCommandKeepsIInv ==
  ASSUME IInv, NEW c \in Conn, ReadSystemCommand(c)
  PROVE  IInv'
<1>1. /\ DOMAIN inbox' = Conn
      /\ \A d \in Client : inbox'[d] \in Seq(CommandOf(d))
      /\ \A q \in Peer : inbox'[q] \in Seq(Message)
  BY Consumed, Zenon DEF IInv, ReadSystemCommand, Reads
<1>2. Head(inbox[c]) \in Message
  BY TakeFirst, Zenon DEF IInv, ConnOK, ReadSystemCommand, Reads
<1>3. PICK m \in Message : m = Head(inbox[c])
  BY <1>2, Zenon
<1>4. m.sector \in Sector
  BY Kinds, Zenon
<1>5. held' = held /\ (task' = task \/ task' = [task EXCEPT ![c] = "dead"])
  BY Zenon DEF ReadSystemCommand, Dies
<1>6. ConnOK'
  BY <1>1, <1>5, Zenon DEF IInv, ConnOK
<1>7. SentOK' /\ UNCHANGED <<permit, worker, op>>
  BY Zenon DEF IInv, SentOK, ReadSystemCommand, guardVars, selfVars
<1>8. CASE queue' = queue
  BY <1>6, <1>7, <1>8, WorkUnchanged, Zenon DEF IInv
<1>9. CASE queue' = [queue EXCEPT ![m.sector] = Append(@, m)]
  BY <1>4, <1>6, <1>7, <1>9, EnqueueKeeps, Zenon DEF IInv
<1>10. QED
  BY <1>3, <1>8, <1>9, Zenon DEF ReadSystemCommand

\* The task of a closed connection ends.
LEMMA ConnectionEndsKeepsIInv ==
  ASSUME IInv, NEW c \in Conn, ConnectionEnds(c)
  PROVE  IInv'
<1>1. WorkOK' /\ SentOK' /\ \A s \in Sector : Guarded(s)'
  BY WorkUnchanged, Zenon DEF IInv, SentOK, ConnectionEnds, guardVars, workerVars, selfVars
<1>2. ConnOK'
  BY Zenon DEF IInv, ConnOK, ConnectionEnds, Dies
<1>3. QED
  BY <1>1, <1>2 DEF IInv

\* handle_self_messages passes a message on, or dies.
LEMMA HandleSelfMessageKeepsIInv ==
  ASSUME IInv, HandleSelfMessage
  PROVE  IInv'
<1>1. selfq \in Seq(Message) /\ selfq # <<>>
  BY Zenon DEF IInv, SentOK, HandleSelfMessage
<1>2. Head(selfq) \in Message /\ Tail(selfq) \in Seq(Message)
  BY <1>1, TakeFirst, Zenon
<1>3. PICK m \in Message : m = Head(selfq)
  BY <1>2, Zenon
<1>4. m.sector \in Sector
  BY Kinds, Zenon
<1>5. ConnOK' /\ SentOK' /\ UNCHANGED <<permit, worker, op>>
  BY <1>2, Zenon DEF IInv, ConnOK, SentOK, HandleSelfMessage, connVars, guardVars
<1>6. CASE queue' = queue
  BY <1>5, <1>6, WorkUnchanged, Zenon DEF IInv
<1>7. CASE queue' = [queue EXCEPT ![m.sector] = Append(@, m)]
  BY <1>4, <1>5, <1>7, EnqueueKeeps, Zenon DEF IInv
<1>8. QED
  BY <1>3, <1>6, <1>7, Zenon DEF HandleSelfMessage

-----------------------------------------------------------------------------
\* The worker of s takes the first of its channel: what is left, and the other sectors.
LEMMA WorkerTakes ==
  ASSUME IInv, NEW s \in Sector, queue[s] # <<>>, queue' = [queue EXCEPT ![s] = Tail(@)]
  PROVE  /\ queue' \in [Sector -> Seq(ValidCommand \union Message)]
         /\ queue'[s] = Tail(queue[s])
         /\ \A t \in Sector : t # s => queue'[t] = queue[t]
         /\ Head(queue[s]) \in ValidCommand \union Message
<1>1. queue[s] \in Seq(ValidCommand \union Message)
  BY Zenon DEF IInv, WorkOK
<1>2. Tail(queue[s]) \in Seq(ValidCommand \union Message) /\ Head(queue[s]) \in ValidCommand \union Message
  BY <1>1, TakeFirst, Zenon
<1>3. QED
  BY <1>2, Zenon DEF IInv, WorkOK

\* The worker takes a message of the register: the callback and the permit stay where
\* they are, or go with the worker.
LEMMA TakesMessage ==
  ASSUME IInv, NEW s \in Sector, queue[s] # <<>>, queue' = [queue EXCEPT ![s] = Tail(@)],
         Head(queue[s]).type # "Client",
         permit' = permit /\ op' = op
  PROVE  \A t \in Sector : Guarded(t)'
<1>1. queue'[s] = Tail(queue[s]) /\ \A t \in Sector : t # s => queue'[t] = queue[t]
  BY WorkerTakes, Zenon
<1>2. queue[s] \in Seq(ValidCommand \union Message)
  BY Zenon DEF IInv, WorkOK
<1>3. /\ NoClient(queue[s]) => NoClient(Tail(queue[s]))
      /\ \A c : OneClient(queue[s], c) => OneClient(Tail(queue[s]), c)
  BY <1>2, TakeFirst, Zenon
<1>4. Guarded(s)'
  BY <1>1, <1>3, Zenon DEF IInv, Guarded
<1>5. ASSUME NEW t \in Sector, t # s PROVE Guarded(t)'
  BY <1>1, <1>5, OtherSector, Zenon DEF IInv
<1>6. QED
  BY <1>4, <1>5, Zenon

\* client_command: the callback goes from the channel into a register that has none, or
\* is dropped with its permit when the broadcast panics.
LEMMA HandleClientCommandKeepsIInv ==
  ASSUME IInv, NEW s \in Sector, HandleClientCommand(s)
  PROVE  IInv'
<1> DEFINE cmd == Head(queue[s])
<1>1. queue[s] # <<>> /\ cmd.type = "Client" /\ worker[s] = "running" /\ queue' = [queue EXCEPT ![s] = Tail(@)]
  BY Zenon DEF HandleClientCommand, Handles
<1>2. /\ queue' \in [Sector -> Seq(ValidCommand \union Message)]
      /\ queue'[s] = Tail(queue[s])
      /\ \A t \in Sector : t # s => queue'[t] = queue[t]
      /\ cmd \in ValidCommand
  BY <1>1, WorkerTakes, Kinds, Zenon
<1>3. op[s] = None /\ cmd.conn = permit[s] /\ NoClient(Tail(queue[s]))
  <2>1. queue[s] \in Seq(ValidCommand \union Message)
    BY Zenon DEF IInv, WorkOK
  <2>2. QED
    BY <1>1, <2>1, TakeFirst, Zenon DEF IInv, Guarded
<1>4. ConnOK'
  BY Zenon DEF IInv, ConnOK, HandleClientCommand, connVars
<1>5. PICK d \in ValidCommand : d = cmd
  BY <1>2, Zenon
<1>6. CASE /\ selfq' = Append(selfq, Request(Self, s, d))
           /\ asked' = [q \in Peer |-> asked[q] \union {d}]
           /\ op' = [op EXCEPT ![s] = d]
           /\ UNCHANGED <<worker, permit>>
  <2>1. Request(Self, s, d) \in Message
    BY Zenon DEF Request, Message, Question
  <2>2. SentOK'
    BY <1>6, <2>1 DEF IInv, SentOK
  <2>3. d # None
    BY Kinds, Zenon
  <2>4. op' \in [Sector -> ValidCommand \union {None}] /\ op'[s] = d /\ \A t \in Sector : t # s => op'[t] = op[t]
    BY <1>6, Zenon DEF IInv, WorkOK
  <2>5. WorkOK'
    BY <1>2, <1>6, <2>3, <2>4, Zenon DEF IInv, WorkOK
  <2>6. Guarded(s)'
    BY <1>2, <1>3, <1>5, <1>6, <2>3, <2>4, Zenon DEF Guarded
  <2>7. ASSUME NEW t \in Sector, t # s PROVE Guarded(t)'
    BY <1>2, <1>6, <2>4, <2>7, OtherSector, Zenon DEF IInv
  <2>8. QED
    BY <1>4, <2>2, <2>5, <2>6, <2>7, Zenon DEF IInv
<1>7. CASE /\ \E Q \in SUBSET Peer :
                 asked' = [q \in Peer |-> IF q \in Q THEN asked[q] \union {d} ELSE asked[q]]
           /\ WorkerDies(s)
           /\ permit' = [permit EXCEPT ![s] = None]
           /\ UNCHANGED selfq
  <2>1. SentOK'
    BY <1>7, Zenon DEF IInv, SentOK
  <2>2. op' \in [Sector -> ValidCommand \union {None}] /\ op'[s] = None /\ \A t \in Sector : t # s => op'[t] = op[t]
    BY <1>7, Zenon DEF IInv, WorkOK, WorkerDies
  <2>3. permit'[s] = None /\ \A t \in Sector : t # s => permit'[t] = permit[t]
    BY <1>7, Zenon DEF IInv, WorkOK
  <2>4. WorkOK'
    BY <1>2, <1>7, <2>2, Zenon DEF IInv, WorkOK, WorkerDies
  <2>5. Guarded(s)'
    BY <1>2, <1>3, <2>2, <2>3, Zenon DEF Guarded
  <2>6. ASSUME NEW t \in Sector, t # s PROVE Guarded(t)'
    BY <1>2, <2>2, <2>3, <2>6, OtherSector, Zenon DEF IInv
  <2>7. QED
    BY <1>4, <2>1, <2>4, <2>5, <2>6 DEF IInv
<1>8. QED
  BY <1>5, <1>6, <1>7, Zenon DEF HandleClientCommand

\* system_command for a question: when the answer to the process itself panics, the
\* permit goes if the callback was in the register, and stays with one in the channel.
LEMMA HandleRequestKeepsIInv ==
  ASSUME IInv, NEW s \in Sector, HandleRequest(s)
  PROVE  IInv'
<1> DEFINE m == Head(queue[s])
<1>1. queue[s] # <<>> /\ m.type = "Request" /\ worker[s] = "running" /\ queue' = [queue EXCEPT ![s] = Tail(@)]
  BY Zenon DEF HandleRequest, Handles
<1>2. /\ queue' \in [Sector -> Seq(ValidCommand \union Message)]
      /\ queue'[s] = Tail(queue[s])
      /\ \A t \in Sector : t # s => queue'[t] = queue[t]
      /\ m \in ValidCommand \union Message
  BY <1>1, WorkerTakes, Zenon
<1>3. m \in Question
  <2>1. m \notin ValidCommand /\ m \notin Reply
    BY <1>1, Kinds, Zenon DEF Reply
  <2>2. QED
    BY <1>2, <2>1, Zenon DEF Message
<1>4. ConnOK' /\ asked' = asked
  BY Zenon DEF IInv, ConnOK, HandleRequest, connVars
<1>5. CASE UNCHANGED <<worker, op, permit>>
  <2>1. WorkOK'
    BY <1>2, <1>5, Zenon DEF IInv, WorkOK
  <2>2. \A t \in Sector : Guarded(t)'
    BY <1>1, <1>5, TakesMessage, Zenon
  <2>3. CASE selfq' = selfq
    BY <1>4, <2>1, <2>2, <2>3, Zenon DEF IInv, SentOK
  <2>4. CASE m.from = Self /\ selfq' = Append(selfq, Answer(Self, m.op))
    <3>1. m.op \in ValidCommand
      BY <1>3, <2>4, ProcessAssumption, Zenon DEF Question
    <3>2. Answer(Self, m.op) \in Message
      BY <3>1, Kinds, Zenon DEF Answer, Message, Reply
    <3>3. QED
      BY <1>4, <2>1, <2>2, <2>4, <3>2 DEF IInv, SentOK
  <2>5. CASE WorkerDies(s)
    <3>1. worker'[s] = "dead"
      BY <2>5, Zenon DEF IInv, WorkOK, WorkerDies
    <3>2. QED
      BY <1>1, <1>5, <3>1, Zenon
  <2>6. QED
    BY <2>3, <2>4, <2>5, Zenon DEF HandleRequest
<1>6. CASE /\ WorkerDies(s)
           /\ permit' = [permit EXCEPT ![s] = IF op[s] = None THEN @ ELSE None]
           /\ UNCHANGED selfq
  <2>1. op' \in [Sector -> ValidCommand \union {None}] /\ op'[s] = None /\ \A t \in Sector : t # s => op'[t] = op[t]
    BY <1>6, Zenon DEF IInv, WorkOK, WorkerDies
  <2>2. /\ permit'[s] = IF op[s] = None THEN permit[s] ELSE None
        /\ \A t \in Sector : t # s => permit'[t] = permit[t]
    BY <1>6, Zenon DEF IInv, WorkOK
  <2>3. WorkOK'
    BY <1>2, <1>6, <2>1, Zenon DEF IInv, WorkOK, WorkerDies
  <2>4. /\ NoClient(queue[s]) => NoClient(Tail(queue[s]))
        /\ \A c : OneClient(queue[s], c) => OneClient(Tail(queue[s]), c)
    <3>1. queue[s] \in Seq(ValidCommand \union Message)
      BY DEF IInv, WorkOK
    <3>2. QED
      BY <1>1, <3>1, TakeFirst, Zenon
  <2>5. Guarded(s)'
    BY <1>2, <2>1, <2>2, <2>4, Zenon DEF IInv, Guarded
  <2>6. ASSUME NEW t \in Sector, t # s PROVE Guarded(t)'
    BY <1>2, <2>1, <2>2, <2>6, OtherSector, Zenon DEF IInv
  <2>7. QED
    BY <1>4, <1>6, <2>3, <2>5, <2>6, Zenon DEF IInv, SentOK
<1>7. QED
  BY <1>5, <1>6, Zenon DEF HandleRequest

\* system_command for an answer: the callback is run for the operation it belongs to.
LEMMA HandleAnswerKeepsIInv ==
  ASSUME IInv, NEW s \in Sector, HandleAnswer(s)
  PROVE  IInv'
<1> DEFINE m == Head(queue[s])
<1>1. queue[s] # <<>> /\ m.type = "Answer" /\ worker[s] = "running" /\ queue' = [queue EXCEPT ![s] = Tail(@)]
  BY Zenon DEF HandleAnswer, Handles
<1>2. /\ queue' \in [Sector -> Seq(ValidCommand \union Message)]
      /\ m \in ValidCommand \union Message
  BY <1>1, WorkerTakes, Zenon
<1>3. m.op # None
  <2>1. m \notin ValidCommand /\ m \notin Question
    BY <1>1, Kinds, Zenon DEF Question
  <2>2. m \in Reply
    BY <1>2, <2>1, Zenon DEF Message
  <2>3. QED
    BY <2>2, Kinds, Zenon DEF Reply
<1>4. ConnOK' /\ SentOK' /\ UNCHANGED <<permit, op>>
  BY Zenon DEF IInv, ConnOK, SentOK, HandleAnswer, connVars, guardVars, selfVars
<1>5. \A t \in Sector : Guarded(t)'
  BY <1>1, <1>4, TakesMessage, Zenon
<1>6. \/ worker' = worker
      \/ op[s] # None /\ \E w : worker' = [worker EXCEPT ![s] = w]
  BY <1>3, Zenon DEF HandleAnswer
<1>7. WorkOK'
  BY <1>2, <1>4, <1>6, Zenon DEF IInv, WorkOK
<1>8. QED
  BY <1>4, <1>5, <1>7, Zenon DEF IInv

\* success_callback: the permit goes with the callback, whether the response is written
\* or the worker dies of it.
LEMMA RespondKeepsIInv ==
  ASSUME IInv, NEW s \in Sector, Respond(s)
  PROVE  IInv'
<1>1. op[s] # None /\ NoClient(queue[s])
  <2>1. worker[s] = "responding"
    BY Zenon DEF Respond
  <2>2. op[s] # None
    BY <2>1, Zenon DEF IInv, WorkOK
  <2>3. QED
    BY <2>2, Zenon DEF IInv, Guarded
<1>2. ConnOK' /\ SentOK' /\ queue' = queue
  BY Zenon DEF IInv, ConnOK, SentOK, Respond, connVars, selfVars
<1>3. /\ op' = [op EXCEPT ![s] = None]
      /\ \E w \in {"running", "dead"} : worker' = [worker EXCEPT ![s] = w]
      /\ permit' = [permit EXCEPT ![s] = None]
  BY Zenon DEF Respond, WorkerDies
<1>4. /\ op'[s] = None /\ permit'[s] = None
      /\ \A t \in Sector : t # s => op'[t] = op[t] /\ permit'[t] = permit[t]
  BY <1>3, Zenon DEF IInv, WorkOK
<1>5. WorkOK'
  BY <1>2, <1>3, Zenon DEF IInv, WorkOK
<1>6. Guarded(s)'
  BY <1>1, <1>2, <1>4, Zenon DEF Guarded
<1>7. ASSUME NEW t \in Sector, t # s PROVE Guarded(t)'
  BY <1>2, <1>4, <1>7, OtherSector, Zenon DEF IInv
<1>8. QED
  BY <1>2, <1>5, <1>6, <1>7, Zenon DEF IInv

-----------------------------------------------------------------------------
\* The invariant is inductive: one case per action.
LEMMA NextKeepsIInv == IInv /\ [Next]_vars => IInv'
<1> SUFFICES ASSUME IInv, [Next]_vars PROVE IInv'
  BY Zenon
<1>1. ASSUME NEW c \in Client, NEW cmd \in ClientCommand, ClientSends(c, cmd) PROVE IInv'
  BY <1>1, ClientSendsKeepsIInv, Zenon
<1>2. ASSUME NEW c \in Client, ClientReads(c) \/ ClientCloses(c) PROVE IInv'
  <2>1. ConnOK' /\ SentOK' /\ UNCHANGED <<permit, queue, worker, op>>
    BY <1>2, Zenon DEF IInv, ConnOK, SentOK, ClientReads, ClientCloses, connVars, guardVars, workerVars, selfVars
  <2>2. QED
    BY <2>1, WorkUnchanged, Zenon DEF IInv
<1>3. ASSUME NEW q \in Peer, NEW cmd \in asked[q], PeerAnswers(q, cmd) PROVE IInv'
  BY <1>3, PeerAnswersKeepsIInv, Zenon
<1>4. ASSUME NEW q \in Peer, NEW s \in Sector, PeerAsks(q, s) PROVE IInv'
  BY <1>4, PeerAsksKeepsIInv
<1>5. ASSUME NEW c \in Conn, ConnectionStep(c) PROVE IInv'
  BY <1>5, ReadRefusedKeepsIInv, ReadClientCommandKeepsIInv, AcquireKeepsIInv,
     ReadSystemCommandKeepsIInv, ConnectionEndsKeepsIInv DEF ConnectionStep
<1>6. ASSUME NEW s \in Sector, WorkerStep(s) PROVE IInv'
  BY <1>6, HandleClientCommandKeepsIInv, HandleRequestKeepsIInv, HandleAnswerKeepsIInv,
     RespondKeepsIInv DEF WorkerStep
<1>7. CASE HandleSelfMessage
  BY <1>7, HandleSelfMessageKeepsIInv, Zenon
<1>8. CASE UNCHANGED vars
  <2>1. ConnOK' /\ SentOK' /\ UNCHANGED <<permit, queue, worker, op>>
    BY <1>8, Zenon DEF vars, IInv, ConnOK, SentOK, connVars, guardVars, workerVars, selfVars
  <2>2. QED
    BY <2>1, WorkUnchanged, Zenon DEF IInv
<1>9. QED
  BY <1>1, <1>2, <1>3, <1>4, <1>5, <1>6, <1>7, <1>8, Zenon DEF Next

\* For any number of clients, peers and sectors, and whatever tasks die and when: the
\* permit of a sector is free exactly when no callback exists, and otherwise belongs to
\* the one command that is on its way to the register or in it. So client_command never
\* replaces the callback of another command, and no permit is lost or given twice.
THEOREM PermitGoesWithCallback == Spec => []PermitPerCallback
<1>1. IInv => PermitPerCallback
  <2> SUFFICES ASSUME IInv, NEW s \in Sector
               PROVE  \/ Callbacks(s) = {} /\ permit[s] = None
                      \/ \E cmd \in Callbacks(s) : Callbacks(s) = {cmd} /\ permit[s] = cmd.conn
    BY Zenon DEF PermitPerCallback
  <2>1. CASE permit[s] = None /\ op[s] = None /\ NoClient(queue[s])
    BY <2>1, Zenon DEF Callbacks, NoClient
  <2>2. CASE op[s] # None /\ permit[s] = op[s].conn /\ NoClient(queue[s])
    <3>1. Callbacks(s) = {op[s]}
      BY <2>2, Zenon DEF Callbacks, NoClient
    <3>2. QED
      BY <2>2, <3>1, Zenon
  <2>3. CASE op[s] = None /\ OneClient(queue[s], permit[s])
    <3>1. PICK k \in DOMAIN queue[s] :
             /\ queue[s][k].type = "Client" /\ queue[s][k].conn = permit[s]
             /\ \A j \in DOMAIN queue[s] : queue[s][j].type = "Client" => j = k
      BY <2>3, Zenon DEF OneClient
    <3>2. Callbacks(s) = {queue[s][k]}
      BY <2>3, <3>1, Zenon DEF Callbacks
    <3>3. QED
      BY <3>1, <3>2, Zenon
  <2>4. QED
    BY <2>1, <2>2, <2>3, Zenon DEF IInv, Guarded
<1>2. QED
  BY InitIInv, NextKeepsIInv, <1>1, PTL DEF Spec

-----------------------------------------------------------------------------
(***************************************************************************)
(* Which tasks die                                                         *)
(***************************************************************************)
\* A step that kills no task, and a step after which a connection is closed.
LEMMA NobodyDies ==
  ASSUME NoTaskDies, closed' = {} => closed = {},
         closed = {} => /\ \A c \in Conn : task'[c] = task[c] \/ task'[c] # "dead"
                        /\ \A s \in Sector : worker'[s] = worker[s] \/ worker'[s] # "dead"
                        /\ selfTask' = selfTask
  PROVE  NoTaskDies'
BY Zenon DEF NoTaskDies

\* A task of a connection dies only of a closed connection or of another death.
LEMMA ConnectionsStayAlive ==
  ASSUME IInv, NoTaskDies, NEW c \in Conn, ConnectionStep(c)
  PROVE  NoTaskDies'
<1>1. closed' = closed /\ worker' = worker /\ selfTask' = selfTask
  BY Zenon DEF ConnectionStep, ReadRefused, ReadClientCommand, Acquire, ReadSystemCommand, ConnectionEnds,
         clientVars, workerVars, selfVars
<1>2. ASSUME closed = {} PROVE task' = task \/ \E w \in {"reading", "waiting"} : task' = [task EXCEPT ![c] = w]
  <2>1. CASE ReadRefused(c)
    BY <1>2, <2>1, Zenon DEF ReadRefused, WritePanics
  <2>2. CASE ReadClientCommand(c)
    BY <2>2, Zenon DEF ReadClientCommand
  <2>3. CASE Acquire(c)
    <3>1. held[c].sector \in Sector
      BY <2>3, Kinds, Zenon DEF IInv, ConnOK, Acquire, HasPermit
    <3>2. worker[held[c].sector] # "dead"
      BY <1>2, <3>1, Zenon DEF NoTaskDies
    <3>3. QED
      BY <2>3, <3>2, Zenon DEF Acquire
  <2>4. CASE ReadSystemCommand(c)
    <3>1. Head(inbox[c]) \in Message
      BY <2>4, TakeFirst, Zenon DEF IInv, ConnOK, ReadSystemCommand, Reads
    <3>2. worker[Head(inbox[c]).sector] # "dead"
      BY <1>2, <3>1, Kinds, Zenon DEF NoTaskDies
    <3>3. QED
      BY <2>4, <3>2, Zenon DEF ReadSystemCommand
  <2>5. CASE ConnectionEnds(c)
    BY <1>2, <2>5, Zenon DEF ConnectionEnds
  <2>6. QED
    BY <2>1, <2>2, <2>3, <2>4, <2>5, Zenon DEF ConnectionStep
<1>3. task = [d \in Conn |-> task[d]]
  BY Zenon DEF IInv, ConnOK
<1>4. QED
  BY <1>1, <1>2, <1>3, NobodyDies, Zenon

\* A worker dies only of a response to a closed connection or of another death.
LEMMA WorkersStayAlive ==
  ASSUME IInv, NoTaskDies, NEW s \in Sector, WorkerStep(s)
  PROVE  NoTaskDies'
<1>1. closed' = closed /\ task' = task /\ selfTask' = selfTask
  BY Zenon DEF WorkerStep, HandleClientCommand, HandleRequest, HandleAnswer, Respond, clientVars, connVars, selfVars
<1>2. ASSUME closed = {} PROVE worker' = worker \/ \E w \in {"running", "responding"} : worker' = [worker EXCEPT ![s] = w]
  <2>1. selfTask = "running"
    BY <1>2, Zenon DEF NoTaskDies
  <2>2. CASE HandleClientCommand(s)
    BY <2>1, <2>2, Zenon DEF HandleClientCommand
  <2>3. CASE HandleRequest(s)
    BY <2>1, <2>3, Zenon DEF HandleRequest
  <2>4. CASE HandleAnswer(s)
    <3>1. worker' = worker \/ worker' = [worker EXCEPT ![s] = IF Majority(answers'[s]) THEN "responding" ELSE @]
      BY <2>4, Zenon DEF HandleAnswer
    <3>2. worker[s] = "running"
      BY <2>4, Zenon DEF HandleAnswer, Handles
    <3>3. QED
      BY <3>1, <3>2, Zenon
  <2>5. CASE Respond(s)
    BY <1>2, <2>5, Zenon DEF Respond, WritePanics
  <2>6. QED
    BY <2>2, <2>3, <2>4, <2>5, Zenon DEF WorkerStep
<1>3. worker = [t \in Sector |-> worker[t]]
  BY Zenon DEF IInv, WorkOK
<1>4. QED
  BY <1>1, <1>2, <1>3, NobodyDies, Zenon

\* As long as every client keeps its connection no task of the process dies, for any
\* number of clients, peers and sectors and however full the connections and channels
\* are: every panic of register_process.rs starts with a closed connection.
THEOREM TasksStayAlive == Spec => []NoTaskDies
<1>1. Init => NoTaskDies
  BY Zenon DEF Init, NoTaskDies
<1>2. IInv /\ NoTaskDies /\ [Next]_vars => NoTaskDies'
  <2> SUFFICES ASSUME IInv, NoTaskDies, [Next]_vars PROVE NoTaskDies'
    BY Zenon
  <2>1. ASSUME UNCHANGED <<task, worker, selfTask>>, closed' = {} => closed = {} PROVE NoTaskDies'
    BY <2>1, NobodyDies, Zenon
  <2>2. CASE \E c \in Client : (\E cmd \in ClientCommand : ClientSends(c, cmd)) \/ ClientReads(c) \/ ClientCloses(c)
    BY <2>1, <2>2, Zenon DEF ClientSends, ClientReads, ClientCloses, connVars, workerVars, selfVars
  <2>3. CASE \E q \in Peer : (\E cmd \in asked[q] : PeerAnswers(q, cmd)) \/ \E s \in Sector : PeerAsks(q, s)
    BY <2>1, <2>3, Zenon DEF PeerAnswers, PeerAsks, workerVars, selfVars, clientVars
  <2>4. CASE \E c \in Conn : ConnectionStep(c)
    BY <2>4, ConnectionsStayAlive, Zenon
  <2>5. CASE \E s \in Sector : WorkerStep(s)
    BY <2>5, WorkersStayAlive, Zenon
  <2>6. CASE HandleSelfMessage
    <3>1. selfq \in Seq(Message) /\ selfq # <<>>
      BY <2>6, Zenon DEF IInv, SentOK, HandleSelfMessage
    <3>2. Head(selfq).sector \in Sector
      BY <3>1, TakeFirst, Kinds, Zenon
    <3>3. closed = {} => selfTask' = selfTask
      BY <2>6, <3>2, Zenon DEF NoTaskDies, HandleSelfMessage
    <3>4. UNCHANGED <<task, worker, closed>>
      BY <2>6, Zenon DEF HandleSelfMessage, connVars, clientVars
    <3>5. QED
      BY <3>3, <3>4, NobodyDies, Zenon
  <2>7. CASE UNCHANGED vars
    BY <2>1, <2>7, Zenon DEF vars, connVars, workerVars, selfVars, clientVars
  <2>8. QED
    BY <2>2, <2>3, <2>4, <2>5, <2>6, <2>7, Zenon DEF Next
<1>3. QED
  BY InitIInv, NextKeepsIInv, <1>1, <1>2, PTL DEF Spec

-----------------------------------------------------------------------------
(***************************************************************************)
(* Where the commands of a client are                                      *)
(***************************************************************************)
Reaction == [rid : 1 .. MaxCommands, status : {"Ok", "AuthFailure", "InvalidSectorIndex"}]

\* The status that a command deserves.
Verdict(cmd) == IF ~cmd.mac THEN "AuthFailure"
                ELSE IF cmd.sector \in Sector THEN "Ok" ELSE "InvalidSectorIndex"

\* What a client has sent and what it gets back.
ClientOK ==
    /\ sent \in [Client -> SUBSET ClientCommand]
    /\ outbuf \in [Client -> Seq(Reaction)]
    /\ received \in [Client -> Seq(Reaction)]

\* The commands of a client are numbered.
NumberInv(c) ==
    /\ IsFiniteSet(sent[c]) /\ Cardinality(sent[c]) <= MaxCommands
    /\ \A a \in sent[c] : a.conn = c /\ a.rid <= Cardinality(sent[c])
    /\ \A a, b \in sent[c] : a.rid = b.rid => a = b

\* A command of client c that its task has accepted, with no response yet.
Open(c, cmd) ==
    /\ cmd \in sent[c] /\ Verdict(cmd) = "Ok"
    /\ ~IsAnswered(c, cmd)
    /\ \A k \in DOMAIN inbox[c] : inbox[c][k] # cmd

Holds(c, cmd) == task[c] = "waiting" /\ held[c] = cmd

\* A command is at one place: not read yet, held by the task of its connection, with its
\* callback in the channel or in the register, or answered.
PlaceInv(c) ==
    /\ \A k \in DOMAIN inbox[c] : inbox[c][k] \in sent[c] /\ ~IsAnswered(c, inbox[c][k])
    /\ \A j, k \in DOMAIN inbox[c] : inbox[c][j] = inbox[c][k] => j = k
    /\ task[c] = "waiting" => Open(c, held[c])
    /\ \A s \in Sector : \A cmd \in Callbacks(s) : cmd.conn = c =>
          Open(c, cmd) /\ cmd.sector = s /\ ~Holds(c, cmd)

\* The responses so far are to different commands, and right.
AnswerInv(c) ==
    /\ \A j, k \in DOMAIN Responses(c) : Responses(c)[j].rid = Responses(c)[k].rid => j = k
    /\ \A k \in DOMAIN Responses(c) : \E cmd \in sent[c] : Responses(c)[k] = Response(cmd, Verdict(cmd))

TrackInv == ClientOK /\ \A c \in Client : NumberInv(c) /\ PlaceInv(c) /\ AnswerInv(c)

\* The client commands in a channel.
ClientsIn(q) == {q[k] : k \in {j \in DOMAIN q : q[j].type = "Client"}}

\* What is put into a channel is a callback only if it is a client command.
LEMMA ClientsAppend ==
  ASSUME NEW S, NEW q \in Seq(S), NEW x \in S
  PROVE  /\ ClientsIn(Append(q, x)) \subseteq ClientsIn(q) \union {x}
         /\ x.type # "Client" => ClientsIn(Append(q, x)) \subseteq ClientsIn(q)
<1>1. \A k \in DOMAIN Append(q, x) : \/ k \in DOMAIN q /\ Append(q, x)[k] = q[k]
                                     \/ Append(q, x)[k] = x
  OBVIOUS
<1>2. QED
  BY <1>1, Zenon DEF ClientsIn

\* The worker takes the first of its channel, which may be a client command.
LEMMA ClientsTail ==
  ASSUME NEW S, NEW q \in Seq(S), q # <<>>
  PROVE  /\ ClientsIn(Tail(q)) \subseteq ClientsIn(q)
         /\ Head(q).type = "Client" => Head(q) \in ClientsIn(q)
<1>1. \A k \in DOMAIN Tail(q) : k + 1 \in DOMAIN q /\ Tail(q)[k] = q[k + 1]
  OBVIOUS
<1>2. 1 \in DOMAIN q /\ Head(q) = q[1]
  OBVIOUS
<1>3. QED
  BY <1>1, <1>2 DEF ClientsIn

\* The callbacks of a sector are the client commands in the channel and the operation.
LEMMA CallbacksAre ==
  ASSUME NEW s PROVE Callbacks(s) = ClientsIn(queue[s]) \union ({op[s]} \ {None})
BY Zenon DEF Callbacks, ClientsIn

\* A response is added to what the client has and will read,
LEMMA AppendResponse ==
  ASSUME NEW a \in Seq(Reaction), NEW b \in Seq(Reaction), NEW r \in Reaction
  PROVE  /\ a \o Append(b, r) = Append(a \o b, r) /\ a \o b \in Seq(Reaction)
         /\ Append(b, r) \in Seq(Reaction)
<1>1. Append(b, r) = b \o <<r>> /\ Append(a \o b, r) = (a \o b) \o <<r>> /\ <<r>> \in Seq(Reaction)
  BY AppendIsConcat
<1>2. a \o (b \o <<r>>) = (a \o b) \o <<r>>
  BY <1>1, ConcatAssociative
<1>3. QED
  BY <1>1, <1>2

\* and reading one changes nothing of it.
LEMMA ReadResponse ==
  ASSUME NEW a \in Seq(Reaction), NEW b \in Seq(Reaction), b # <<>>
  PROVE  /\ Append(a, Head(b)) \o Tail(b) = a \o b
         /\ Append(a, Head(b)) \in Seq(Reaction) /\ Tail(b) \in Seq(Reaction)
<1>1. Head(b) \in Reaction /\ Tail(b) \in Seq(Reaction) /\ <<Head(b)>> \in Seq(Reaction)
  OBVIOUS
<1>2. b = <<Head(b)>> \o Tail(b)
  OBVIOUS
<1>3. Append(a, Head(b)) = a \o <<Head(b)>>
  BY <1>1, AppendIsConcat, Zenon
<1>4. (a \o <<Head(b)>>) \o Tail(b) = a \o (<<Head(b)>> \o Tail(b))
  BY <1>1, ConcatAssociative
<1>5. QED
  BY <1>1, <1>2, <1>3, <1>4

\* What is answered, with one more response.
LEMMA AnsweredMore ==
  ASSUME ClientOK, NEW c \in Client, NEW r \in Reaction, Responses(c)' = Append(Responses(c), r)
  PROVE  \A d : IsAnswered(c, d)' <=> IsAnswered(c, d) \/ r.rid = d.rid
<1>1. Responses(c) \in Seq(Reaction)
  BY DEF ClientOK, Responses
<1>2. PICK R \in Seq(Reaction) : R = Responses(c)
  BY <1>1, Zenon
<1>3. /\ \A k \in DOMAIN R : k \in DOMAIN Append(R, r) /\ Append(R, r)[k] = R[k]
      /\ \A k \in DOMAIN Append(R, r) : (k \in DOMAIN R /\ Append(R, r)[k] = R[k]) \/ Append(R, r)[k] = r
      /\ Len(R) + 1 \in DOMAIN Append(R, r) /\ Append(R, r)[Len(R) + 1] = r
  OBVIOUS
<1>4. QED
  BY <1>2, <1>3, Zenon DEF IsAnswered

\* The responses stay right when a command that has none gets the one it deserves.
LEMMA AnswerInvKept ==
  ASSUME ClientOK, NEW c \in Client, AnswerInv(c), NEW cmd \in sent[c], ~IsAnswered(c, cmd),
         Responses(c)' = Append(Responses(c), Response(cmd, Verdict(cmd))),
         sent'[c] = sent[c], Response(cmd, Verdict(cmd)) \in Reaction
  PROVE  AnswerInv(c)'
<1> DEFINE r == Response(cmd, Verdict(cmd))
<1>0. Responses(c) \in Seq(Reaction)
  BY DEF ClientOK, Responses
<1>1. PICK R \in Seq(Reaction) : R = Responses(c)
  BY <1>0, Zenon
<1>2. r.rid = cmd.rid
  BY Zenon DEF Response
<1>3. \A k \in DOMAIN R : R[k].rid # r.rid
  BY <1>1, <1>2, Zenon DEF IsAnswered
<1> HIDE DEF r
<1>4. \A k \in DOMAIN Append(R, r) : \/ k \in DOMAIN R /\ Append(R, r)[k] = R[k]
                                     \/ k = Len(R) + 1 /\ Append(R, r)[k] = r
  BY DEF r
<1>5. Responses(c)' = Append(R, r)
  BY <1>1, Zenon DEF r
<1>6. \A j, k \in DOMAIN Append(R, r) : Append(R, r)[j].rid = Append(R, r)[k].rid => j = k
  BY <1>1, <1>3, <1>4 DEF AnswerInv
<1>7. \A k \in DOMAIN Append(R, r) : \E d \in sent[c] : Append(R, r)[k] = Response(d, Verdict(d))
  BY <1>1, <1>4, Zenon DEF AnswerInv, r
<1>8. QED
  BY <1>5, <1>6, <1>7, Zenon DEF AnswerInv

\* Steps after which no sector has a callback that it did not have.
LEMMA FewerCallbacks ==
  ASSUME \A s \in Sector : ClientsIn(queue'[s]) \subseteq ClientsIn(queue[s]),
         \A s \in Sector : op'[s] \in {op[s], None} \union ClientsIn(queue[s])
  PROVE  \A s \in Sector : Callbacks(s)' \subseteq Callbacks(s)
<1>1. \A s \in Sector : Callbacks(s)' = ClientsIn(queue'[s]) \union ({op'[s]} \ {None})
  BY Zenon DEF Callbacks, ClientsIn
<1>2. QED
  BY <1>1, CallbacksAre, Zenon

\* A message of the register is no callback.
LEMMA EnqueueCallbacks ==
  ASSUME IInv, NEW m \in Message, NEW s \in Sector,
         queue' = [queue EXCEPT ![s] = Append(@, m)], op' = op
  PROVE  \A t \in Sector : Callbacks(t)' \subseteq Callbacks(t)
<1>1. queue[s] \in Seq(ValidCommand \union Message) /\ m.type # "Client"
  BY Kinds, Zenon DEF IInv, WorkOK
<1>2. ClientsIn(Append(queue[s], m)) \subseteq ClientsIn(queue[s])
  BY <1>1, ClientsAppend
<1>3. queue'[s] = Append(queue[s], m) /\ \A t \in Sector : t # s => queue'[t] = queue[t]
  BY Zenon DEF IInv, WorkOK
<1>4. \A t \in Sector : ClientsIn(queue'[t]) \subseteq ClientsIn(queue[t])
  BY <1>2, <1>3, Zenon
<1>5. QED
  BY <1>4, FewerCallbacks, Zenon

\* The worker takes the first of its channel.
LEMMA TakeCallbacks ==
  ASSUME IInv, NEW s \in Sector, queue[s] # <<>>, queue' = [queue EXCEPT ![s] = Tail(@)],
         \/ op' = op \/ op' = [op EXCEPT ![s] = None]
         \/ Head(queue[s]).type = "Client" /\ op' = [op EXCEPT ![s] = Head(queue[s])]
  PROVE  \A t \in Sector : Callbacks(t)' \subseteq Callbacks(t)
<1>1. queue[s] \in Seq(ValidCommand \union Message)
  BY Zenon DEF IInv, WorkOK
<1>2. /\ ClientsIn(Tail(queue[s])) \subseteq ClientsIn(queue[s])
      /\ Head(queue[s]).type = "Client" => Head(queue[s]) \in ClientsIn(queue[s])
  BY <1>1, ClientsTail, Zenon
<1>3. queue'[s] = Tail(queue[s]) /\ \A t \in Sector : t # s => queue'[t] = queue[t]
  BY WorkerTakes, Zenon
<1>4. \A t \in Sector : ClientsIn(queue'[t]) \subseteq ClientsIn(queue[t])
  BY <1>2, <1>3, Zenon
<1>5. \A t \in Sector : op'[t] \in {op[t], None} \union ClientsIn(queue[t])
  BY <1>2, Zenon DEF IInv, WorkOK
<1>6. QED
  BY <1>4, <1>5, FewerCallbacks, Zenon

\* What a step has to leave alone, of client c.
LEMMA Undisturbed ==
  ASSUME NEW c \in Client, NumberInv(c), PlaceInv(c), AnswerInv(c),
         sent'[c] = sent[c], Responses(c)' = Responses(c), inbox'[c] = inbox[c],
         task'[c] = "waiting" => task[c] = "waiting" /\ held'[c] = held[c],
         \A s \in Sector : \A cmd \in Callbacks(s)' : cmd.conn = c => cmd \in Callbacks(s)
  PROVE  NumberInv(c)' /\ PlaceInv(c)' /\ AnswerInv(c)'
<1>1. NumberInv(c)'
  BY Zenon DEF NumberInv
<1>2. AnswerInv(c)'
  BY DEF AnswerInv
<1>3. \A d : IsAnswered(c, d)' <=> IsAnswered(c, d)
  BY Zenon DEF IsAnswered
<1>4. \A d : (Open(c, d) => Open(c, d)') /\ (Holds(c, d)' => Holds(c, d))
  BY <1>3, Zenon DEF Open, Holds
<1>5. PlaceInv(c)'
  BY <1>3, <1>4, Zenon DEF PlaceInv
<1>6. QED
  BY <1>1, <1>2, <1>5, Zenon

\* Steps that no client notices.
LEMMA Unnoticed ==
  ASSUME TrackInv, UNCHANGED <<sent, outbuf, received>>,
         \A c \in Client : inbox'[c] = inbox[c],
         \A c \in Client : task'[c] = "waiting" => task[c] = "waiting" /\ held'[c] = held[c],
         \A s \in Sector : Callbacks(s)' \subseteq Callbacks(s)
  PROVE  TrackInv'
<1>1. ClientOK'
  BY Zenon DEF TrackInv, ClientOK
<1>2. ASSUME NEW c \in Client PROVE NumberInv(c)' /\ PlaceInv(c)' /\ AnswerInv(c)'
  <2>1. NumberInv(c) /\ PlaceInv(c) /\ AnswerInv(c)
    BY Zenon DEF TrackInv
  <2>2. sent'[c] = sent[c] /\ Responses(c)' = Responses(c)
    BY Zenon DEF Responses
  <2>3. \A s \in Sector : \A cmd \in Callbacks(s)' : cmd.conn = c => cmd \in Callbacks(s)
    BY Zenon
  <2>4. QED
    BY <2>1, <2>2, <2>3, Undisturbed, Zenon
<1>3. QED
  BY <1>1, <1>2, Zenon DEF TrackInv

\* The initial state.
LEMMA InitTrackInv == Init => TrackInv
<1> SUFFICES ASSUME Init PROVE TrackInv
  BY Zenon
<1>1. ClientOK
  BY DEF Init, ClientOK
<1>2. ASSUME NEW c \in Client PROVE NumberInv(c) /\ PlaceInv(c) /\ AnswerInv(c)
  <2>1. NumberInv(c)
    <3>1. sent[c] = {} /\ MaxCommands \in Nat
      BY ProcessAssumption, Zenon DEF Init
    <3>2. IsFiniteSet({}) /\ Cardinality({}) = 0
      BY FS_EmptySet, Zenon
    <3>3. QED
      BY <3>1, <3>2 DEF NumberInv
  <2>2. DOMAIN Responses(c) = {}
    BY DEF Init, Responses
  <2>3. AnswerInv(c)
    BY <2>2, Zenon DEF AnswerInv
  <2>4. \A s \in Sector : Callbacks(s) = {}
    BY DEF Init, Callbacks
  <2>5. inbox[c] = <<>> /\ task[c] = "reading"
    BY Zenon DEF Init, Conn
  <2>6. PlaceInv(c)
    BY <2>4, <2>5 DEF PlaceInv
  <2>7. QED
    BY <2>1, <2>3, <2>6, Zenon
<1>3. QED
  BY <1>1, <1>2, Zenon DEF TrackInv

\* send_response adds at most the response, to one connection.
LEMMA WriteEffect ==
  ASSUME ClientOK, NEW c \in Client, NEW r \in Reaction, UNCHANGED <<received, sent>>,
         WriteReturns(c, r) \/ outbuf' = outbuf
  PROVE  /\ ClientOK'
         /\ Responses(c)' = Responses(c) \/ Responses(c)' = Append(Responses(c), r)
         /\ \A d \in Client : d # c => Responses(d)' = Responses(d)
<1>1. CASE outbuf' = outbuf
  BY <1>1, Zenon DEF ClientOK, Responses
<1>2. CASE outbuf' = [outbuf EXCEPT ![c] = Append(@, r)]
  <2>1. received[c] \in Seq(Reaction) /\ outbuf[c] \in Seq(Reaction)
    BY Zenon DEF ClientOK
  <2>2. /\ received[c] \o Append(outbuf[c], r) = Append(received[c] \o outbuf[c], r)
        /\ Append(outbuf[c], r) \in Seq(Reaction)
    BY <2>1, AppendResponse, Zenon
  <2>3. outbuf'[c] = Append(outbuf[c], r) /\ \A d \in Client : d # c => outbuf'[d] = outbuf[d]
    BY <1>2, Zenon DEF ClientOK
  <2>4. ClientOK'
    BY <1>2, <2>2, Zenon DEF ClientOK
  <2>5. QED
    BY <2>2, <2>3, <2>4, Zenon DEF Responses
<1>3. QED
  BY <1>1, <1>2, Zenon DEF WriteReturns

\* A client command has the response it deserves.
LEMMA ReactionTo ==
  ASSUME NEW cmd \in ClientCommand
  PROVE  /\ Response(cmd, Verdict(cmd)) \in Reaction /\ Response(cmd, Verdict(cmd)).rid = cmd.rid
         /\ Refusal(cmd) # None => Refusal(cmd) = Verdict(cmd)
         /\ Refusal(cmd) = None => Verdict(cmd) = "Ok"
<1>1. cmd.rid \in 1 .. MaxCommands /\ cmd.sector \in 0 .. NSectors /\ NSectors \in Nat
  BY ProcessAssumption, Zenon DEF ClientCommand
<1>2. cmd.sector < NSectors <=> cmd.sector \in Sector
  BY <1>1 DEF Sector
<1>3. Response(cmd, Verdict(cmd)) \in Reaction /\ Response(cmd, Verdict(cmd)).rid = cmd.rid
  BY <1>1, Zenon DEF Response, Verdict, Reaction
<1>4. QED
  BY <1>2, <1>3, NoneAssumption, Zenon DEF Refusal, Verdict, ValidSector

\* A command of client c leaves its place, with its response or without one.
LEMMA CommandEnds ==
  ASSUME ClientOK, NEW c \in Client, NumberInv(c), PlaceInv(c), AnswerInv(c),
         NEW cmd \in sent[c], ~IsAnswered(c, cmd), sent'[c] = sent[c],
         \/ Responses(c)' = Responses(c)
         \/ Responses(c)' = Append(Responses(c), Response(cmd, Verdict(cmd))),
         \A k \in DOMAIN inbox'[c] : inbox'[c][k] # cmd /\ \E j \in DOMAIN inbox[c] : inbox'[c][k] = inbox[c][j],
         \A j, k \in DOMAIN inbox'[c] : inbox'[c][j] = inbox'[c][k] => j = k,
         task'[c] = "waiting" => task[c] = "waiting" /\ held'[c] = held[c] /\ held[c] # cmd,
         \A s \in Sector : \A x \in Callbacks(s)' : x.conn = c => x \in Callbacks(s) /\ x # cmd
  PROVE  NumberInv(c)' /\ PlaceInv(c)' /\ AnswerInv(c)'
<1>1. cmd \in ClientCommand
  BY Zenon DEF ClientOK
<1>2. Response(cmd, Verdict(cmd)) \in Reaction /\ Response(cmd, Verdict(cmd)).rid = cmd.rid
  BY <1>1, ReactionTo, Zenon
<1>3. NumberInv(c)'
  BY Zenon DEF NumberInv
<1>4. AnswerInv(c)'
  <2>1. CASE Responses(c)' = Responses(c)
    BY <2>1 DEF AnswerInv
  <2>2. CASE Responses(c)' = Append(Responses(c), Response(cmd, Verdict(cmd)))
    BY <1>2, <2>2, AnswerInvKept, Zenon
  <2>3. QED
    BY <2>1, <2>2, Zenon
<1>5. \A d \in sent[c] : d # cmd => (IsAnswered(c, d)' => IsAnswered(c, d))
  <2>1. \A d \in sent[c] : d # cmd => d.rid # cmd.rid
    BY Zenon DEF NumberInv
  <2>2. CASE Responses(c)' = Responses(c)
    BY <2>2, Zenon DEF IsAnswered
  <2>3. CASE Responses(c)' = Append(Responses(c), Response(cmd, Verdict(cmd)))
    <3>1. PICK r \in Reaction : r = Response(cmd, Verdict(cmd))
      BY <1>2, Zenon
    <3>2. \A d : IsAnswered(c, d)' <=> IsAnswered(c, d) \/ r.rid = d.rid
      BY <2>3, <3>1, AnsweredMore, Zenon
    <3>3. QED
      BY <1>2, <2>1, <3>1, <3>2, Zenon
  <2>4. QED
    BY <2>2, <2>3, Zenon
<1>6. \A d : d # cmd /\ Open(c, d) => Open(c, d)'
  <2> SUFFICES ASSUME NEW d, d # cmd, Open(c, d) PROVE Open(c, d)'
    BY Zenon
  <2>1. d \in sent[c] /\ Verdict(d) = "Ok" /\ ~IsAnswered(c, d) /\ \A k \in DOMAIN inbox[c] : inbox[c][k] # d
    BY Zenon DEF Open
  <2>2. ~IsAnswered(c, d)'
    BY <1>5, <2>1, Zenon
  <2>3. \A k \in DOMAIN inbox'[c] : inbox'[c][k] # d
    BY <2>1, Zenon
  <2>4. QED
    BY <2>1, <2>2, <2>3, Zenon DEF Open
<1>7. \A d : Holds(c, d)' => Holds(c, d)
  BY Zenon DEF Holds
<1>8. PlaceInv(c)'
  <2>1. (\A k \in DOMAIN inbox[c] : inbox[c][k] \in sent[c] /\ ~IsAnswered(c, inbox[c][k]))'
    <3>1. \A k \in DOMAIN inbox'[c] : \E d \in sent[c] : d = inbox'[c][k] /\ d # cmd /\ ~IsAnswered(c, d)
      BY Zenon DEF PlaceInv
    <3>2. \A k \in DOMAIN inbox'[c] : \E d \in sent[c] : d = inbox'[c][k] /\ ~IsAnswered(c, d)'
      BY <1>5, <3>1, Zenon
    <3>3. ASSUME NEW k \in DOMAIN inbox'[c]
          PROVE  inbox'[c][k] \in sent'[c] /\ \A n \in DOMAIN Responses(c)' : Responses(c)'[n].rid # inbox'[c][k].rid
      <4>1. PICK d \in sent[c] : d = inbox'[c][k] /\ ~IsAnswered(c, d)'
        BY <3>2, <3>3, Zenon
      <4>2. \A n \in DOMAIN Responses(c)' : Responses(c)'[n].rid # d.rid
        BY <4>1, Zenon DEF IsAnswered
      <4>3. QED
        BY <4>1, <4>2, Zenon
    <3>4. QED
      BY <3>3, Zenon DEF IsAnswered
  <2>2. (task[c] = "waiting" => Open(c, held[c]))'
    <3>1. ASSUME task'[c] = "waiting" PROVE \E d : d = held'[c] /\ Open(c, d)'
      BY <1>6, <3>1, Zenon DEF PlaceInv
    <3>2. QED
      BY <3>1, Zenon DEF Open, IsAnswered, Responses
  <2>3. \A s \in Sector : \A x \in Callbacks(s)' : x.conn = c => Open(c, x)' /\ x.sector = s /\ ~Holds(c, x)'
    BY <1>6, <1>7, Zenon DEF PlaceInv
  <2>4. QED
    BY <2>1, <2>2, <2>3, Zenon DEF PlaceInv
<1>9. QED
  BY <1>3, <1>4, <1>8, Zenon

\* The task of client c takes the first command it has not read.
LEMMA TakesCommand ==
  ASSUME IInv, TrackInv, NEW c \in Client, inbox[c] # <<>>, Consume(c)
  PROVE  /\ Head(inbox[c]) \in sent[c] /\ ~IsAnswered(c, Head(inbox[c])) /\ Head(inbox[c]) \in ClientCommand
         /\ \E k \in DOMAIN inbox[c] : inbox[c][k] = Head(inbox[c])
         /\ inbox'[c] = Tail(inbox[c]) /\ \A d \in Client : d # c => inbox'[d] = inbox[d]
         /\ \A k \in DOMAIN inbox'[c] : /\ inbox'[c][k] # Head(inbox[c])
                                        /\ \E j \in DOMAIN inbox[c] : inbox'[c][k] = inbox[c][j]
         /\ \A j, k \in DOMAIN inbox'[c] : inbox'[c][j] = inbox'[c][k] => j = k
<1>1. inbox'[c] = Tail(inbox[c]) /\ \A d \in Client : d # c => inbox'[d] = inbox[d]
  BY Zenon DEF IInv, ConnOK, Consume, Conn
<1>2. PICK q \in Seq(CommandOf(c)) : q = inbox[c]
  BY Zenon DEF IInv, ConnOK
<1>3. /\ 1 \in DOMAIN q /\ Head(q) = q[1] /\ Head(q) \in CommandOf(c)
      /\ \A k \in DOMAIN Tail(q) : k \in Int /\ k + 1 \in DOMAIN q /\ Tail(q)[k] = q[k + 1] /\ k + 1 # 1
  BY <1>2
<1>4. \A j, k \in DOMAIN q : q[j] = q[k] => j = k
  BY <1>2, Zenon DEF TrackInv, PlaceInv
<1>5. \A k \in DOMAIN q : q[k] \in sent[c] /\ ~IsAnswered(c, q[k])
  BY <1>2, Zenon DEF TrackInv, PlaceInv
<1>6. \A k \in DOMAIN Tail(q) : Tail(q)[k] # Head(q) /\ \E j \in DOMAIN q : Tail(q)[k] = q[j]
  BY <1>3, <1>4, Zenon
<1>7. \A j, k \in DOMAIN Tail(q) : Tail(q)[j] = Tail(q)[k] => j = k
  <2> SUFFICES ASSUME NEW j \in DOMAIN Tail(q), NEW k \in DOMAIN Tail(q), Tail(q)[j] = Tail(q)[k] PROVE j = k
    BY Zenon
  <2>1. j + 1 = k + 1 /\ j \in Int /\ k \in Int
    BY <1>3, <1>4
  <2>2. QED
    BY <2>1
<1>8. Head(q) \in ClientCommand
  BY <1>3, Zenon DEF CommandOf
<1>9. QED
  BY <1>1, <1>2, <1>3, <1>5, <1>6, <1>7, <1>8

-----------------------------------------------------------------------------
\* A client sends a command with a number it has not used.
LEMMA ClientSendsKeepsTrackInv ==
  ASSUME IInv, TrackInv, NEW c \in Client, NEW cmd \in ClientCommand, ClientSends(c, cmd)
  PROVE  TrackInv'
<1>1. /\ cmd.conn = c /\ cmd.rid = Cardinality(sent[c]) + 1
      /\ sent' = [sent EXCEPT ![c] = @ \union {cmd}] /\ inbox' = [inbox EXCEPT ![c] = Append(@, cmd)]
      /\ UNCHANGED <<task, held, queue, op, outbuf, received>>
  BY Zenon DEF ClientSends, workerVars
<1>2. ClientOK /\ NumberInv(c) /\ PlaceInv(c) /\ AnswerInv(c)
  BY Zenon DEF TrackInv
<1>3. /\ sent'[c] = sent[c] \union {cmd} /\ \A d \in Client : d # c => sent'[d] = sent[d]
      /\ inbox'[c] = Append(inbox[c], cmd) /\ \A d \in Client : d # c => inbox'[d] = inbox[d]
  BY <1>1, <1>2, Zenon DEF ClientOK, IInv, ConnOK, Conn
<1>4. ClientOK'
  BY <1>1, <1>2, Zenon DEF ClientOK
<1>5. Cardinality(sent[c]) \in Nat
  BY <1>2, FS_CardinalityType, Zenon DEF NumberInv
<1>6. cmd \notin sent[c] /\ \A a \in sent[c] : a.rid < cmd.rid /\ a.rid \in Nat
  <2>1. \A a \in sent[c] : a.rid \in Nat /\ a.rid <= Cardinality(sent[c])
    BY <1>2 DEF ClientOK, ClientCommand, NumberInv
  <2>2. QED
    BY <1>1, <1>5, <2>1
<1>7. NumberInv(c)'
  <2>1. IsFiniteSet(sent[c] \union {cmd}) /\ Cardinality(sent[c] \union {cmd}) = Cardinality(sent[c]) + 1
    BY <1>2, <1>6, FS_AddElement, Zenon DEF NumberInv
  <2>2. cmd.rid \in 1 .. MaxCommands /\ MaxCommands \in Nat
    BY ProcessAssumption, Zenon DEF ClientCommand
  <2>3. IsFiniteSet(sent'[c]) /\ Cardinality(sent'[c]) = cmd.rid /\ Cardinality(sent'[c]) <= MaxCommands
    <3>1. IsFiniteSet(sent'[c]) /\ Cardinality(sent'[c]) = Cardinality(sent[c]) + 1
      BY <1>3, <2>1, Zenon
    <3>2. Cardinality(sent'[c]) = cmd.rid
      BY <1>1, <3>1, Zenon
    <3>3. QED
      BY <2>2, <3>1, <3>2
  <2>4. \A a \in sent'[c] : a.conn = c /\ a.rid <= cmd.rid
    BY <1>1, <1>2, <1>3, <1>6, <2>2 DEF NumberInv
  <2>5. \A a, b \in sent'[c] : a.rid = b.rid => a = b
    <3>1. \A a \in sent[c] : a.rid # cmd.rid
      BY <1>6, <2>2
    <3>2. QED
      BY <1>2, <1>3, <3>1, Zenon DEF NumberInv
  <2>6. QED
    BY <2>3, <2>4, <2>5, Zenon DEF NumberInv
<1>8. \A d \in Client : Responses(d)' = Responses(d)
  BY <1>1, Zenon DEF Responses
<1>9. \A d : IsAnswered(c, d)' <=> IsAnswered(c, d)
  BY <1>8, Zenon DEF IsAnswered
<1>10. ~IsAnswered(c, cmd)
  <2>1. \A a \in sent[c] : a.rid # cmd.rid /\ Response(a, Verdict(a)).rid = a.rid
    BY <1>1, <1>6 DEF Response
  <2>2. QED
    BY <1>2, <2>1 DEF IsAnswered, AnswerInv
<1>11. AnswerInv(c)'
  BY <1>2, <1>3, <1>8 DEF AnswerInv
<1>12. \A s \in Sector : Callbacks(s)' = Callbacks(s)
  BY <1>1, Zenon DEF Callbacks
<1>13. PlaceInv(c)'
  <2>1. PICK q \in Seq(CommandOf(c)) : q = inbox[c]
    BY Zenon DEF IInv, ConnOK
  <2>2. \A k \in DOMAIN Append(q, cmd) : \/ k \in DOMAIN q /\ Append(q, cmd)[k] = q[k]
                                         \/ k = Len(q) + 1 /\ Append(q, cmd)[k] = cmd
    OBVIOUS
  <2>3. \A k \in DOMAIN q : q[k] \in sent[c] /\ ~IsAnswered(c, q[k]) /\ q[k] # cmd
    BY <1>2, <1>6, <2>1, Zenon DEF PlaceInv
  <2>4. \A j, k \in DOMAIN q : q[j] = q[k] => j = k
    BY <1>2, <2>1, Zenon DEF PlaceInv
  <2>5. inbox'[c] = Append(q, cmd)
    BY <1>3, <2>1, Zenon
  <2>6. \A j, k \in DOMAIN inbox'[c] : inbox'[c][j] = inbox'[c][k] => j = k
    BY <2>2, <2>3, <2>4, <2>5
  <2>7. ASSUME NEW k \in DOMAIN inbox'[c]
        PROVE  inbox'[c][k] \in sent'[c] /\ \A n \in DOMAIN Responses(c)' : Responses(c)'[n].rid # inbox'[c][k].rid
    <3>1. PICK d : d = inbox'[c][k] /\ d \in sent'[c] /\ ~IsAnswered(c, d)
      BY <1>3, <1>10, <2>2, <2>3, <2>5, <2>7, Zenon
    <3>2. QED
      BY <1>8, <3>1, Zenon DEF IsAnswered
  <2>8. \A d : Open(c, d) => Open(c, d)'
    <3> SUFFICES ASSUME NEW d, Open(c, d) PROVE Open(c, d)'
      BY Zenon
    <3>1. d \in sent[c] /\ d # cmd /\ ~IsAnswered(c, d) /\ Verdict(d) = "Ok" /\ \A k \in DOMAIN q : q[k] # d
      BY <1>6, <2>1, Zenon DEF Open
    <3>2. \A k \in DOMAIN inbox'[c] : inbox'[c][k] # d
      BY <2>2, <2>5, <3>1, Zenon
    <3>3. QED
      BY <1>3, <1>9, <3>1, <3>2, Zenon DEF Open
  <2>9. (task[c] = "waiting" => Open(c, held[c]))'
    <3>1. ASSUME task'[c] = "waiting" PROVE \E d : d = held'[c] /\ Open(c, d)'
      BY <1>1, <1>2, <2>8, <3>1, Zenon DEF PlaceInv
    <3>2. QED
      BY <3>1, Zenon DEF Open, IsAnswered, Responses
  <2>10. \A s \in Sector : \A x \in Callbacks(s)' : x.conn = c => Open(c, x)' /\ x.sector = s /\ ~Holds(c, x)'
    BY <1>1, <1>2, <1>12, <2>8 DEF PlaceInv, Holds
  <2>11. (\A k \in DOMAIN inbox[c] : inbox[c][k] \in sent[c] /\ ~IsAnswered(c, inbox[c][k]))'
    BY <2>7, Zenon DEF IsAnswered
  <2>12. QED
    BY <2>6, <2>9, <2>10, <2>11, Zenon DEF PlaceInv
<1>14. ASSUME NEW d \in Client, d # c PROVE NumberInv(d)' /\ PlaceInv(d)' /\ AnswerInv(d)'
  <2>1. NumberInv(d) /\ PlaceInv(d) /\ AnswerInv(d)
    BY Zenon DEF TrackInv
  <2>2. /\ sent'[d] = sent[d] /\ Responses(d)' = Responses(d) /\ inbox'[d] = inbox[d]
        /\ task'[d] = "waiting" => task[d] = "waiting" /\ held'[d] = held[d]
        /\ \A s \in Sector : \A x \in Callbacks(s)' : x.conn = d => x \in Callbacks(s)
    BY <1>1, <1>3, <1>8, <1>12, <1>14, Zenon
  <2>3. QED
    BY <2>1, <2>2, Undisturbed, Zenon
<1>15. QED
  BY <1>4, <1>7, <1>11, <1>13, <1>14, Zenon DEF TrackInv

\* A client reads a response.
LEMMA ClientReadsKeepsTrackInv ==
  ASSUME IInv, TrackInv, NEW c \in Client, ClientReads(c)
  PROVE  TrackInv'
<1>1. /\ outbuf[c] # <<>> /\ UNCHANGED <<inbox, task, held, queue, op, sent>>
      /\ received' = [received EXCEPT ![c] = Append(@, Head(outbuf[c]))]
      /\ outbuf' = [outbuf EXCEPT ![c] = Tail(@)]
  BY Zenon DEF ClientReads, connVars, workerVars
<1>2. /\ sent \in [Client -> SUBSET ClientCommand] /\ outbuf \in [Client -> Seq(Reaction)]
      /\ received \in [Client -> Seq(Reaction)]
  BY Zenon DEF TrackInv, ClientOK
<1>3. outbuf[c] \in Seq(Reaction) /\ received[c] \in Seq(Reaction)
  BY <1>2, Zenon
<1>4. /\ Append(received[c], Head(outbuf[c])) \o Tail(outbuf[c]) = received[c] \o outbuf[c]
      /\ Append(received[c], Head(outbuf[c])) \in Seq(Reaction) /\ Tail(outbuf[c]) \in Seq(Reaction)
  BY <1>1, <1>3, ReadResponse, Zenon
<1>5. ClientOK'
  BY <1>1, <1>2, <1>4, Zenon DEF ClientOK
<1>6. \A d \in Client : received'[d] \o outbuf'[d] = received[d] \o outbuf[d]
  BY <1>1, <1>2, <1>4, Zenon
<1>7. ASSUME NEW d \in Client PROVE NumberInv(d)' /\ PlaceInv(d)' /\ AnswerInv(d)'
  <2>1. NumberInv(d) /\ PlaceInv(d) /\ AnswerInv(d)
    BY Zenon DEF TrackInv
  <2>2. Responses(d)' = Responses(d)
    BY <1>6, Zenon DEF Responses
  <2>3. \A s \in Sector : Callbacks(s)' = Callbacks(s)
    BY <1>1, Zenon DEF Callbacks
  <2>4. QED
    BY <1>1, <2>1, <2>2, <2>3, Undisturbed, Zenon
<1>8. QED
  BY <1>5, <1>7, Zenon DEF TrackInv

\* The task of a connection answers by itself.
LEMMA ReadRefusedKeepsTrackInv ==
  ASSUME IInv, TrackInv, NEW c \in Conn, ReadRefused(c)
  PROVE  TrackInv'
<1>1. /\ c \in Client /\ inbox[c] # <<>> /\ task[c] = "reading" /\ Consume(c)
      /\ Refusal(Head(inbox[c])) # None /\ UNCHANGED <<held, queue, op, sent, received>>
      /\ task' = task \/ task' = [task EXCEPT ![c] = "dead"]
      /\ WriteReturns(c, Response(Head(inbox[c]), Refusal(Head(inbox[c])))) \/ outbuf' = outbuf
  BY Zenon DEF ReadRefused, Reads, Dies, workerVars, clientVars
<1>2. PICK cmd : cmd = Head(inbox[c])
  BY Zenon
<1>3. /\ cmd \in sent[c] /\ ~IsAnswered(c, cmd) /\ cmd \in ClientCommand
      /\ \E k \in DOMAIN inbox[c] : inbox[c][k] = cmd
      /\ \A d \in Client : d # c => inbox'[d] = inbox[d]
      /\ \A k \in DOMAIN inbox'[c] : inbox'[c][k] # cmd /\ \E j \in DOMAIN inbox[c] : inbox'[c][k] = inbox[c][j]
      /\ \A j, k \in DOMAIN inbox'[c] : inbox'[c][j] = inbox'[c][k] => j = k
  BY <1>1, <1>2, TakesCommand, Zenon
<1>4. Response(cmd, Verdict(cmd)) \in Reaction /\ Refusal(cmd) = Verdict(cmd)
  BY <1>1, <1>2, <1>3, ReactionTo, Zenon
<1>5. /\ ClientOK'
      /\ Responses(c)' = Responses(c) \/ Responses(c)' = Append(Responses(c), Response(cmd, Verdict(cmd)))
      /\ \A d \in Client : d # c => Responses(d)' = Responses(d)
  <2>1. PICK r \in Reaction : r = Response(cmd, Verdict(cmd))
    BY <1>4, Zenon
  <2>2. WriteReturns(c, r) \/ outbuf' = outbuf
    BY <1>1, <1>2, <1>4, <2>1, Zenon
  <2>3. ClientOK /\ c \in Client /\ UNCHANGED <<received, sent>>
    BY <1>1, Zenon DEF TrackInv
  <2>4. /\ ClientOK'
        /\ Responses(c)' = Responses(c) \/ Responses(c)' = Append(Responses(c), r)
        /\ \A d \in Client : d # c => Responses(d)' = Responses(d)
    BY <2>2, <2>3, WriteEffect, Zenon
  <2>5. QED
    BY <2>1, <2>4, Zenon
<1>6. \A s \in Sector : Callbacks(s)' = Callbacks(s)
  BY <1>1, Zenon DEF Callbacks
<1>7. \A d \in Client : task'[d] = "waiting" => task[d] = "waiting" /\ d # c /\ held'[d] = held[d]
  BY <1>1, Zenon DEF IInv, ConnOK, Conn
<1>8. NumberInv(c)' /\ PlaceInv(c)' /\ AnswerInv(c)'
  <2>1. ClientOK /\ NumberInv(c) /\ PlaceInv(c) /\ AnswerInv(c)
    BY <1>1, Zenon DEF TrackInv
  <2>2. \A s \in Sector : \A x \in Callbacks(s)' : x.conn = c => x \in Callbacks(s) /\ x # cmd
    BY <1>3, <1>6, <2>1 DEF PlaceInv, Open
  <2>3. task'[c] # "waiting" /\ sent'[c] = sent[c]
    BY <1>1, <1>7, Zenon
  <2>4. QED
    BY <1>1, <1>3, <1>5, <2>1, <2>2, <2>3, CommandEnds, Zenon
<1>9. ASSUME NEW d \in Client, d # c PROVE NumberInv(d)' /\ PlaceInv(d)' /\ AnswerInv(d)'
  <2>1. NumberInv(d) /\ PlaceInv(d) /\ AnswerInv(d)
    BY Zenon DEF TrackInv
  <2>2. /\ sent'[d] = sent[d] /\ Responses(d)' = Responses(d) /\ inbox'[d] = inbox[d]
        /\ task'[d] = "waiting" => task[d] = "waiting" /\ held'[d] = held[d]
        /\ \A s \in Sector : \A x \in Callbacks(s)' : x.conn = d => x \in Callbacks(s)
    BY <1>1, <1>3, <1>5, <1>6, <1>7, <1>9, Zenon
  <2>3. QED
    BY <2>1, <2>2, Undisturbed, Zenon
<1>10. QED
  BY <1>5, <1>8, <1>9, Zenon DEF TrackInv

\* The task of a connection accepts a command and holds it.
LEMMA ReadClientCommandKeepsTrackInv ==
  ASSUME IInv, TrackInv, NEW c \in Conn, ReadClientCommand(c)
  PROVE  TrackInv'
<1>1. /\ c \in Client /\ inbox[c] # <<>> /\ task[c] = "reading" /\ Consume(c)
      /\ Refusal(Head(inbox[c])) = None /\ UNCHANGED <<queue, op, sent, received, outbuf>>
      /\ task' = [task EXCEPT ![c] = "waiting"] /\ held' = [held EXCEPT ![c] = Head(inbox[c])]
  BY Zenon DEF ReadClientCommand, Reads, workerVars, clientVars
<1>2. PICK cmd : cmd = Head(inbox[c])
  OBVIOUS
<1>3. /\ cmd \in sent[c] /\ ~IsAnswered(c, cmd) /\ cmd \in ClientCommand
      /\ \E k \in DOMAIN inbox[c] : inbox[c][k] = cmd
      /\ \A d \in Client : d # c => inbox'[d] = inbox[d]
      /\ \A k \in DOMAIN inbox'[c] : inbox'[c][k] # cmd /\ \E j \in DOMAIN inbox[c] : inbox'[c][k] = inbox[c][j]
      /\ \A j, k \in DOMAIN inbox'[c] : inbox'[c][j] = inbox'[c][k] => j = k
  BY <1>1, <1>2, TakesCommand, Zenon
<1>4. Verdict(cmd) = "Ok"
  BY <1>1, <1>2, <1>3, ReactionTo, Zenon
<1>5. ClientOK' /\ \A d \in Client : Responses(d)' = Responses(d)
  BY <1>1, Zenon DEF TrackInv, ClientOK, Responses
<1>6. \A s \in Sector : Callbacks(s)' = Callbacks(s)
  BY <1>1, Zenon DEF Callbacks
<1>7. /\ task'[c] = "waiting" /\ held'[c] = cmd
      /\ \A d \in Client : d # c => task'[d] = task[d] /\ held'[d] = held[d]
  BY <1>1, <1>2, Zenon DEF IInv, ConnOK, Conn
<1>8. ClientOK /\ NumberInv(c) /\ PlaceInv(c) /\ AnswerInv(c)
  BY <1>1, Zenon DEF TrackInv
<1>9. NumberInv(c)' /\ AnswerInv(c)'
  BY <1>1, <1>5, <1>8, Zenon DEF NumberInv, AnswerInv
<1>10. \A d : IsAnswered(c, d)' <=> IsAnswered(c, d)
  BY <1>1, <1>5, Zenon DEF IsAnswered
<1>11. \A d : Open(c, d) => Open(c, d)' /\ d # cmd
  BY <1>1, <1>3, <1>10 DEF Open
<1>12. Open(c, cmd)'
  BY <1>1, <1>3, <1>4, <1>10, Zenon DEF Open
<1>13. PlaceInv(c)'
  <2>1. \A k \in DOMAIN inbox'[c] : inbox'[c][k] \in sent[c] /\ ~IsAnswered(c, inbox'[c][k])
    BY <1>3, <1>8 DEF PlaceInv, IsAnswered
  <2>2. (\A k \in DOMAIN inbox[c] : inbox[c][k] \in sent[c] /\ ~IsAnswered(c, inbox[c][k]))'
    BY <1>1, <1>5, <2>1, Zenon DEF IsAnswered
  <2>3. (task[c] = "waiting" => Open(c, held[c]))'
    BY <1>7, <1>12, Zenon DEF Open, IsAnswered, Responses
  <2>4. \A s \in Sector : \A x \in Callbacks(s)' : x.conn = c => Open(c, x)' /\ x.sector = s /\ ~Holds(c, x)'
    BY <1>6, <1>7, <1>8, <1>11, Zenon DEF PlaceInv, Holds
  <2>5. QED
    BY <1>3, <2>2, <2>3, <2>4, Zenon DEF PlaceInv
<1>14. ASSUME NEW d \in Client, d # c PROVE NumberInv(d)' /\ PlaceInv(d)' /\ AnswerInv(d)'
  <2>1. NumberInv(d) /\ PlaceInv(d) /\ AnswerInv(d)
    BY DEF TrackInv
  <2>2. /\ sent'[d] = sent[d] /\ Responses(d)' = Responses(d) /\ inbox'[d] = inbox[d]
        /\ task'[d] = "waiting" => task[d] = "waiting" /\ held'[d] = held[d]
        /\ \A s \in Sector : \A x \in Callbacks(s)' : x.conn = d => x \in Callbacks(s)
    BY <1>1, <1>3, <1>5, <1>6, <1>7, <1>14, Zenon
  <2>3. QED
    BY <2>1, <2>2, Undisturbed
<1>15. QED
  BY <1>5, <1>9, <1>13, <1>14, Zenon DEF TrackInv

\* The task of a connection hands the command it holds to the worker, or dies.
LEMMA AcquireKeepsTrackInv ==
  ASSUME IInv, TrackInv, NEW c \in Conn, Acquire(c)
  PROVE  TrackInv'
<1>1. c \in Client /\ task[c] = "waiting" /\ held[c] \in ValidCommand /\ held[c].conn = c
  BY Zenon DEF IInv, ConnOK, Acquire, HasPermit, CommandOf
<1>2. PICK s \in Sector : s = held[c].sector
  BY <1>1, Kinds, Zenon
<1>3. /\ UNCHANGED <<inbox, op, sent, received, outbuf>> /\ held' = [held EXCEPT ![c] = None]
      /\ task' = [task EXCEPT ![c] = "reading"] \/ task' = [task EXCEPT ![c] = "dead"]
      /\ queue' = queue \/ queue' = [queue EXCEPT ![s] = Append(@, held[c])]
  BY <1>2, Zenon DEF Acquire, Dies, clientVars
<1>4. /\ task'[c] # "waiting"
      /\ \A d \in Client : d # c => task'[d] = task[d] /\ held'[d] = held[d]
  BY <1>1, <1>3, Zenon DEF IInv, ConnOK, Conn
<1>5. /\ \A t \in Sector : t # s => queue'[t] = queue[t]
      /\ ClientsIn(queue'[s]) \subseteq ClientsIn(queue[s]) \union {held[c]}
  <2>1. queue \in [Sector -> Seq(ValidCommand \union Message)] /\ queue[s] \in Seq(ValidCommand \union Message)
    BY Zenon DEF IInv, WorkOK
  <2>2. ClientsIn(Append(queue[s], held[c])) \subseteq ClientsIn(queue[s]) \union {held[c]}
    BY <1>1, <2>1, ClientsAppend
  <2>3. QED
    BY <1>3, <2>1, <2>2, Zenon
<1>6. \A t \in Sector : \A x \in Callbacks(t)' : x \in Callbacks(t) \/ (x = held[c] /\ t = s)
  <2>1. \A t \in Sector : Callbacks(t)' = ClientsIn(queue'[t]) \union ({op'[t]} \ {None})
    BY Zenon DEF Callbacks, ClientsIn
  <2>2. QED
    BY <1>3, <1>5, <2>1, CallbacksAre, Zenon
<1>7. ClientOK' /\ \A d \in Client : Responses(d)' = Responses(d)
  BY <1>3, Zenon DEF TrackInv, ClientOK, Responses
<1>8. NumberInv(c) /\ PlaceInv(c) /\ AnswerInv(c)
  BY <1>1, Zenon DEF TrackInv
<1>9. NumberInv(c)' /\ AnswerInv(c)'
  BY <1>1, <1>3, <1>7, <1>8, Zenon DEF NumberInv, AnswerInv
<1>10. PlaceInv(c)'
  <2>1. \A d : IsAnswered(c, d)' <=> IsAnswered(c, d)
    BY <1>1, <1>7, Zenon DEF IsAnswered
  <2>2. \A d : Open(c, d) => Open(c, d)'
    BY <1>3, <2>1, Zenon DEF Open
  <2>3. Open(c, held[c])
    BY <1>1, <1>8, Zenon DEF PlaceInv
  <2>4. \A t \in Sector : \A x \in Callbacks(t)' : x.conn = c => Open(c, x)' /\ x.sector = t /\ ~Holds(c, x)'
    BY <1>2, <1>4, <1>6, <1>8, <2>2, <2>3 DEF PlaceInv, Holds
  <2>5. (\A k \in DOMAIN inbox[c] : inbox[c][k] \in sent[c] /\ ~IsAnswered(c, inbox[c][k]))'
    BY <1>1, <1>3, <1>7, <1>8 DEF PlaceInv, IsAnswered
  <2>6. \A j, k \in DOMAIN inbox'[c] : inbox'[c][j] = inbox'[c][k] => j = k
    BY <1>3, <1>8, Zenon DEF PlaceInv
  <2>7. QED
    BY <1>4, <2>4, <2>5, <2>6, Zenon DEF PlaceInv
<1>11. ASSUME NEW d \in Client, d # c PROVE NumberInv(d)' /\ PlaceInv(d)' /\ AnswerInv(d)'
  <2>1. NumberInv(d) /\ PlaceInv(d) /\ AnswerInv(d)
    BY Zenon DEF TrackInv
  <2>2. /\ sent'[d] = sent[d] /\ Responses(d)' = Responses(d) /\ inbox'[d] = inbox[d]
        /\ task'[d] = "waiting" => task[d] = "waiting" /\ held'[d] = held[d]
    BY <1>3, <1>4, <1>7, <1>11, Zenon
  <2>3. \A t \in Sector : \A x \in Callbacks(t)' : x.conn = d => x \in Callbacks(t)
    BY <1>1, <1>6, <1>11, Zenon
  <2>4. QED
    BY <2>1, <2>2, <2>3, Undisturbed, Zenon
<1>12. QED
  BY <1>7, <1>9, <1>10, <1>11, Zenon DEF TrackInv

\* success_callback: the command in the register gets its response.
LEMMA RespondKeepsTrackInv ==
  ASSUME IInv, TrackInv, NEW s \in Sector, Respond(s)
  PROVE  TrackInv'
<1>1. /\ worker[s] = "responding" /\ UNCHANGED <<inbox, task, held, queue, sent, received>>
      /\ op' = [op EXCEPT ![s] = None]
      /\ WriteReturns(op[s].conn, Response(op[s], "Ok")) \/ outbuf' = outbuf
  BY Zenon DEF Respond, WorkerDies, connVars, clientVars
<1>2. op[s] # None /\ op[s] \in ValidCommand
  BY <1>1, Zenon DEF IInv, WorkOK
<1>3. PICK cmd \in ValidCommand : cmd = op[s]
  BY <1>2, Zenon
<1>4. PICK c \in Client : c = cmd.conn
  BY Kinds, Zenon
<1>5. cmd \in Callbacks(s)
  BY <1>2, <1>3, Zenon DEF Callbacks
<1>6. NoClient(queue[s])
  BY <1>2, Zenon DEF IInv, Guarded
<1>7. /\ Callbacks(s)' = {}
      /\ \A t \in Sector : t # s => Callbacks(t)' = Callbacks(t)
  <2>1. op'[s] = None /\ \A t \in Sector : t # s => op'[t] = op[t]
    BY <1>1, Zenon DEF IInv, WorkOK
  <2>2. QED
    BY <1>1, <1>6, <2>1, Zenon DEF Callbacks, NoClient
<1>8. ClientOK /\ NumberInv(c) /\ PlaceInv(c) /\ AnswerInv(c)
  BY Zenon DEF TrackInv
<1>9. Open(c, cmd) /\ cmd.sector = s /\ ~Holds(c, cmd)
  BY <1>4, <1>5, <1>8, Zenon DEF PlaceInv
<1>10. /\ cmd \in sent[c] /\ ~IsAnswered(c, cmd) /\ Verdict(cmd) = "Ok"
       /\ \A k \in DOMAIN inbox[c] : inbox[c][k] # cmd
  BY <1>9, Zenon DEF Open
<1>11. /\ ClientOK'
       /\ Responses(c)' = Responses(c) \/ Responses(c)' = Append(Responses(c), Response(cmd, Verdict(cmd)))
       /\ \A d \in Client : d # c => Responses(d)' = Responses(d)
  <2>1. cmd \in ClientCommand
    BY Kinds, Zenon
  <2>2. PICK r \in Reaction : r = Response(cmd, Verdict(cmd))
    BY <2>1, ReactionTo, Zenon
  <2>3. WriteReturns(c, r) \/ outbuf' = outbuf
    BY <1>1, <1>3, <1>4, <1>10, <2>2, Zenon
  <2>4. UNCHANGED <<received, sent>>
    BY <1>1, Zenon
  <2>5. /\ ClientOK'
        /\ Responses(c)' = Responses(c) \/ Responses(c)' = Append(Responses(c), r)
        /\ \A d \in Client : d # c => Responses(d)' = Responses(d)
    BY <1>8, <2>3, <2>4, WriteEffect, Zenon
  <2>6. QED
    BY <2>2, <2>5, Zenon
<1>12. NumberInv(c)' /\ PlaceInv(c)' /\ AnswerInv(c)'
  <2>1. \A t \in Sector : \A x \in Callbacks(t)' : x.conn = c => x \in Callbacks(t) /\ x # cmd
    BY <1>7, <1>8, <1>9, Zenon DEF PlaceInv
  <2>2. task'[c] = "waiting" => task[c] = "waiting" /\ held'[c] = held[c] /\ held[c] # cmd
    BY <1>1, <1>9, Zenon DEF Holds
  <2>3. \A k \in DOMAIN inbox'[c] : inbox'[c][k] # cmd /\ \E j \in DOMAIN inbox[c] : inbox'[c][k] = inbox[c][j]
    BY <1>1, <1>10, Zenon
  <2>4. \A j, k \in DOMAIN inbox'[c] : inbox'[c][j] = inbox'[c][k] => j = k
    BY <1>1, <1>8, Zenon DEF PlaceInv
  <2>5. sent'[c] = sent[c]
    BY <1>1, Zenon
  <2>6. QED
    BY <1>8, <1>10, <1>11, <2>1, <2>2, <2>3, <2>4, <2>5, CommandEnds, Zenon
<1>13. ASSUME NEW d \in Client, d # c PROVE NumberInv(d)' /\ PlaceInv(d)' /\ AnswerInv(d)'
  <2>1. NumberInv(d) /\ PlaceInv(d) /\ AnswerInv(d)
    BY Zenon DEF TrackInv
  <2>2. /\ sent'[d] = sent[d] /\ Responses(d)' = Responses(d) /\ inbox'[d] = inbox[d]
        /\ task'[d] = "waiting" => task[d] = "waiting" /\ held'[d] = held[d]
    BY <1>1, <1>11, <1>13, Zenon
  <2>3. \A t \in Sector : \A x \in Callbacks(t)' : x.conn = d => x \in Callbacks(t)
    BY <1>7, Zenon
  <2>4. QED
    BY <2>1, <2>2, <2>3, Undisturbed, Zenon
<1>14. QED
  BY <1>11, <1>12, <1>13, Zenon DEF TrackInv

\* The worker takes a command or a message; a callback goes on, or goes with the worker.
LEMMA WorkerStepKeepsTrackInv ==
  ASSUME IInv, TrackInv, NEW s \in Sector, WorkerStep(s)
  PROVE  TrackInv'
<1>1. CASE Respond(s)
  BY <1>1, RespondKeepsTrackInv, Zenon
<1>2. CASE HandleClientCommand(s) \/ HandleRequest(s) \/ HandleAnswer(s)
  <2>1. /\ queue[s] # <<>> /\ queue' = [queue EXCEPT ![s] = Tail(@)]
        /\ \/ op' = op \/ op' = [op EXCEPT ![s] = None]
           \/ Head(queue[s]).type = "Client" /\ op' = [op EXCEPT ![s] = Head(queue[s])]
    BY <1>2, Zenon DEF HandleClientCommand, HandleRequest, HandleAnswer, Handles, WorkerDies
  <2>2. \A t \in Sector : Callbacks(t)' \subseteq Callbacks(t)
    BY <2>1, TakeCallbacks, Zenon
  <2>3. UNCHANGED <<sent, outbuf, received, inbox, task, held>>
    BY <1>2, Zenon DEF HandleClientCommand, HandleRequest, HandleAnswer, connVars, clientVars
  <2>4. QED
    BY <2>2, <2>3, Unnoticed, Zenon
<1>3. QED
  BY <1>1, <1>2, Zenon DEF WorkerStep

\* A message gets to the worker of its sector, or the task that passes it on dies.
LEMMA MessageStepKeepsTrackInv ==
  ASSUME IInv, TrackInv, HandleSelfMessage \/ \E q \in Conn : ReadSystemCommand(q)
  PROVE  TrackInv'
<1>1. CASE HandleSelfMessage
  <2>1. selfq \in Seq(Message) /\ selfq # <<>>
    BY <1>1, Zenon DEF IInv, SentOK, HandleSelfMessage
  <2>2. PICK m \in Message : m = Head(selfq)
    BY <2>1, TakeFirst, Zenon
  <2>3. m.sector \in Sector
    BY Kinds, Zenon
  <2>4. op' = op /\ (queue' = queue \/ queue' = [queue EXCEPT ![m.sector] = Append(@, m)])
    BY <1>1, <2>2, Zenon DEF HandleSelfMessage
  <2>5. \A t \in Sector : Callbacks(t)' \subseteq Callbacks(t)
    <3>1. CASE queue' = queue
      BY <2>4, <3>1, Zenon DEF Callbacks
    <3>2. QED
      BY <2>3, <2>4, <3>1, EnqueueCallbacks, Zenon
  <2>6. UNCHANGED <<sent, outbuf, received, inbox, task, held>>
    BY <1>1, Zenon DEF HandleSelfMessage, connVars, clientVars
  <2>7. QED
    BY <2>5, <2>6, Unnoticed, Zenon
<1>2. ASSUME NEW q \in Conn, ReadSystemCommand(q) PROVE TrackInv'
  <2>1. /\ q \in Peer /\ inbox[q] # <<>> /\ Consume(q) /\ UNCHANGED <<sent, outbuf, received, held, op>>
        /\ task' = task \/ task' = [task EXCEPT ![q] = "dead"]
    BY <1>2, Zenon DEF ReadSystemCommand, Reads, Dies, clientVars
  <2>2. PICK m \in Message : m = Head(inbox[q])
    BY <2>1, TakeFirst, Zenon DEF IInv, ConnOK
  <2>3. m.sector \in Sector
    BY Kinds, Zenon
  <2>4. queue' = queue \/ queue' = [queue EXCEPT ![m.sector] = Append(@, m)]
    BY <1>2, <2>2, Zenon DEF ReadSystemCommand
  <2>5. \A t \in Sector : Callbacks(t)' \subseteq Callbacks(t)
    <3>1. CASE queue' = queue
      BY <2>1, <3>1, Zenon DEF Callbacks
    <3>2. QED
      BY <2>1, <2>3, <2>4, <3>1, EnqueueCallbacks, Zenon
  <2>6. \A c \in Client : c # q /\ c \in Conn
    BY <2>1, ProcessAssumption, Zenon DEF Conn
  <2>7. /\ \A c \in Client : inbox'[c] = inbox[c]
        /\ \A c \in Client : task'[c] = "waiting" => task[c] = "waiting" /\ held'[c] = held[c]
    BY <2>1, <2>6, Zenon DEF IInv, ConnOK, Consume
  <2>8. QED
    BY <2>1, <2>5, <2>7, Unnoticed, Zenon
<1>3. QED
  BY <1>1, <1>2, Zenon

\* Every step keeps a command at one place.
LEMMA NextKeepsTrackInv == IInv /\ TrackInv /\ [Next]_vars => TrackInv'
<1> SUFFICES ASSUME IInv, TrackInv, [Next]_vars PROVE TrackInv'
  BY Zenon
<1>1. ASSUME UNCHANGED <<sent, outbuf, received, task, held, queue, op>>, \A c \in Client : inbox'[c] = inbox[c]
      PROVE  TrackInv'
  <2>1. \A s \in Sector : Callbacks(s)' \subseteq Callbacks(s)
    BY <1>1, Zenon DEF Callbacks
  <2>2. QED
    BY <1>1, <2>1, Unnoticed, Zenon
<1>2. ASSUME NEW c \in Client, NEW cmd \in ClientCommand, ClientSends(c, cmd) PROVE TrackInv'
  BY <1>2, ClientSendsKeepsTrackInv, Zenon
<1>3. ASSUME NEW c \in Client, ClientReads(c) PROVE TrackInv'
  BY <1>3, ClientReadsKeepsTrackInv, Zenon
<1>4. ASSUME NEW c \in Client, ClientCloses(c) PROVE TrackInv'
  BY <1>1, <1>4, Zenon DEF ClientCloses, connVars, workerVars
<1>5. ASSUME NEW q \in Peer, (\E cmd \in asked[q] : PeerAnswers(q, cmd)) \/ (\E s \in Sector : PeerAsks(q, s))
      PROVE  TrackInv'
  <2>1. UNCHANGED <<sent, outbuf, received, task, held, queue, op>> /\ \E x : inbox' = [inbox EXCEPT ![q] = x]
    BY <1>5, Zenon DEF PeerAnswers, PeerAsks, workerVars, clientVars
  <2>2. \A c \in Client : inbox'[c] = inbox[c]
    BY <2>1, ProcessAssumption, Zenon DEF IInv, ConnOK, Conn
  <2>3. QED
    BY <1>1, <2>1, <2>2, Zenon
<1>6. ASSUME NEW c \in Conn, ConnectionEnds(c) PROVE TrackInv'
  <2>1. /\ UNCHANGED <<sent, outbuf, received, inbox, held, queue, op>>
        /\ task' = [task EXCEPT ![c] = "dead"]
    BY <1>6, Zenon DEF ConnectionEnds, Dies, workerVars, clientVars
  <2>2. \A d \in Client : task'[d] = "waiting" => task[d] = "waiting" /\ held'[d] = held[d]
    BY <2>1, Zenon DEF IInv, ConnOK, Conn
  <2>3. \A s \in Sector : Callbacks(s)' \subseteq Callbacks(s)
    BY <2>1, Zenon DEF Callbacks
  <2>4. QED
    BY <2>1, <2>2, <2>3, Unnoticed, Zenon
<1>7. ASSUME NEW c \in Conn, ConnectionStep(c) PROVE TrackInv'
  BY <1>6, <1>7, ReadRefusedKeepsTrackInv, ReadClientCommandKeepsTrackInv, AcquireKeepsTrackInv,
     MessageStepKeepsTrackInv DEF ConnectionStep
<1>8. ASSUME NEW s \in Sector, WorkerStep(s) PROVE TrackInv'
  BY <1>8, WorkerStepKeepsTrackInv, Zenon
<1>9. CASE HandleSelfMessage
  BY <1>9, MessageStepKeepsTrackInv, Zenon
<1>10. CASE UNCHANGED vars
  BY <1>1, <1>10, Zenon DEF vars, connVars, workerVars, clientVars
<1>11. QED
  BY <1>2, <1>3, <1>4, <1>5, <1>7, <1>8, <1>9, <1>10, Zenon DEF Next

\* For any number of clients, peers and sectors, whatever tasks die: a client gets at
\* most one response to a command, and the one it deserves. A response "Ok" has gone
\* through the register, and only an authentic command for a sector that exists does.
THEOREM OneResponse == Spec => []RespondedOnce
<1>1. TrackInv => RespondedOnce
  BY Zenon DEF TrackInv, AnswerInv, RespondedOnce, Verdict
<1>2. QED
  BY InitIInv, NextKeepsIInv, InitTrackInv, NextKeepsTrackInv, <1>1, PTL DEF Spec

-----------------------------------------------------------------------------
(***************************************************************************)
(* The types                                                               *)
(***************************************************************************)
\* A task that waits is in line for the permit of its sector, and holds a command only
\* while it waits.
LineInv ==
    /\ task \in [Conn -> {"reading", "waiting", "dead"}]
    /\ waiters \in [Sector -> Seq(Client)]
    /\ \A c \in Conn : task[c] # "waiting" => held[c] = None
    /\ \A c \in Conn : task[c] = "waiting" => \E k \in DOMAIN waiters[held[c].sector] : waiters[held[c].sector][k] = c

\* What the workers, the task of own messages, the connections and the peers are.
StageInv ==
    /\ worker \in [Sector -> {"running", "responding", "dead"}]
    /\ answers \in [Sector -> SUBSET (Peer \union {Self})]
    /\ selfTask \in {"running", "dead"}
    /\ closed \subseteq Closing
    /\ \A c \in Client : Len(outbuf[c]) <= Room
    /\ requests \in [Peer -> 0 .. MaxRequests]

\* A step in which tasks may die and nobody gets in line or leaves it.
LEMMA SameLine ==
  ASSUME IInv, LineInv, UNCHANGED <<held, waiters>>,
         task' = task \/ \E c \in Conn : task[c] = "reading" /\ task' = [task EXCEPT ![c] = "dead"]
  PROVE  LineInv'
BY Zenon DEF LineInv

\* The task of a connection gets in line.
LEMMA ReadClientCommandKeepsLineInv ==
  ASSUME IInv, LineInv, NEW c \in Conn, ReadClientCommand(c)
  PROVE  LineInv'
<1>1. c \in Client /\ inbox[c] \in Seq(CommandOf(c)) /\ inbox[c] # <<>>
  BY Zenon DEF IInv, ConnOK, ReadClientCommand, Reads
<1>2. PICK cmd \in ClientCommand : cmd = Head(inbox[c])
  BY <1>1, TakeFirst, Zenon DEF CommandOf
<1>3. Refusal(cmd) = None
  BY <1>2, Zenon DEF ReadClientCommand
<1>4. PICK s \in Sector : s = cmd.sector
  BY <1>3, NoneAssumption, ProcessAssumption DEF Refusal, ValidSector, Sector, ClientCommand
<1>5. /\ waiters' = [waiters EXCEPT ![s] = Append(@, c)] /\ task' = [task EXCEPT ![c] = "waiting"]
      /\ held' = [held EXCEPT ![c] = cmd] /\ task[c] = "reading"
  BY <1>2, <1>4, Zenon DEF ReadClientCommand, Reads
<1>6. waiters[s] \in Seq(Client) /\ waiters \in [Sector -> Seq(Client)]
  BY Zenon DEF LineInv
<1>7. PICK w \in Seq(Client) : w = Append(waiters[s], c)
  <2>1. c \in Client /\ waiters[s] \in Seq(Client)
    BY <1>1, <1>6, Zenon
  <2>2. Append(waiters[s], c) \in Seq(Client)
    BY <2>1
  <2>3. QED
    BY <2>2, Zenon
<1>8. /\ Len(w) \in DOMAIN w /\ w[Len(w)] = c
      /\ \A k \in DOMAIN waiters[s] : k \in DOMAIN w /\ w[k] = waiters[s][k]
  BY <1>1, <1>6, <1>7
<1>9. waiters' \in [Sector -> Seq(Client)] /\ waiters'[s] = w /\ \A t \in Sector : t # s => waiters'[t] = waiters[t]
  BY <1>5, <1>6, <1>7, Zenon
<1>10. /\ task'[c] = "waiting" /\ held'[c] = cmd
       /\ \A d \in Conn : d # c => task'[d] = task[d] /\ held'[d] = held[d]
       /\ task' \in [Conn -> {"reading", "waiting", "dead"}]
  <2>1. task \in [Conn -> {"reading", "waiting", "dead"}] /\ held = [d \in Conn |-> held[d]]
    BY Zenon DEF LineInv, IInv, ConnOK
  <2>2. QED
    BY <1>5, <2>1, Zenon
<1>11. ASSUME NEW d \in Conn, task'[d] = "waiting"
       PROVE  \E k \in DOMAIN waiters'[held'[d].sector] : waiters'[held'[d].sector][k] = d
  <2>1. CASE d = c
    BY <1>4, <1>8, <1>9, <1>10, <2>1, Zenon
  <2>2. CASE d # c
    <3>1. task[d] = "waiting" /\ held'[d] = held[d]
      BY <1>10, <1>11, <2>2, Zenon
    <3>2. PICK t \in Sector : t = held[d].sector
      BY <3>1, Kinds, Zenon DEF IInv, ConnOK
    <3>3. PICK k \in DOMAIN waiters[t] : waiters[t][k] = d
      BY <3>1, <3>2, Zenon DEF LineInv
    <3>4. k \in DOMAIN waiters'[t] /\ waiters'[t][k] = d
      BY <1>8, <1>9, <3>3, Zenon
    <3>5. QED
      BY <3>1, <3>2, <3>4, Zenon
  <2>3. QED
    BY <2>1, <2>2, Zenon
<1>12. QED
  BY <1>9, <1>10, <1>11, Zenon DEF LineInv

\* The first in line gets the permit.
LEMMA AcquireKeepsLineInv ==
  ASSUME IInv, LineInv, NEW c \in Conn, Acquire(c)
  PROVE  LineInv'
<1>1. c \in Client /\ task[c] = "waiting" /\ held[c] \in ValidCommand
  BY Zenon DEF IInv, ConnOK, Acquire, HasPermit
<1>2. PICK s \in Sector : s = held[c].sector
  BY <1>1, Kinds, Zenon
<1>3. /\ waiters' = [waiters EXCEPT ![s] = Tail(@)] /\ Head(waiters[s]) = c
      /\ held' = [held EXCEPT ![c] = None]
      /\ task' = [task EXCEPT ![c] = "reading"] \/ task' = [task EXCEPT ![c] = "dead"]
  BY <1>2, Zenon DEF Acquire, HasPermit, Dies
<1>4. /\ waiters[s] \in Seq(Client) /\ waiters \in [Sector -> Seq(Client)]
      /\ \E k \in DOMAIN waiters[s] : waiters[s][k] = c
  BY <1>1, <1>2, Zenon DEF LineInv
<1>5. waiters[s] # <<>>
  BY <1>4
<1>6. /\ Tail(waiters[s]) \in Seq(Client) /\ waiters[s][1] = c
      /\ \A k \in DOMAIN waiters[s] : k # 1 => k - 1 \in DOMAIN Tail(waiters[s]) /\ Tail(waiters[s])[k - 1] = waiters[s][k]
  BY <1>3, <1>4, <1>5
<1>7. PICK w \in Seq(Client) : w = Tail(waiters[s])
  BY <1>6, Zenon
<1>8. waiters' \in [Sector -> Seq(Client)] /\ waiters'[s] = w /\ \A t \in Sector : t # s => waiters'[t] = waiters[t]
  BY <1>3, <1>4, <1>7, Zenon
<1>9. /\ task'[c] # "waiting" /\ held'[c] = None
      /\ \A d \in Conn : d # c => task'[d] = task[d] /\ held'[d] = held[d]
      /\ task' \in [Conn -> {"reading", "waiting", "dead"}]
  BY <1>3, Zenon DEF LineInv, IInv, ConnOK
<1>10. ASSUME NEW d \in Conn, task'[d] = "waiting"
       PROVE  \E k \in DOMAIN waiters'[held'[d].sector] : waiters'[held'[d].sector][k] = d
  <2>1. d # c /\ task[d] = "waiting" /\ held'[d] = held[d]
    BY <1>9, <1>10, Zenon
  <2>2. PICK t \in Sector : t = held[d].sector
    BY <2>1, Kinds, Zenon DEF IInv, ConnOK
  <2>3. PICK k \in DOMAIN waiters[t] : waiters[t][k] = d
    BY <2>1, <2>2, Zenon DEF LineInv
  <2>4. CASE t = s
    <3>1. k - 1 \in DOMAIN w /\ w[k - 1] = d
      BY <1>6, <1>7, <2>1, <2>3, <2>4, Zenon
    <3>2. QED
      BY <1>8, <2>1, <2>2, <2>4, <3>1, Zenon
  <2>5. CASE t # s
    BY <1>8, <2>1, <2>2, <2>3, <2>5, Zenon
  <2>6. QED
    BY <2>4, <2>5, Zenon
<1>11. QED
  BY <1>8, <1>9, <1>10, Zenon DEF LineInv

\* Every step keeps the lines.
LEMMA NextKeepsLineInv == IInv /\ LineInv /\ [Next]_vars => LineInv'
<1> SUFFICES ASSUME IInv, LineInv, [Next]_vars PROVE LineInv'
  OBVIOUS
<1>1. ASSUME NEW c \in Conn, ConnectionStep(c) PROVE LineInv'
  <2>1. CASE ReadRefused(c) \/ ReadSystemCommand(c) \/ ConnectionEnds(c)
    <3>1. /\ UNCHANGED <<held, waiters>> /\ task[c] = "reading"
          /\ task' = task \/ task' = [task EXCEPT ![c] = "dead"]
      BY <2>1, Zenon DEF ReadRefused, ReadSystemCommand, ConnectionEnds, Reads, Dies, guardVars
    <3>2. QED
      BY <3>1, SameLine, Zenon
  <2>2. QED
    BY <1>1, <2>1, ReadClientCommandKeepsLineInv, AcquireKeepsLineInv, Zenon DEF ConnectionStep
<1>2. ASSUME UNCHANGED <<task, held, waiters>> PROVE LineInv'
  BY <1>2, SameLine, Zenon
<1>3. ASSUME NEW s \in Sector, WorkerStep(s) PROVE LineInv'
  BY <1>2, <1>3, Zenon DEF WorkerStep, HandleClientCommand, HandleRequest, HandleAnswer, Respond, connVars, guardVars
<1>4. ASSUME NEW c \in Client, (\E cmd \in ClientCommand : ClientSends(c, cmd)) \/ ClientReads(c) \/ ClientCloses(c)
      PROVE  LineInv'
  BY <1>2, <1>4, Zenon DEF ClientSends, ClientReads, ClientCloses, connVars, guardVars
<1>5. ASSUME NEW q \in Peer, (\E cmd \in asked[q] : PeerAnswers(q, cmd)) \/ (\E s \in Sector : PeerAsks(q, s))
      PROVE  LineInv'
  BY <1>2, <1>5, Zenon DEF PeerAnswers, PeerAsks, guardVars
<1>6. CASE HandleSelfMessage \/ UNCHANGED vars
  BY <1>2, <1>6, Zenon DEF HandleSelfMessage, vars, connVars, guardVars
<1>7. QED
  BY <1>1, <1>3, <1>4, <1>5, <1>6, Zenon DEF Next

\* A response fits in the connection.
LEMMA WriteFits ==
  ASSUME ClientOK, StageInv, NEW c \in Client, NEW r, WriteReturns(c, r) \/ outbuf' = outbuf
  PROVE  \A d \in Client : Len(outbuf'[d]) <= Room
<1>1. CASE outbuf' = outbuf
  BY <1>1, Zenon DEF StageInv
<1>2. CASE outbuf' = [outbuf EXCEPT ![c] = Append(@, r)] /\ Len(outbuf[c]) < Room
  <2>1. outbuf[c] \in Seq(Reaction) /\ outbuf \in [Client -> Seq(Reaction)]
    BY Zenon DEF ClientOK
  <2>2. Len(Append(outbuf[c], r)) = Len(outbuf[c]) + 1 /\ Len(outbuf[c]) \in Nat
    BY <2>1
  <2>3. Len(Append(outbuf[c], r)) <= Room
    BY <1>2, <2>2, ProcessAssumption
  <2>4. outbuf'[c] = Append(outbuf[c], r) /\ \A d \in Client : d # c => outbuf'[d] = outbuf[d]
    BY <1>2, <2>1, Zenon
  <2>5. QED
    BY <2>3, <2>4, Zenon DEF StageInv
<1>3. QED
  BY <1>1, <1>2, Zenon DEF WriteReturns

\* Every step of a worker keeps StageInv.
LEMMA WorkerKeepsStageInv ==
  ASSUME IInv, ClientOK, StageInv, NEW s \in Sector, WorkerStep(s)
  PROVE  StageInv'
<1>1. UNCHANGED <<selfTask, closed, requests>>
  BY Zenon DEF WorkerStep, HandleClientCommand, HandleRequest, HandleAnswer, Respond, clientVars, selfVars
<1>2. \A c \in Client : Len(outbuf'[c]) <= Room
  <2>1. CASE Respond(s)
    <3>1. op[s] \in ValidCommand
      BY <2>1, Zenon DEF IInv, WorkOK, Respond
    <3>2. op[s].conn \in Client
      BY <3>1, Kinds, Zenon
    <3>3. WriteReturns(op[s].conn, Response(op[s], "Ok")) \/ outbuf' = outbuf
      BY <2>1, Zenon DEF Respond
    <3>4. QED
      BY <3>2, <3>3, WriteFits, Zenon
  <2>2. CASE outbuf' = outbuf
    BY <2>2, Zenon DEF StageInv
  <2>3. QED
    BY <2>1, <2>2, Zenon DEF WorkerStep, HandleClientCommand, HandleRequest, HandleAnswer
<1>3. worker' \in [Sector -> {"running", "responding", "dead"}] /\ answers' \in [Sector -> SUBSET (Peer \union {Self})]
  <2>1. CASE HandleAnswer(s)
    <3>1. queue[s] \in Seq(ValidCommand \union Message) /\ queue[s] # <<>> /\ Head(queue[s]).type = "Answer"
      BY <2>1, Zenon DEF IInv, WorkOK, HandleAnswer, Handles
    <3>2. Head(queue[s]) \in Message
      BY <3>1, TakeFirst, Kinds
    <3>3. Head(queue[s]).from \in Peer \union {Self}
      BY <3>2, Zenon DEF Message, Question, Reply
    <3>4. PICK p \in Peer \union {Self} : p = Head(queue[s]).from
      BY <3>3, Zenon
    <3>5. /\ answers' = answers \/ answers' = [answers EXCEPT ![s] = @ \union {p}]
          /\ worker' = worker \/ \E w \in {"responding", worker[s]} : worker' = [worker EXCEPT ![s] = w]
      BY <2>1, <3>4, Zenon DEF HandleAnswer
    <3>6. QED
      BY <3>5 DEF StageInv
  <2>2. CASE ~HandleAnswer(s)
    <3>1. /\ worker' = worker \/ \E w \in {"running", "dead"} : worker' = [worker EXCEPT ![s] = w]
          /\ answers' = answers \/ answers' = [answers EXCEPT ![s] = {}]
      BY <2>2, Zenon DEF WorkerStep, HandleClientCommand, HandleRequest, Respond, WorkerDies
    <3>2. QED
      BY <3>1, Zenon DEF StageInv
  <2>3. QED
    BY <2>1, <2>2, Zenon
<1>4. QED
  BY <1>1, <1>2, <1>3, Zenon DEF StageInv

\* Every step keeps StageInv.
LEMMA NextKeepsStageInv == IInv /\ ClientOK /\ StageInv /\ [Next]_vars => StageInv'
<1> SUFFICES ASSUME IInv, ClientOK, StageInv, [Next]_vars PROVE StageInv'
  BY Zenon
<1>1. ASSUME UNCHANGED <<worker, answers, selfTask, closed, outbuf, requests>> PROVE StageInv'
  BY <1>1, Zenon DEF StageInv
<1>2. ASSUME NEW c \in Conn, ConnectionStep(c) PROVE StageInv'
  <2>1. CASE ReadRefused(c)
    <3>1. /\ c \in Client /\ UNCHANGED <<worker, answers, selfTask, closed, requests>>
          /\ WriteReturns(c, Response(Head(inbox[c]), Refusal(Head(inbox[c])))) \/ outbuf' = outbuf
      BY <2>1, Zenon DEF ReadRefused, workerVars, selfVars, clientVars
    <3>2. \A d \in Client : Len(outbuf'[d]) <= Room
      BY <3>1, WriteFits, Zenon
    <3>3. QED
      BY <3>1, <3>2, Zenon DEF StageInv
  <2>2. CASE ~ReadRefused(c)
    BY <1>1, <1>2, <2>2, Zenon DEF ConnectionStep, ReadClientCommand, Acquire, ReadSystemCommand, ConnectionEnds,
       workerVars, selfVars, clientVars
  <2>3. QED
    BY <2>1, <2>2, Zenon
<1>3. ASSUME NEW c \in Client, ClientReads(c) PROVE StageInv'
  <2>1. UNCHANGED <<worker, answers, selfTask, closed, requests>>
    BY <1>3, Zenon DEF ClientReads, workerVars, selfVars
  <2>2. outbuf[c] \in Seq(Reaction) /\ outbuf \in [Client -> Seq(Reaction)] /\ outbuf[c] # <<>>
    BY <1>3, Zenon DEF ClientOK, ClientReads
  <2>3. Len(Tail(outbuf[c])) = Len(outbuf[c]) - 1 /\ Len(outbuf[c]) \in Nat
    BY <2>2
  <2>4. Len(Tail(outbuf[c])) <= Room
    BY <2>3, ProcessAssumption DEF StageInv
  <2>5. outbuf'[c] = Tail(outbuf[c]) /\ \A d \in Client : d # c => outbuf'[d] = outbuf[d]
    BY <1>3, <2>2, Zenon DEF ClientReads
  <2>6. QED
    BY <2>1, <2>4, <2>5, Zenon DEF StageInv
<1>4. ASSUME NEW c \in Client, (\E cmd \in ClientCommand : ClientSends(c, cmd)) \/ ClientCloses(c) PROVE StageInv'
  <2>1. UNCHANGED <<worker, answers, selfTask, outbuf, requests>> /\ closed' \subseteq closed \union Closing
    BY <1>4, Zenon DEF ClientSends, ClientCloses, workerVars, selfVars
  <2>2. QED
    BY <2>1, Zenon DEF StageInv
<1>5. ASSUME NEW q \in Peer, \E s \in Sector : PeerAsks(q, s) PROVE StageInv'
  <2>1. /\ UNCHANGED <<worker, answers, selfTask, closed, outbuf>>
        /\ requests[q] < MaxRequests /\ requests' = [requests EXCEPT ![q] = @ + 1]
    BY <1>5, Zenon DEF PeerAsks, workerVars, selfVars, clientVars
  <2>2. requests[q] + 1 \in 0 .. MaxRequests
    BY <2>1, ProcessAssumption DEF StageInv
  <2>3. QED
    BY <2>1, <2>2, Zenon DEF StageInv
<1>6. ASSUME NEW q \in Peer, \E cmd \in asked[q] : PeerAnswers(q, cmd) PROVE StageInv'
  BY <1>1, <1>6, Zenon DEF PeerAnswers, workerVars, selfVars, clientVars
<1>7. CASE HandleSelfMessage
  BY <1>7, Zenon DEF StageInv, HandleSelfMessage, clientVars
<1>8. CASE UNCHANGED vars
  BY <1>1, <1>8, Zenon DEF vars, workerVars, selfVars, clientVars
<1>9. QED
  BY <1>2, <1>3, <1>4, <1>5, <1>6, <1>7, <1>8, WorkerKeepsStageInv, Zenon DEF Next

\* The invariants together put every variable in its type.
LEMMA Types == IInv /\ TrackInv /\ LineInv /\ StageInv => TypeOK
<1> SUFFICES ASSUME IInv, TrackInv, LineInv, StageInv PROVE TypeOK
  BY Zenon
<1>1. /\ \A cmd \in ValidCommand : cmd \in ClientCommand /\ cmd.sector \in Sector
      /\ \A m \in Message : m \in SystemCommand
  BY Zenon DEF ValidCommand, Message, Question, Reply, SystemCommand
<1>2. /\ \A c \in Client : \A k \in DOMAIN inbox[c] : inbox[c][k] \in ClientCommand
      /\ \A q \in Peer : \A k \in DOMAIN inbox[q] : inbox[q][k] \in SystemCommand
  <2>1. /\ \A c \in Client : inbox[c] \in Seq(CommandOf(c))
        /\ \A q \in Peer : inbox[q] \in Seq(Message)
    BY Zenon DEF IInv, ConnOK
  <2>2. ASSUME NEW c \in Client, NEW k \in DOMAIN inbox[c] PROVE inbox[c][k] \in ClientCommand
    <3>1. inbox[c][k] \in CommandOf(c)
      BY <2>1
    <3>2. QED
      BY <3>1, Zenon DEF CommandOf
  <2>3. ASSUME NEW q \in Peer, NEW k \in DOMAIN inbox[q] PROVE inbox[q][k] \in SystemCommand
    BY <1>1, <2>1
  <2>4. QED
    BY <2>2, <2>3, Zenon
<1>3. \A c \in Conn : IF task[c] = "waiting" THEN held[c] \in ClientCommand /\ held[c].sector \in Sector
                                             ELSE held[c] = None
  BY <1>1, Zenon DEF IInv, ConnOK, LineInv
<1>4. permit \in [Sector -> Client \union {None}]
  <2>1. ASSUME NEW s \in Sector PROVE permit[s] \in Client \union {None}
    <3>1. CASE permit[s] = None
      BY <3>1, Zenon
    <3>2. CASE op[s] # None /\ permit[s] = op[s].conn
      BY <3>2, Kinds, Zenon DEF IInv, WorkOK
    <3>3. CASE OneClient(queue[s], permit[s])
      <4>1. PICK k \in DOMAIN queue[s] : queue[s][k].type = "Client" /\ queue[s][k].conn = permit[s]
        BY <3>3, Zenon DEF OneClient
      <4>2. queue[s][k] \in ValidCommand \union Message
        BY <4>1 DEF IInv, WorkOK
      <4>3. QED
        BY <4>1, <4>2, Kinds, Zenon
    <3>4. QED
      BY <3>1, <3>2, <3>3, Zenon DEF IInv, Guarded
  <2>2. QED
    BY <2>1, Zenon DEF IInv, WorkOK
<1>5. \A s \in Sector : \A k \in DOMAIN waiters[s] : waiters[s][k] \in Client
  BY DEF LineInv
<1>6. \A s \in Sector : \A k \in DOMAIN queue[s] : queue[s][k] \in ClientCommand \union SystemCommand
  BY <1>1 DEF IInv, WorkOK
<1>7. op \in [Sector -> ClientCommand \union {None}] /\ asked \in [Peer -> SUBSET ClientCommand]
  BY <1>1, Zenon DEF IInv, WorkOK, SentOK
<1>8. \A k \in DOMAIN selfq : selfq[k] \in SystemCommand
  BY <1>1 DEF IInv, SentOK
<1>9. \A c \in Client : Len(outbuf[c]) <= Room /\ Cardinality(sent[c]) <= MaxCommands
  BY Zenon DEF StageInv, TrackInv, NumberInv
<1>10. QED
  BY <1>2, <1>3, <1>4, <1>5, <1>6, <1>7, <1>8, <1>9, Zenon DEF TypeOK, LineInv, StageInv

\* Every variable of the process stays in its type, for any constants: in particular a
\* connection never holds more responses than it has room for, and a task holds a command
\* exactly while it waits for a permit.
THEOREM TypeCorrect == Spec => []TypeOK
<1>1. Init => LineInv /\ StageInv
  BY ProcessAssumption DEF Init, LineInv, StageInv
<1>2. TrackInv => ClientOK
  BY Zenon DEF TrackInv
<1>3. QED
  BY InitIInv, NextKeepsIInv, InitTrackInv, NextKeepsTrackInv, NextKeepsLineInv, NextKeepsStageInv, Types,
     <1>1, <1>2, PTL DEF Spec
=============================================================================
