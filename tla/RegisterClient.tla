---------------------------- MODULE RegisterClient ----------------------------
(***************************************************************************)
(* The links of one process (solution/src/register_client.rs): the workers *)
(* of the sectors push a message to the channel of its target and then to  *)
(* the target's retransmission channel. For every other process one task   *)
(* writes the channel to a TCP connection and another puts the last        *)
(* message it was given back into the channel every 500 ms. The process    *)
(* itself is a target whose two channels are the one that                  *)
(* handle_self_messages reads.                                             *)
(*                                                                         *)
(* Time is left out: a tick may come at any moment.                        *)
(***************************************************************************)
EXTENDS Integers, Sequences, FiniteSets

CONSTANTS
    N,              \* processes_count
    Self,           \* self_ident
    Worker,         \* the sectors, whose workers call send and broadcast
    None,
    MaxCalls,       \* bound: calls of all workers
    Window,         \* messages a connection holds before writes block
    MaxQueue,       \* bound: a tick adds to a channel only up to this length
    MaxCrashes      \* bound: crashes of peers

ASSUME LinksAssumption ==
    /\ N \in Nat \ {0} /\ Self \in 1 .. N /\ IsFiniteSet(Worker)
    /\ Window \in Nat \ {0} /\ MaxCalls \in Nat /\ MaxQueue \in Nat /\ MaxCrashes \in Nat

Proc == 1 .. N
Peer == Proc \ {Self}

\* The n-th call of worker w: send(target), or broadcast to 1 ..= processes_count.
Message == [from : Worker, n : 1 .. MaxCalls, to : SUBSET Proc]

VARIABLES
    status,     \* "starting", "running" or "failed"
    next,       \* new: the process it connects to next
    calls,      \* the messages each worker has been told to send
    todo,       \* the rest of a worker's call: <<channel, target>> pairs, in order
    channel,    \* processes_txs
    retransmission, \* retransmission_txs
    cmd,        \* handle_retransmission: the message a target's task repeats
    link,       \* the TCP connection: "none", "open" or "broken"
    wire,       \* what is written to it and not read
    up,         \* the peers that are up, their sockets bound
    got,        \* the messages a target's process has read
    crashes

taskVars == <<channel, retransmission, cmd>>
netVars == <<link, wire, up, crashes>>
vars == <<status, next, calls, todo, taskVars, netVars, got>>

\* The process starts while some of its peers are up and some may be down.
Init ==
    /\ status = "starting"
    /\ next = 1
    /\ calls = [w \in Worker |-> <<>>]
    /\ todo = [w \in Worker |-> <<>>]
    /\ channel = [t \in Proc |-> <<>>]
    /\ retransmission = [t \in Peer |-> <<>>]
    /\ cmd = [t \in Peer |-> None]
    /\ link = [t \in Peer |-> "none"]
    /\ wire = [t \in Peer |-> <<>>]
    /\ up \in SUBSET Peer
    /\ Cardinality(Peer \ up) <= MaxCrashes
    /\ crashes = Cardinality(Peer \ up)
    /\ got = [t \in Proc |-> {}]

-----------------------------------------------------------------------------
(***************************************************************************)
(* new: one connection after the other                                     *)
(***************************************************************************)
\* The loop passes over the process itself, and ends.
SkipSelf ==
    /\ status = "starting" /\ next = Self
    /\ next' = next + 1
    /\ UNCHANGED <<status, calls, todo, taskVars, netVars, got>>

\* "Failed to connect to process": the whole process stops.
Connect ==
    /\ status = "starting" /\ next \in Peer
    /\ \/ next \in up /\ link' = [link EXCEPT ![next] = "open"] /\ next' = next + 1
                      /\ UNCHANGED status
       \/ next \notin up /\ status' = "failed" /\ UNCHANGED <<link, next>>
    /\ UNCHANGED <<calls, todo, taskVars, wire, up, crashes, got>>

Started ==
    /\ status = "starting" /\ next = N + 1
    /\ status' = "running"
    /\ UNCHANGED <<next, calls, todo, taskVars, netVars, got>>

-----------------------------------------------------------------------------
(***************************************************************************)
(* send and broadcast. The workers run in parallel, so the pushes of two   *)
(* calls interleave.                                                       *)
(***************************************************************************)
\* Mutated Pushes: the targets are 1 .. processes_count, without the last.
PushesWithoutLast(first, last) ==
    [k \in 1 .. 2 * (last - first + IF last = N THEN 0 ELSE 1) |->
        <<IF k % 2 = 1 THEN "channel" ELSE "retransmission", first + (k - 1) \div 2>>]

\* The pushes of a call, target after target.
Pushes(first, last) ==
    [k \in 1 .. 2 * (last - first + 1) |->
        <<IF k % 2 = 1 THEN "channel" ELSE "retransmission", first + (k - 1) \div 2>>]

Current(w) == [from |-> w, n |-> Len(calls[w]), to |-> calls[w][Len(calls[w])]]

Call(w, first, last) ==
    /\ status = "running"
    /\ todo[w] = <<>>
    /\ Cardinality(UNION {{v} \X DOMAIN calls[v] : v \in Worker}) < MaxCalls
    /\ calls' = [calls EXCEPT ![w] = Append(@, first .. last)]
    /\ todo' = [todo EXCEPT ![w] = Pushes(first, last)]
    /\ UNCHANGED <<status, next, taskVars, netVars, got>>

send(w, target) == Call(w, target, target)
broadcast(w) == Call(w, 1, N)

\* The next push. Both channels of the process itself are self_tx.
Push(w) ==
    LET t == Head(todo[w])[2] IN
    /\ todo[w] # <<>>
    /\ todo' = [todo EXCEPT ![w] = Tail(@)]
    /\ \/ /\ Head(todo[w])[1] = "channel" \/ t = Self
          /\ channel' = [channel EXCEPT ![t] = Append(@, Current(w))]
          /\ UNCHANGED retransmission
       \/ /\ Head(todo[w])[1] = "retransmission" /\ t # Self
          /\ retransmission' = [retransmission EXCEPT ![t] = Append(@, Current(w))]
          /\ UNCHANGED channel
    /\ UNCHANGED <<status, next, calls, cmd, netVars, got>>

-----------------------------------------------------------------------------
(***************************************************************************)
(* The two tasks of a link                                                 *)
(***************************************************************************)
\* Mutated handle_writing: the task does not wait for the connection.
handle_writing_unblocked(t) ==
    /\ channel[t] # <<>>
    /\ channel' = [channel EXCEPT ![t] = Tail(@)]
    /\ wire' = [wire EXCEPT ![t] = IF link[t] = "open" THEN Append(@, Head(channel[t])) ELSE @]
    /\ UNCHANGED <<status, next, calls, todo, retransmission, cmd, link, up, crashes, got>>

\* An error of the write is ignored and the message is gone.
handle_writing(t) ==
    /\ channel[t] # <<>>
    /\ link[t] = "open" => Len(wire[t]) < Window
    /\ channel' = [channel EXCEPT ![t] = Tail(@)]
    /\ wire' = [wire EXCEPT ![t] = IF link[t] = "open" THEN Append(@, Head(channel[t])) ELSE @]
    /\ UNCHANGED <<status, next, calls, todo, retransmission, cmd, link, up, crashes, got>>

\* Mutated Tick: the message is taken out and sent once.
TickTakes(t) ==
    /\ cmd[t] # None
    /\ channel' = [channel EXCEPT ![t] = Append(@, cmd[t])]
    /\ cmd' = [cmd EXCEPT ![t] = None]
    /\ UNCHANGED <<status, next, calls, todo, retransmission, netVars, got>>

\* interval.tick()
Tick(t) ==
    /\ cmd[t] # None
    /\ Len(channel[t]) < MaxQueue
    /\ channel' = [channel EXCEPT ![t] = Append(@, cmd[t])]
    /\ UNCHANGED <<status, next, calls, todo, retransmission, cmd, netVars, got>>

\* retransmission_rx.recv(): the message takes the place of the one before it.
TakeRetransmission(t) ==
    /\ retransmission[t] # <<>>
    /\ cmd' = [cmd EXCEPT ![t] = Head(retransmission[t])]
    /\ retransmission' = [retransmission EXCEPT ![t] = Tail(@)]
    /\ UNCHANGED <<status, next, calls, todo, channel, netVars, got>>

-----------------------------------------------------------------------------
(***************************************************************************)
(* The other ends: handle_self_messages, and the peers                     *)
(***************************************************************************)
Got(t, m) == got' = [got EXCEPT ![t] = @ \union {m}]

SelfReceives ==
    /\ channel[Self] # <<>>
    /\ Got(Self, Head(channel[Self]))
    /\ channel' = [channel EXCEPT ![Self] = Tail(@)]
    /\ UNCHANGED <<status, next, calls, todo, retransmission, cmd, netVars>>

PeerReceives(t) ==
    /\ t \in up /\ wire[t] # <<>>
    /\ Got(t, Head(wire[t]))
    /\ wire' = [wire EXCEPT ![t] = Tail(@)]
    /\ UNCHANGED <<status, next, calls, todo, taskVars, link, up, crashes>>

\* A crash of a peer breaks the connection to it; nothing connects again.
PeerCrashes(t) ==
    /\ t \in up /\ crashes < MaxCrashes
    /\ crashes' = crashes + 1
    /\ up' = up \ {t}
    /\ wire' = [wire EXCEPT ![t] = <<>>]
    /\ link' = [link EXCEPT ![t] = IF @ = "open" THEN "broken" ELSE @]
    /\ UNCHANGED <<status, next, calls, todo, taskVars, got>>

\* Mutated PeerRestarts: the process connects again and goes on with the channel.
PeerRestartsReconnected(t) ==
    /\ t \in Peer \ up
    /\ up' = up \union {t}
    /\ link' = [link EXCEPT ![t] = IF @ = "broken" THEN "open" ELSE @]
    /\ UNCHANGED <<status, next, calls, todo, taskVars, wire, crashes, got>>

PeerRestarts(t) ==
    /\ t \in Peer \ up
    /\ up' = up \union {t}
    /\ UNCHANGED <<status, next, calls, todo, taskVars, link, wire, crashes, got>>

-----------------------------------------------------------------------------
LinkStep(t) == handle_writing(t) \/ Tick(t) \/ TakeRetransmission(t)

Next ==
    \/ SkipSelf
    \/ Connect
    \/ Started
    \/ \E w \in Worker, t \in Proc : send(w, t)
    \/ \E w \in Worker : broadcast(w)
    \/ \E w \in Worker : Push(w)
    \/ \E t \in Peer : LinkStep(t)
    \/ SelfReceives
    \/ \E t \in Peer : PeerReceives(t) \/ PeerCrashes(t) \/ PeerRestarts(t)

Spec == Init /\ [][Next]_vars

(***************************************************************************)
(* tokio polls every task that can proceed and its timers fire; a timer    *)
(* that messages keep resetting need not fire, which finitely many calls   *)
(* cannot do for ever. A peer that is up reads its connections, and one    *)
(* that crashed is started again.                                          *)
(***************************************************************************)
FairSpec ==
    /\ Spec
    /\ WF_vars(SkipSelf \/ Connect \/ Started)
    /\ \A w \in Worker : WF_vars(Push(w))
    /\ WF_vars(SelfReceives)
    /\ \A t \in Peer :
          /\ WF_vars(handle_writing(t)) /\ WF_vars(Tick(t)) /\ WF_vars(TakeRetransmission(t))
          /\ WF_vars(PeerReceives(t)) /\ WF_vars(PeerRestarts(t))

-----------------------------------------------------------------------------
(***************************************************************************)
(* Properties                                                              *)
(***************************************************************************)
\* Every variable stays in its type.
TypeOK ==
    /\ status \in {"starting", "running", "failed"} /\ next \in 1 .. N + 1
    /\ \A w \in Worker : Len(calls[w]) <= MaxCalls
    /\ \A t \in Proc : \A k \in DOMAIN channel[t] : channel[t][k] \in Message
    /\ \A t \in Peer : \A k \in DOMAIN retransmission[t] : retransmission[t][k] \in Message
    /\ cmd \in [Peer -> Message \union {None}]
    /\ link \in [Peer -> {"none", "open", "broken"}]
    /\ \A t \in Peer : Len(wire[t]) <= Window
    /\ up \subseteq Peer
    /\ got \in [Proc -> SUBSET Message]
    /\ crashes \in 0 .. MaxCrashes

MessageOf(w, n) == [from |-> w, n |-> n, to |-> calls[w][n]]
Asked(w, n, t) == n \in DOMAIN calls[w] /\ t \in calls[w][n]
Has(w, n, t) == Asked(w, n, t) /\ MessageOf(w, n) \in got[t]

\* A target that got a message of a worker got every earlier message of that worker
\* to it: no repetition, race of two workers or crash lets a message overtake
\* another or arrive after one that was lost.
InOrder ==
    \A w \in Worker, t \in Proc : \A n \in 1 .. MaxCalls : \A m \in 1 .. n - 1 :
        Has(w, n, t) /\ Asked(w, m, t) => Has(w, m, t)

\* A message arrives at every target, the process itself included, unless the
\* connection to it breaks.
ArrivesOnOpenLink ==
    \A w \in Worker, n \in 1 .. MaxCalls, t \in Proc :
        Asked(w, n, t) ~> (Has(w, n, t) \/ (t \in Peer /\ link[t] = "broken"))

\* m is the last message of its worker to t.
IsLast(m, t) == \A n \in m.n + 1 .. Len(calls[m.from]) : t \notin calls[m.from][n]

\* Stubborn links (register_client.rs: "which send messages forever"): as long as the
\* connection to a peer is open, the peer receives again and again a message that is
\* the last one of its worker. Of the last messages of several workers it is only one.
RepeatsForever ==
    \A t \in Peer :
        <>[](link[t] = "open" /\ \E w \in Worker, n \in 1 .. MaxCalls : Asked(w, n, t)) =>
            []<><<PeerReceives(t) /\ IsLast(Head(wire[t]), t)>>_vars

\* README.md: "Your internal TCP client is not allowed to lose any messages, even when
\* a target process crashes and the TCP connection gets broken." Under FairSpec every
\* crashed peer comes back.
NoMessageLost ==
    \A w \in Worker, n \in 1 .. MaxCalls, t \in Proc : Asked(w, n, t) ~> Has(w, n, t)
=============================================================================
