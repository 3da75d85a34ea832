-------------------------- MODULE RegisterClientProofs --------------------------
(***************************************************************************)
(* Proof that messages of a worker arrive in the order of its calls, for   *)
(* any number of processes, workers, calls and crashes.                    *)
(***************************************************************************)
EXTENDS RegisterClient, FiniteSetTheorems, TLAPS

\* A push: a channel and a target.
Item == {"channel", "retransmission"} \X Proc

TypeInv ==
    /\ status \in {"starting", "running", "failed"} /\ next \in 1 .. N + 1
    /\ calls \in [Worker -> Seq(SUBSET Proc)]
    /\ \A w \in Worker : Len(calls[w]) <= MaxCalls
    /\ todo \in [Worker -> Seq(Item)]
    /\ \A w \in Worker : todo[w] # <<>> => calls[w] # <<>>
    /\ channel \in [Proc -> Seq(Message)]
    /\ retransmission \in [Peer -> Seq(Message)]
    /\ cmd \in [Peer -> Message \union {None}]
    /\ link \in [Peer -> {"none", "open", "broken"}]
    /\ wire \in [Peer -> Seq(Message)]
    /\ \A t \in Peer : Len(wire[t]) <= Window
    /\ up \in SUBSET Peer
    /\ got \in [Proc -> SUBSET Message]
    /\ crashes \in 0 .. MaxCrashes

Elems(q) == {q[k] : k \in DOMAIN q}

\* The messages of calls c, and those to t that worker x.from sends before x.
OfCalls(c) == {x \in Message : x.n \in DOMAIN c[x.from] /\ x.to = c[x.from][x.n]}
Earlier(c, x, t) == {y \in OfCalls(c) : y.from = x.from /\ y.n < x.n /\ t \in y.to}

\* Set B, and channel q after what is in B, have no message without the earlier ones.
Closed(c, t, B) == \A x \in B : Earlier(c, x, t) \subseteq B
Follows(c, t, B, q) ==
    \A j \in DOMAIN q : \A y \in Earlier(c, q[j], t) :
        y \in B \/ \E i \in DOMAIN q : i < j /\ q[i] = y

\* The messages that left the channel of t and are not lost, with those in the channel,
\* and those that are to be repeated.
Passed(t) == IF t \in Peer THEN got[t] \union Elems(wire[t]) ELSE got[t]
Entered(t) == Passed(t) \union Elems(channel[t])
Repeated(t) == Elems(retransmission[t]) \union ({cmd[t]} \ {None})

\* The connection of t takes what is in its channel.
Live(t) == t = Self \/ link[t] = "open"

\* Every message is one of a call.
Sent(t) ==
    /\ Entered(t) \subseteq OfCalls(calls)
    /\ t \in Peer => Repeated(t) \subseteq OfCalls(calls)

\* In got, on the wire and in the channel of t, no message is before an earlier one.
Ordered(t) ==
    /\ Closed(calls, t, got[t])
    /\ t \in Peer => Follows(calls, t, got[t], wire[t])
    /\ Live(t) => Follows(calls, t, Passed(t), channel[t])

\* What is to be repeated has entered the channel.
Repeats(t) == t \in Peer /\ Live(t) => Repeated(t) \subseteq Entered(t)

\* What a worker has been told to send has entered the channel, or is still to be pushed.
Pushed(w, t) ==
    Live(t) => \A x \in OfCalls(calls) : x.from = w /\ t \in x.to =>
        \/ x \in Entered(t)
        \/ x.n = Len(calls[w]) /\ <<"channel", t>> \in Elems(todo[w])

\* Pushes q to targets S: to the channel of a target before its retransmission channel.
InTurn(q, S) ==
    /\ \A k \in DOMAIN q : q[k][2] \in S
    /\ \A j, k \in DOMAIN q : j < k /\ q[j][1] = "retransmission" => q[k] # <<"channel", q[j][2]>>

TodoInv(w) == InTurn(todo[w], calls[w][Len(calls[w])])

OrderInv ==
    /\ status # "running" => \A w \in Worker : calls[w] = <<>>
    /\ \A w \in Worker : TodoInv(w)
    /\ \A w \in Worker, t \in Proc : Pushed(w, t)
    /\ \A t \in Proc : Sent(t) /\ Ordered(t) /\ Repeats(t)

IInv == TypeInv /\ OrderInv

-----------------------------------------------------------------------------
(***************************************************************************)
(* Types                                                                   *)
(***************************************************************************)
\* The first of a channel and what is left.
LEMMA TailIs ==
  ASSUME NEW S, NEW q \in Seq(S), q # <<>>
  PROVE  /\ Head(q) \in S /\ Tail(q) \in Seq(S) /\ Len(Tail(q)) = Len(q) - 1 /\ Len(q) \in Nat
         /\ Head(q) = q[1] /\ 1 \in DOMAIN q
         /\ \A j \in DOMAIN Tail(q) : j + 1 \in DOMAIN q /\ j + 1 # 1 /\ Tail(q)[j] = q[j + 1]
         /\ \A j \in DOMAIN q : j # 1 => j - 1 \in DOMAIN Tail(q) /\ q[j] = Tail(q)[j - 1]
OBVIOUS

\* A channel with one more.
LEMMA AppendIs ==
  ASSUME NEW S, NEW q \in Seq(S), NEW x \in S
  PROVE  /\ Append(q, x) \in Seq(S) /\ Len(Append(q, x)) = Len(q) + 1 /\ Len(q) \in Nat
         /\ Append(q, x)[Len(q) + 1] = x /\ Len(q) + 1 \in DOMAIN Append(q, x)
         /\ \A j \in DOMAIN q : j \in DOMAIN Append(q, x) /\ Append(q, x)[j] = q[j] /\ j < Len(q) + 1
         /\ \A j \in DOMAIN Append(q, x) : j \in DOMAIN q \/ j = Len(q) + 1
OBVIOUS

\* A broadcast or a send pushes twice for each of its targets.
LEMMA PushesIs ==
  ASSUME NEW first \in Proc, NEW last \in Proc, first <= last
  PROVE  /\ Pushes(first, last) \in Seq(Item)
         /\ \A t \in first .. last : <<"channel", t>> \in Elems(Pushes(first, last))
         /\ InTurn(Pushes(first, last), first .. last)
<1> DEFINE L == 2 * (last - first + 1)
           P == Pushes(first, last)
<1>1. first \in Nat /\ last \in Nat /\ L \in Nat /\ first .. last \subseteq Proc
  BY LinksAssumption DEF Proc
<1>2. P = [k \in 1 .. L |-> <<IF k % 2 = 1 THEN "channel" ELSE "retransmission", first + (k - 1) \div 2>>]
  BY DEF Pushes
<1>3. DOMAIN P = 1 .. L
  BY <1>2
<1>4. ASSUME NEW k \in 1 .. L PROVE first + (k - 1) \div 2 \in first .. last
  BY <1>1
<1>5. \A k \in 1 .. L : P[k] \in Item
  BY <1>1, <1>2, <1>4 DEF Item
<1>6. P \in Seq(Item)
  BY <1>1, <1>2, <1>5
<1>7. \A k \in 1 .. L : P[k][2] \in first .. last
  BY <1>2, <1>4
<1>8. ASSUME NEW t \in first .. last PROVE <<"channel", t>> \in Elems(P)
  <2> DEFINE k == 2 * (t - first) + 1
  <2>1. k \in 1 .. L /\ k % 2 = 1 /\ first + (k - 1) \div 2 = t
    BY <1>1
  <2>2. P[k] = <<"channel", t>>
    BY <1>2, <2>1
  <2>3. QED
    BY <1>3, <2>1, <2>2 DEF Elems
<1>9. ASSUME NEW j \in 1 .. L, NEW k \in 1 .. L, j < k, P[j][1] = "retransmission", P[k] = <<"channel", P[j][2]>>
      PROVE  FALSE
  <2>1. j % 2 # 1 /\ P[j][2] = first + (j - 1) \div 2
    BY <1>2, <1>9
  <2>2. k % 2 = 1 /\ P[k][2] = first + (k - 1) \div 2
    BY <1>2, <1>9
  <2>3. first + (j - 1) \div 2 = first + (k - 1) \div 2
    BY <1>9, <2>1, <2>2
  <2>4. QED
    BY <1>1, <1>9, <2>1, <2>2, <2>3
<1>10. InTurn(P, first .. last)
  BY <1>3, <1>7, <1>9 DEF InTurn
<1>11. QED
  BY <1>6, <1>8, <1>10

\* The message that a worker pushes.
LEMMA CurrentIs ==
  ASSUME TypeInv, NEW w \in Worker, todo[w] # <<>>
  PROVE  /\ Len(calls[w]) \in DOMAIN calls[w]
         /\ Current(w) = MessageOf(w, Len(calls[w])) /\ Current(w) \in Message
         /\ Head(todo[w]) \in Item
<1>1. calls[w] \in Seq(SUBSET Proc) /\ calls[w] # <<>> /\ Len(calls[w]) <= MaxCalls
  BY DEF TypeInv
<1>2. Len(calls[w]) \in DOMAIN calls[w] /\ Len(calls[w]) \in 1 .. MaxCalls /\ calls[w][Len(calls[w])] \in SUBSET Proc
  BY <1>1, LinksAssumption
<1>3. Head(todo[w]) \in Item
  BY TailIs DEF TypeInv
<1>4. QED
  BY <1>2, <1>3 DEF Current, MessageOf, Message

\* The bound on all calls bounds the calls of each worker.
LEMMA CallBound ==
  ASSUME TypeInv, NEW w \in Worker,
         Cardinality(UNION {{v} \X DOMAIN calls[v] : v \in Worker}) < MaxCalls
  PROVE  Len(calls[w]) < MaxCalls
<1> DEFINE C(v) == {v} \X DOMAIN calls[v]
           S == {C(v) : v \in Worker}
<1>1. ASSUME NEW v \in Worker
      PROVE  IsFiniteSet(C(v)) /\ Cardinality(C(v)) = Len(calls[v]) /\ Len(calls[v]) \in Nat
  <2>1. calls[v] \in Seq(SUBSET Proc)
    BY DEF TypeInv
  <2>2. DOMAIN calls[v] = 1 .. Len(calls[v]) /\ Len(calls[v]) \in Nat
    BY <2>1
  <2>3. IsFiniteSet(DOMAIN calls[v]) /\ Cardinality(DOMAIN calls[v]) = Len(calls[v])
    BY <2>2, FS_Interval
  <2>4. IsFiniteSet({v}) /\ Cardinality({v}) = 1
    BY FS_Singleton
  <2>5. IsFiniteSet(C(v)) /\ Cardinality(C(v)) = Cardinality({v}) * Cardinality(DOMAIN calls[v])
    BY <2>3, <2>4, FS_Product
  <2>6. QED
    BY <2>2, <2>3, <2>4, <2>5
<1>2. IsFiniteSet(S)
  <2> DEFINE f == [v \in Worker |-> C(v)]
  <2>1. f \in Surjection(Worker, S)
    BY DEF Surjection
  <2>2. QED
    BY <2>1, FS_Surjection, LinksAssumption
<1>3. IsFiniteSet(UNION S)
  BY <1>1, <1>2, FS_UNION
<1>4. C(w) \in SUBSET UNION S
  OBVIOUS
<1>5. Cardinality(C(w)) <= Cardinality(UNION S) /\ Cardinality(UNION S) \in Nat
  BY <1>3, <1>4, FS_Subset, FS_CardinalityType
<1>6. QED
  BY <1>1, <1>5, LinksAssumption

\* The initial states have their types.
LEMMA InitTypes == Init => TypeInv
<1> SUFFICES ASSUME Init PROVE TypeInv
  OBVIOUS
<1>1. crashes \in 0 .. MaxCrashes
  <2>1. IsFiniteSet(Proc)
    BY LinksAssumption, FS_Interval DEF Proc
  <2>2. IsFiniteSet(Peer \ up)
    BY <2>1, FS_Subset DEF Peer
  <2>3. QED
    BY <2>2, FS_CardinalityType, LinksAssumption DEF Init
<1>2. next \in 1 .. N + 1
  BY LinksAssumption DEF Init
<1>3. /\ calls \in [Worker -> Seq(SUBSET Proc)] /\ todo \in [Worker -> Seq(Item)]
      /\ \A w \in Worker : Len(calls[w]) <= MaxCalls /\ todo[w] = <<>>
  BY LinksAssumption DEF Init
<1>4. /\ channel \in [Proc -> Seq(Message)] /\ retransmission \in [Peer -> Seq(Message)]
      /\ wire \in [Peer -> Seq(Message)] /\ \A t \in Peer : Len(wire[t]) <= Window
  BY LinksAssumption DEF Init
<1>5. QED
  BY <1>1, <1>2, <1>3, <1>4 DEF Init, TypeInv

\* A step of new keeps the types.
LEMMA StartTypes == ASSUME TypeInv, SkipSelf \/ Connect \/ Started PROVE TypeInv'
<1>1. next' \in 1 .. N + 1 /\ status' \in {"starting", "running", "failed"}
  BY LinksAssumption DEF TypeInv, SkipSelf, Connect, Started, Peer, Proc
<1>2. link' \in [Peer -> {"none", "open", "broken"}]
  BY DEF TypeInv, SkipSelf, Connect, Started, netVars
<1>3. UNCHANGED <<calls, todo, taskVars, wire, up, crashes, got>>
  BY DEF SkipSelf, Connect, Started, netVars
<1>4. QED
  BY <1>1, <1>2, <1>3 DEF TypeInv, taskVars

\* A call keeps the types.
LEMMA CallTypes ==
  ASSUME TypeInv, NEW w \in Worker, NEW first \in Proc, NEW last \in Proc, first <= last,
         Call(w, first, last)
  PROVE  TypeInv'
<1>1. UNCHANGED <<status, next, channel, retransmission, cmd, link, wire, up, crashes, got>>
  BY DEF Call, taskVars, netVars
<1>2. calls' = [calls EXCEPT ![w] = Append(@, first .. last)] /\ calls \in [Worker -> Seq(SUBSET Proc)]
  BY DEF Call, TypeInv
<1>3. first .. last \in SUBSET Proc
  BY LinksAssumption DEF Proc
<1>4. /\ Append(calls[w], first .. last) \in Seq(SUBSET Proc)
      /\ Len(Append(calls[w], first .. last)) = Len(calls[w]) + 1
      /\ Append(calls[w], first .. last) # <<>> /\ Len(calls[w]) \in Nat
  BY <1>2, <1>3
<1>5. Len(calls[w]) < MaxCalls
  BY CallBound DEF Call
<1>6. calls' \in [Worker -> Seq(SUBSET Proc)] /\ \A v \in Worker : Len(calls'[v]) <= MaxCalls
  BY <1>2, <1>4, <1>5, LinksAssumption DEF TypeInv
<1>7. todo' \in [Worker -> Seq(Item)]
  BY PushesIs DEF TypeInv, Call
<1>8. \A v \in Worker : todo'[v] # <<>> => calls'[v] # <<>>
  BY <1>2, <1>4 DEF TypeInv, Call
<1>9. QED
  BY <1>1, <1>6, <1>7, <1>8 DEF TypeInv

\* A push, spelt out for its target t.
LEMMA PushIs ==
  ASSUME NEW w \in Worker, Push(w), NEW t, t = Head(todo[w])[2]
  PROVE  /\ todo[w] # <<>> /\ todo' = [todo EXCEPT ![w] = Tail(@)]
         /\ UNCHANGED <<status, next, calls, cmd, link, wire, up, crashes, got>>
         /\ \/ /\ Head(todo[w])[1] = "channel" \/ t = Self
               /\ channel' = [channel EXCEPT ![t] = Append(@, Current(w))]
               /\ retransmission' = retransmission
            \/ /\ Head(todo[w])[1] = "retransmission" /\ t # Self
               /\ retransmission' = [retransmission EXCEPT ![t] = Append(@, Current(w))]
               /\ channel' = channel
BY Zenon DEF Push, netVars

\* A push keeps the types.
LEMMA PushTypes == ASSUME TypeInv, NEW w \in Worker, Push(w) PROVE TypeInv'
<1>1. todo[w] # <<>>
  BY Zenon DEF Push
<1>2. Current(w) \in Message /\ Head(todo[w]) \in Item
  BY <1>1, CurrentIs
<1>3. PICK t \in Proc : t = Head(todo[w])[2]
  BY <1>2 DEF Item
<1>4. UNCHANGED <<status, next, calls, cmd, link, wire, up, crashes, got>>
  BY <1>3, PushIs, Zenon
<1>5. todo' \in [Worker -> Seq(Item)] /\ \A v \in Worker : todo'[v] # <<>> => calls[v] # <<>>
  <2>1. Tail(todo[w]) \in Seq(Item)
    BY <1>1, TailIs DEF TypeInv
  <2>2. todo' = [todo EXCEPT ![w] = Tail(@)]
    BY <1>3, PushIs, Zenon
  <2>3. QED
    BY <1>1, <2>1, <2>2 DEF TypeInv
<1>6. channel' \in [Proc -> Seq(Message)]
  <2>1. Append(channel[t], Current(w)) \in Seq(Message)
    BY <1>2, AppendIs DEF TypeInv
  <2>2. channel' = channel \/ channel' = [channel EXCEPT ![t] = Append(@, Current(w))]
    BY <1>3, PushIs, Zenon
  <2>3. QED
    BY <2>1, <2>2 DEF TypeInv
<1>7. retransmission' \in [Peer -> Seq(Message)]
  <2>1. t \in Peer => Append(retransmission[t], Current(w)) \in Seq(Message)
    BY <1>2, AppendIs DEF TypeInv
  <2>2. retransmission' = retransmission \/ retransmission' = [retransmission EXCEPT ![t] = Append(@, Current(w))]
    BY <1>3, PushIs, Zenon
  <2>3. QED
    BY <2>1, <2>2 DEF TypeInv
<1>8. QED
  BY <1>4, <1>5, <1>6, <1>7 DEF TypeInv

\* A step of a task of a link keeps the types.
LEMMA LinkTypes == ASSUME TypeInv, NEW t \in Peer, LinkStep(t) PROVE TypeInv'
<1> USE DEF Peer
<1>1. CASE handle_writing(t)
  <2>1. UNCHANGED <<status, next, calls, todo, retransmission, cmd, link, up, crashes, got>>
    BY <1>1 DEF handle_writing
  <2>2. Head(channel[t]) \in Message /\ Tail(channel[t]) \in Seq(Message)
    BY <1>1, TailIs DEF TypeInv, handle_writing
  <2>3. channel' \in [Proc -> Seq(Message)]
    BY <1>1, <2>2 DEF TypeInv, handle_writing
  <2>4. /\ Append(wire[t], Head(channel[t])) \in Seq(Message)
        /\ Len(Append(wire[t], Head(channel[t]))) = Len(wire[t]) + 1 /\ Len(wire[t]) \in Nat
    BY <2>2, AppendIs DEF TypeInv
  <2>5. wire' \in [Peer -> Seq(Message)]
    BY <1>1, <2>4 DEF TypeInv, handle_writing
  <2>6. \A u \in Peer : Len(wire'[u]) <= Window
    BY <1>1, <2>4, LinksAssumption DEF TypeInv, handle_writing
  <2>7. QED
    BY <2>1, <2>3, <2>5, <2>6 DEF TypeInv
<1>2. CASE Tick(t)
  <2>1. UNCHANGED <<status, next, calls, todo, retransmission, cmd, link, wire, up, crashes, got>>
    BY <1>2 DEF Tick, netVars
  <2>2. cmd[t] \in Message
    BY <1>2 DEF Tick, TypeInv
  <2>3. channel' \in [Proc -> Seq(Message)]
    BY <1>2, <2>2, AppendIs DEF TypeInv, Tick
  <2>4. QED
    BY <2>1, <2>3 DEF TypeInv
<1>3. CASE TakeRetransmission(t)
  <2>1. UNCHANGED <<status, next, calls, todo, channel, link, wire, up, crashes, got>>
    BY <1>3 DEF TakeRetransmission, netVars
  <2>2. Head(retransmission[t]) \in Message /\ Tail(retransmission[t]) \in Seq(Message)
    BY <1>3, TailIs DEF TypeInv, TakeRetransmission
  <2>3. cmd' \in [Peer -> Message \union {None}] /\ retransmission' \in [Peer -> Seq(Message)]
    BY <1>3, <2>2 DEF TypeInv, TakeRetransmission
  <2>4. QED
    BY <2>1, <2>3 DEF TypeInv
<1>4. QED
  BY <1>1, <1>2, <1>3 DEF LinkStep

\* A step of a target keeps the types.
LEMMA TargetTypes ==
  ASSUME TypeInv, SelfReceives \/ \E t \in Peer : PeerReceives(t) \/ PeerCrashes(t) \/ PeerRestarts(t)
  PROVE  TypeInv'
<1> USE DEF Peer
<1>1. CASE SelfReceives
  <2>1. UNCHANGED <<status, next, calls, todo, retransmission, cmd, link, wire, up, crashes>>
    BY <1>1 DEF SelfReceives, netVars
  <2>2. Self \in Proc
    BY LinksAssumption DEF Proc
  <2>3. Head(channel[Self]) \in Message /\ Tail(channel[Self]) \in Seq(Message)
    BY <1>1, <2>2, TailIs DEF TypeInv, SelfReceives
  <2>4. channel' \in [Proc -> Seq(Message)] /\ got' \in [Proc -> SUBSET Message]
    BY <1>1, <2>2, <2>3 DEF TypeInv, SelfReceives, Got
  <2>5. QED
    BY <2>1, <2>4 DEF TypeInv
<1>2. ASSUME NEW t \in Peer, PeerReceives(t) PROVE TypeInv'
  <2>1. UNCHANGED <<status, next, calls, todo, channel, retransmission, cmd, link, up, crashes>>
    BY <1>2 DEF PeerReceives, taskVars
  <2>2. /\ Head(wire[t]) \in Message /\ Tail(wire[t]) \in Seq(Message)
        /\ Len(Tail(wire[t])) = Len(wire[t]) - 1 /\ Len(wire[t]) \in Nat
    BY <1>2, TailIs DEF TypeInv, PeerReceives
  <2>3. got' \in [Proc -> SUBSET Message]
    BY <1>2, <2>2 DEF TypeInv, PeerReceives, Got
  <2>4. wire' \in [Peer -> Seq(Message)] /\ \A u \in Peer : Len(wire'[u]) <= Window
    BY <1>2, <2>2, LinksAssumption DEF TypeInv, PeerReceives
  <2>5. QED
    BY <2>1, <2>3, <2>4 DEF TypeInv
<1>3. ASSUME NEW t \in Peer, PeerCrashes(t) PROVE TypeInv'
  <2>1. UNCHANGED <<status, next, calls, todo, channel, retransmission, cmd, got>>
    BY <1>3 DEF PeerCrashes, taskVars
  <2>2. wire' \in [Peer -> Seq(Message)] /\ \A u \in Peer : Len(wire'[u]) <= Window
    BY <1>3, LinksAssumption DEF TypeInv, PeerCrashes
  <2>3. link' \in [Peer -> {"none", "open", "broken"}]
    BY <1>3 DEF TypeInv, PeerCrashes
  <2>4. up' \in SUBSET Peer /\ crashes' \in 0 .. MaxCrashes
    BY <1>3, LinksAssumption DEF TypeInv, PeerCrashes
  <2>5. QED
    BY <2>1, <2>2, <2>3, <2>4 DEF TypeInv
<1>4. ASSUME NEW t \in Peer, PeerRestarts(t) PROVE TypeInv'
  BY <1>4 DEF TypeInv, PeerRestarts, taskVars
<1>5. QED
  BY <1>1, <1>2, <1>3, <1>4

\* Every step keeps the types.
LEMMA StepTypes == TypeInv /\ [Next]_vars => TypeInv'
<1> SUFFICES ASSUME TypeInv, [Next]_vars PROVE TypeInv'
  OBVIOUS
<1>1. CASE SkipSelf \/ Connect \/ Started
  BY <1>1, StartTypes, Zenon
<1>2. ASSUME NEW w \in Worker, NEW t \in Proc, send(w, t) PROVE TypeInv'
  <2>1. t <= t
    BY LinksAssumption DEF Proc
  <2>2. QED
    BY <1>2, <2>1, CallTypes, Zenon DEF send
<1>3. ASSUME NEW w \in Worker, broadcast(w) PROVE TypeInv'
  <2>1. 1 \in Proc /\ N \in Proc /\ 1 <= N
    BY LinksAssumption DEF Proc
  <2>2. QED
    BY <1>3, <2>1, CallTypes, Zenon DEF broadcast
<1>4. ASSUME NEW w \in Worker, Push(w) PROVE TypeInv'
  BY <1>4, PushTypes, Zenon
<1>5. ASSUME NEW t \in Peer, LinkStep(t) PROVE TypeInv'
  BY <1>5, LinkTypes, Zenon
<1>6. CASE SelfReceives \/ \E t \in Peer : PeerReceives(t) \/ PeerCrashes(t) \/ PeerRestarts(t)
  BY <1>6, TargetTypes, Zenon
<1>7. CASE UNCHANGED vars
  BY <1>7 DEF TypeInv, vars, taskVars, netVars
<1>8. QED
  BY <1>1, <1>2, <1>3, <1>4, <1>5, <1>6, <1>7, Zenon DEF Next

-----------------------------------------------------------------------------
(***************************************************************************)
(* Order in a channel                                                      *)
(***************************************************************************)
\* The messages of a channel without the first.
LEMMA ElemsTail ==
  ASSUME NEW S, NEW q \in Seq(S), q # <<>>
  PROVE  Elems(q) = {Head(q)} \union Elems(Tail(q))
<1>1. ASSUME NEW j \in DOMAIN q, j # 1 PROVE q[j] \in Elems(Tail(q))
  <2>1. PICK k \in DOMAIN Tail(q) : q[j] = Tail(q)[k]
    BY <1>1, TailIs
  <2>2. QED
    BY <2>1 DEF Elems
<1>2. ASSUME NEW j \in DOMAIN Tail(q) PROVE Tail(q)[j] \in Elems(q)
  BY TailIs DEF Elems
<1>3. Head(q) \in Elems(q)
  BY TailIs DEF Elems
<1>4. QED
  BY <1>1, <1>2, <1>3, TailIs DEF Elems

\* The messages of a channel with one more.
LEMMA ElemsAppend ==
  ASSUME NEW S, NEW q \in Seq(S), NEW x \in S
  PROVE  Elems(Append(q, x)) = Elems(q) \union {x}
BY AppendIs DEF Elems

\* The first of a channel may follow what is before the channel.
LEMMA FollowsFirst ==
  ASSUME NEW c, NEW t, NEW B, NEW S, NEW q \in Seq(S), q # <<>>, Follows(c, t, B, q)
  PROVE  /\ Earlier(c, Head(q), t) \subseteq B
         /\ Follows(c, t, B \union {Head(q)}, Tail(q))
<1> USE TailIs
<1>1. Earlier(c, Head(q), t) \subseteq B
  <2>1. \A i \in DOMAIN q : ~(i < 1)
    OBVIOUS
  <2>2. QED
    BY <2>1 DEF Follows
<1>2. ASSUME NEW j \in DOMAIN Tail(q), NEW y \in Earlier(c, Tail(q)[j], t), y \notin B, y # Head(q)
      PROVE  \E i \in DOMAIN Tail(q) : i < j /\ Tail(q)[i] = y
  <2>1. j + 1 \in DOMAIN q /\ Tail(q)[j] = q[j + 1]
    OBVIOUS
  <2>2. PICK i \in DOMAIN q : i < j + 1 /\ q[i] = y
    BY <1>2, <2>1 DEF Follows
  <2>3. i # 1
    BY <1>2, <2>2
  <2>4. i - 1 \in DOMAIN Tail(q) /\ Tail(q)[i - 1] = y /\ i - 1 < j
    BY <2>2, <2>3
  <2>5. QED
    BY <2>4
<1>3. QED
  BY <1>1, <1>2 DEF Follows

\* A message may enter a channel after the earlier ones.
LEMMA FollowsAppend ==
  ASSUME NEW c, NEW t, NEW B, NEW S, NEW q \in Seq(S), NEW x \in S, Follows(c, t, B, q),
         Earlier(c, x, t) \subseteq B \union Elems(q)
  PROVE  Follows(c, t, B, Append(q, x))
<1> USE AppendIs
<1>1. ASSUME NEW j \in DOMAIN q, NEW y \in Earlier(c, Append(q, x)[j], t), y \notin B
      PROVE  \E i \in DOMAIN Append(q, x) : i < j /\ Append(q, x)[i] = y
  <2>1. PICK i \in DOMAIN q : i < j /\ q[i] = y
    BY <1>1 DEF Follows
  <2>2. QED
    BY <2>1
<1>2. ASSUME NEW y \in Earlier(c, x, t), y \notin B
      PROVE  \E i \in DOMAIN Append(q, x) : i < Len(q) + 1 /\ Append(q, x)[i] = y
  <2>1. PICK i \in DOMAIN q : q[i] = y
    BY <1>2 DEF Elems
  <2>2. QED
    BY <2>1
<1>3. QED
  BY <1>1, <1>2 DEF Follows

\* What is before a channel together with the channel has the earlier messages.
LEMMA FollowsClosed ==
  ASSUME NEW c, NEW t, NEW B, NEW q, Closed(c, t, B), Follows(c, t, B, q)
  PROVE  Closed(c, t, B \union Elems(q))
BY DEF Closed, Follows, Elems

-----------------------------------------------------------------------------
(***************************************************************************)
(* The targets, step by step. A step that makes no call changes what one   *)
(* target has, and keeps the other targets as they are.                    *)
(***************************************************************************)
\* What the invariant says of target t.
TargetInv(t) ==
    /\ Sent(t) /\ Ordered(t) /\ Repeats(t)
    /\ \A w \in Worker : Pushed(w, t)

Same(t) ==
    /\ got'[t] = got[t] /\ channel'[t] = channel[t]
    /\ t \in Peer => /\ wire'[t] = wire[t] /\ link'[t] = link[t]
                     /\ retransmission'[t] = retransmission[t] /\ cmd'[t] = cmd[t]

\* A target that a step does not touch.
LEMMA Untouched ==
  ASSUME NEW t \in Proc, TargetInv(t), Same(t), calls' = calls, todo' = todo
  PROVE  TargetInv(t)'
<1>1. Passed(t)' = Passed(t) /\ Entered(t)' = Entered(t)
  BY DEF Same, Passed, Entered
<1>2. Live(t)' <=> Live(t)
  BY DEF Same, Live, Peer
<1>3. t \in Peer => Repeated(t)' = Repeated(t)
  BY DEF Same, Repeated
<1>4. Sent(t)' /\ Repeats(t)'
  BY <1>1, <1>2, <1>3 DEF TargetInv, Sent, Repeats
<1>5. Ordered(t)'
  BY <1>1, <1>2 DEF TargetInv, Ordered, Same
<1>6. \A w \in Worker : Pushed(w, t)'
  BY <1>1, <1>2 DEF TargetInv, Pushed
<1>7. QED
  BY <1>4, <1>5, <1>6 DEF TargetInv

\* All that entered a channel has the earlier messages.
LEMMA EnteredClosed ==
  ASSUME NEW t \in Proc, TargetInv(t), Live(t)
  PROVE  Closed(calls, t, Entered(t))
<1>1. Closed(calls, t, Passed(t))
  BY FollowsClosed DEF TargetInv, Ordered, Passed
<1>2. QED
  BY <1>1, FollowsClosed DEF TargetInv, Ordered, Entered

\* A message whose earlier ones have entered the channel may enter it.
LEMMA EnterChannel ==
  ASSUME TypeInv, NEW t \in Proc, TargetInv(t), NEW x \in OfCalls(calls),
         Live(t) => Earlier(calls, x, t) \subseteq Entered(t),
         channel'[t] = Append(channel[t], x), calls' = calls, got' = got, wire' = wire, link' = link,
         retransmission' = retransmission, cmd' = cmd
  PROVE  /\ Sent(t)' /\ Ordered(t)' /\ Repeats(t)'
         /\ Entered(t)' = Entered(t) \union {x}
<1>1. x \in Message /\ channel[t] \in Seq(Message)
  BY DEF OfCalls, TypeInv
<1>2. Passed(t)' = Passed(t) /\ (Live(t)' <=> Live(t)) /\ Repeated(t)' = Repeated(t)
  BY DEF Passed, Live, Repeated
<1>3. Entered(t)' = Entered(t) \union {x}
  BY <1>1, <1>2, ElemsAppend DEF Entered
<1>4. Sent(t)' /\ Repeats(t)'
  BY <1>2, <1>3 DEF TargetInv, Sent, Repeats
<1>5. ASSUME Live(t) PROVE Follows(calls, t, Passed(t), channel'[t])
  BY <1>1, <1>5, FollowsAppend DEF TargetInv, Ordered, Entered
<1>6. QED
  BY <1>2, <1>3, <1>4, <1>5 DEF TargetInv, Ordered

\* handle_writing takes the first message of the channel to the wire, or loses it.
LEMMA WritingKeeps ==
  ASSUME TypeInv, NEW t \in Peer, TargetInv(t), handle_writing(t)
  PROVE  TargetInv(t)'
<1> DEFINE x == Head(channel[t])
           q == Tail(channel[t])
<1>1. /\ calls' = calls /\ todo' = todo /\ got' = got /\ link' = link
      /\ retransmission' = retransmission /\ cmd' = cmd
  BY DEF handle_writing
<1>2. t \in Proc /\ channel[t] \in Seq(Message) /\ channel[t] # <<>> /\ wire[t] \in Seq(Message)
  BY DEF TypeInv, Peer, handle_writing
<1>3. channel'[t] = q /\ wire'[t] = IF link[t] = "open" THEN Append(wire[t], x) ELSE wire[t]
  BY <1>2 DEF TypeInv, handle_writing
<1>4. x \in Message /\ Elems(channel[t]) = {x} \union Elems(q)
  BY <1>2, TailIs, ElemsTail
<1>5. Live(t) <=> link[t] = "open"
  BY DEF Live, Peer
<1>6. Repeated(t)' = Repeated(t) /\ (Live(t)' <=> Live(t))
  BY <1>1 DEF Repeated, Live
<1>7. CASE link[t] = "open"
  <2>1. wire'[t] = Append(wire[t], x) /\ Elems(wire'[t]) = Elems(wire[t]) \union {x}
    BY <1>2, <1>3, <1>4, <1>7, ElemsAppend
  <2>2. Passed(t)' = Passed(t) \union {x}
    BY <1>1, <2>1 DEF Passed
  <2>3. Entered(t)' = Entered(t)
    BY <1>3, <1>4, <2>2 DEF Entered
  <2>4. Earlier(calls, x, t) \subseteq Passed(t) /\ Follows(calls, t, Passed(t) \union {x}, q)
    BY <1>2, <1>5, <1>7, FollowsFirst DEF TargetInv, Ordered
  <2>5. Follows(calls, t, got[t], wire'[t])
    <3>1. Follows(calls, t, got[t], wire[t])
      BY DEF TargetInv, Ordered
    <3>2. Earlier(calls, x, t) \subseteq got[t] \union Elems(wire[t])
      BY <2>4 DEF Passed
    <3>3. QED
      BY <1>2, <1>4, <2>1, <3>1, <3>2, FollowsAppend
  <2>6. Ordered(t)'
    BY <1>1, <1>3, <2>2, <2>4, <2>5 DEF TargetInv, Ordered
  <2>7. QED
    BY <1>1, <1>6, <2>3, <2>6 DEF TargetInv, Sent, Repeats, Pushed
<1>8. CASE link[t] # "open"
  <2>1. ~Live(t)' /\ wire'[t] = wire[t]
    BY <1>3, <1>5, <1>6, <1>8
  <2>2. Entered(t)' \subseteq Entered(t)
    BY <1>1, <1>3, <1>4, <2>1 DEF Entered, Passed
  <2>3. Ordered(t)'
    BY <1>1, <2>1 DEF TargetInv, Ordered
  <2>4. QED
    BY <1>1, <1>6, <2>1, <2>2, <2>3 DEF TargetInv, Sent, Repeats, Pushed
<1>9. QED
  BY <1>7, <1>8

\* A target that reads the first message of its connection.
LEMMA ReceiveKeeps ==
  ASSUME TypeInv, NEW t \in Peer, TargetInv(t), PeerReceives(t)
  PROVE  TargetInv(t)'
<1> DEFINE x == Head(wire[t])
           q == Tail(wire[t])
<1>1. /\ calls' = calls /\ todo' = todo /\ link' = link /\ channel' = channel
      /\ retransmission' = retransmission /\ cmd' = cmd
  BY DEF PeerReceives, taskVars
<1>2. t \in Proc /\ wire[t] \in Seq(Message) /\ wire[t] # <<>>
  BY DEF TypeInv, Peer, PeerReceives
<1>3. wire'[t] = q /\ got'[t] = got[t] \union {x}
  BY <1>2 DEF TypeInv, PeerReceives, Got
<1>4. Elems(wire[t]) = {x} \union Elems(q)
  BY <1>2, ElemsTail
<1>5. Passed(t)' = Passed(t)
  BY <1>3, <1>4 DEF Passed
<1>6. Entered(t)' = Entered(t) /\ Repeated(t)' = Repeated(t) /\ (Live(t)' <=> Live(t))
  BY <1>1, <1>5 DEF Entered, Repeated, Live
<1>7. Earlier(calls, x, t) \subseteq got[t] /\ Follows(calls, t, got[t] \union {x}, q)
  BY <1>2, FollowsFirst DEF TargetInv, Ordered
<1>8. Closed(calls, t, got[t] \union {x})
  BY <1>7 DEF TargetInv, Ordered, Closed
<1>9. Ordered(t)'
  BY <1>1, <1>3, <1>5, <1>6, <1>7, <1>8 DEF TargetInv, Ordered
<1>10. QED
  BY <1>1, <1>6, <1>9 DEF TargetInv, Sent, Repeats, Pushed

\* handle_self_messages reads the first message of the channel of the process itself.
LEMMA SelfKeeps ==
  ASSUME TypeInv, Self \in Proc, TargetInv(Self), SelfReceives
  PROVE  TargetInv(Self)'
<1> DEFINE x == Head(channel[Self])
           q == Tail(channel[Self])
<1>1. calls' = calls /\ todo' = todo /\ Self \notin Peer /\ Live(Self) /\ Live(Self)'
  BY DEF SelfReceives, Peer, Live
<1>2. channel[Self] \in Seq(Message) /\ channel[Self] # <<>>
  BY DEF TypeInv, SelfReceives
<1>3. channel'[Self] = q /\ got'[Self] = got[Self] \union {x}
  BY DEF TypeInv, SelfReceives, Got
<1>4. Elems(channel[Self]) = {x} \union Elems(q)
  BY <1>2, ElemsTail
<1>5. Passed(Self) = got[Self] /\ Passed(Self)' = got[Self] \union {x}
  BY <1>1, <1>3 DEF Passed
<1>6. Entered(Self)' = Entered(Self)
  BY <1>3, <1>4, <1>5 DEF Entered
<1>7. Earlier(calls, x, Self) \subseteq got[Self] /\ Follows(calls, Self, got[Self] \union {x}, q)
  BY <1>1, <1>2, <1>5, FollowsFirst DEF TargetInv, Ordered
<1>8. Closed(calls, Self, got[Self] \union {x})
  BY <1>7 DEF TargetInv, Ordered, Closed
<1>9. Ordered(Self)'
  BY <1>1, <1>3, <1>5, <1>7, <1>8 DEF Ordered
<1>10. QED
  BY <1>1, <1>6, <1>9 DEF TargetInv, Sent, Repeats, Pushed

\* A tick puts what has entered the channel into it again.
LEMMA TickKeeps ==
  ASSUME TypeInv, NEW t \in Peer, TargetInv(t), Tick(t)
  PROVE  TargetInv(t)'
<1>1. /\ calls' = calls /\ todo' = todo /\ got' = got /\ wire' = wire /\ link' = link
      /\ retransmission' = retransmission /\ cmd' = cmd
  BY DEF Tick, netVars
<1>2. t \in Proc /\ channel'[t] = Append(channel[t], cmd[t]) /\ cmd[t] \in Repeated(t)
  BY DEF TypeInv, Peer, Tick, Repeated
<1>3. cmd[t] \in OfCalls(calls)
  BY <1>2 DEF TargetInv, Sent
<1>4. ASSUME Live(t) PROVE Earlier(calls, cmd[t], t) \subseteq Entered(t)
  <2>1. cmd[t] \in Entered(t)
    BY <1>2, <1>4 DEF TargetInv, Repeats
  <2>2. QED
    BY <1>2, <1>4, <2>1, EnteredClosed DEF Closed
<1>5. Sent(t)' /\ Ordered(t)' /\ Repeats(t)' /\ Entered(t)' = Entered(t) \union {cmd[t]}
  BY <1>1, <1>2, <1>3, <1>4, EnterChannel
<1>6. \A w \in Worker : Pushed(w, t)'
  BY <1>1, <1>5 DEF TargetInv, Pushed, Live
<1>7. QED
  BY <1>5, <1>6 DEF TargetInv

\* The task of the retransmissions takes the next message to repeat.
LEMMA TakeKeeps ==
  ASSUME TypeInv, NEW t \in Peer, TargetInv(t), TakeRetransmission(t)
  PROVE  TargetInv(t)'
<1>1. calls' = calls /\ todo' = todo /\ got' = got /\ wire' = wire /\ link' = link /\ channel' = channel
  BY DEF TakeRetransmission, netVars
<1>2. retransmission[t] \in Seq(Message) /\ retransmission[t] # <<>>
  BY DEF TypeInv, TakeRetransmission
<1>3. retransmission'[t] = Tail(retransmission[t]) /\ cmd'[t] = Head(retransmission[t])
  BY DEF TypeInv, TakeRetransmission
<1>4. Elems(retransmission[t]) = {Head(retransmission[t])} \union Elems(Tail(retransmission[t]))
  BY <1>2, ElemsTail
<1>5. Repeated(t)' \subseteq Repeated(t)
  BY <1>3, <1>4 DEF Repeated
<1>6. Passed(t)' = Passed(t) /\ Entered(t)' = Entered(t) /\ (Live(t)' <=> Live(t))
  BY <1>1 DEF Passed, Entered, Live
<1>7. QED
  BY <1>1, <1>5, <1>6 DEF TargetInv, Sent, Ordered, Repeats, Pushed

\* A crash of a peer breaks its connection, which carries nothing from then on.
LEMMA CrashKeeps ==
  ASSUME TypeInv, NEW t \in Peer, TargetInv(t), PeerCrashes(t)
  PROVE  TargetInv(t)'
<1>1. /\ calls' = calls /\ todo' = todo /\ got' = got /\ channel' = channel
      /\ retransmission' = retransmission /\ cmd' = cmd
  BY DEF PeerCrashes, taskVars
<1>2. wire'[t] = <<>> /\ link'[t] # "open"
  BY DEF TypeInv, PeerCrashes
<1>3. ~Live(t)'
  BY <1>2 DEF Live, Peer
<1>4. Elems(wire'[t]) = {}
  BY <1>2 DEF Elems
<1>5. Entered(t)' \subseteq Entered(t) /\ Repeated(t)' = Repeated(t)
  BY <1>1, <1>4 DEF Passed, Entered, Repeated
<1>6. Follows(calls, t, got[t], wire'[t])
  BY <1>2 DEF Follows
<1>7. Ordered(t)'
  BY <1>1, <1>3, <1>6 DEF TargetInv, Ordered
<1>8. QED
  BY <1>1, <1>3, <1>5, <1>7 DEF TargetInv, Sent, Repeats, Pushed

-----------------------------------------------------------------------------
(***************************************************************************)
(* A push                                                                  *)
(***************************************************************************)
\* What is left of a call still pushes to a channel before its retransmission channel.
LEMMA TailInTurn ==
  ASSUME NEW q \in Seq(Item), q # <<>>, NEW S, InTurn(q, S)
  PROVE  InTurn(Tail(q), S)
<1>1. \A k \in DOMAIN Tail(q) : k + 1 \in DOMAIN q /\ Tail(q)[k] = q[k + 1]
  BY TailIs
<1>2. \A j, k \in DOMAIN Tail(q) : j < k => j + 1 < k + 1
  OBVIOUS
<1>3. ASSUME NEW k \in DOMAIN Tail(q) PROVE Tail(q)[k][2] \in S
  BY <1>1 DEF InTurn
<1>4. ASSUME NEW j \in DOMAIN Tail(q), NEW k \in DOMAIN Tail(q), j < k, Tail(q)[j][1] = "retransmission"
      PROVE  Tail(q)[k] # <<"channel", Tail(q)[j][2]>>
  <2>1. j + 1 \in DOMAIN q /\ k + 1 \in DOMAIN q /\ j + 1 < k + 1
    BY <1>1, <1>2, <1>4
  <2>2. q[j + 1] = Tail(q)[j] /\ q[k + 1] = Tail(q)[k]
    BY <1>1
  <2>3. q[k + 1] # <<"channel", q[j + 1][2]>>
    BY <1>4, <2>1, <2>2, Zenon DEF InTurn
  <2>4. QED
    BY <2>2, <2>3
<1>5. QED
  BY <1>3, <1>4 DEF InTurn

\* A push keeps the order of the pushes of every worker.
LEMMA PushTodo ==
  ASSUME TypeInv, NEW w \in Worker, Push(w), \A v \in Worker : TodoInv(v)
  PROVE  \A v \in Worker : TodoInv(v)'
<1>1. todo[w] # <<>> /\ todo' = [todo EXCEPT ![w] = Tail(@)] /\ calls' = calls
  BY PushIs, Zenon
<1>2. todo[w] \in Seq(Item) /\ todo'[w] = Tail(todo[w]) /\ \A v \in Worker \ {w} : todo'[v] = todo[v]
  BY <1>1 DEF TypeInv
<1>3. InTurn(Tail(todo[w]), calls[w][Len(calls[w])])
  BY <1>1, <1>2, TailInTurn DEF TodoInv
<1>4. QED
  BY <1>1, <1>2, <1>3 DEF TodoInv

\* What a push leaves to do for target u.
LEMMA PushLeaves ==
  ASSUME TypeInv, NEW w \in Worker, Push(w), NEW v \in Worker, NEW u,
         <<"channel", u>> \in Elems(todo[v])
  PROVE  <<"channel", u>> \in Elems(todo'[v]) \/ (v = w /\ Head(todo[w]) = <<"channel", u>>)
<1>1. todo[w] # <<>> /\ todo' = [todo EXCEPT ![w] = Tail(@)]
  BY PushIs, Zenon
<1>2. todo[w] \in Seq(Item) /\ todo'[w] = Tail(todo[w]) /\ (v # w => todo'[v] = todo[v])
  BY <1>1 DEF TypeInv
<1>3. Elems(todo[w]) = {Head(todo[w])} \union Elems(Tail(todo[w]))
  BY <1>1, <1>2, ElemsTail
<1>4. QED
  BY <1>2, <1>3

\* The message of a push is one of a call, to its target; the earlier ones have entered.
LEMMA PushMessage ==
  ASSUME TypeInv, NEW w \in Worker, todo[w] # <<>>, TodoInv(w),
         NEW t \in Proc, t = Head(todo[w])[2], Pushed(w, t)
  PROVE  /\ Current(w) \in OfCalls(calls) /\ Current(w).from = w /\ Current(w).n = Len(calls[w])
         /\ t \in Current(w).to
         /\ Live(t) => Earlier(calls, Current(w), t) \subseteq Entered(t)
<1>1. Current(w) \in Message /\ Len(calls[w]) \in DOMAIN calls[w]
  BY CurrentIs
<1>2. Current(w).from = w /\ Current(w).n = Len(calls[w]) /\ Current(w).to = calls[w][Len(calls[w])]
  BY DEF Current
<1>3. Current(w) \in OfCalls(calls)
  BY <1>1, <1>2 DEF OfCalls
<1>4. t \in calls[w][Len(calls[w])]
  <2>1. 1 \in DOMAIN todo[w] /\ Head(todo[w]) = todo[w][1]
    BY TailIs DEF TypeInv
  <2>2. QED
    BY <2>1 DEF TodoInv, InTurn
<1>5. ASSUME Live(t), NEW y \in Earlier(calls, Current(w), t) PROVE y \in Entered(t)
  <2>1. y \in OfCalls(calls) /\ y.from = w /\ y.n < Len(calls[w]) /\ t \in y.to
    BY <1>2, <1>5 DEF Earlier
  <2>2. y.n # Len(calls[w])
    BY <2>1, LinksAssumption DEF OfCalls, Message, TypeInv
  <2>3. QED
    BY <1>5, <2>1, <2>2 DEF Pushed
<1>6. QED
  BY <1>2, <1>3, <1>4, <1>5

\* A push keeps every target.
LEMMA PushKeeps ==
  ASSUME TypeInv, NEW w \in Worker, Push(w), \A v \in Worker : TodoInv(v),
         \A u \in Proc : TargetInv(u)
  PROVE  \A u \in Proc : TargetInv(u)'
<1> DEFINE x == Current(w)
<1>1. todo[w] # <<>> /\ UNCHANGED <<calls, cmd, link, wire, got>>
  BY PushIs, Zenon
<1>2. Head(todo[w]) \in Item
  BY <1>1, CurrentIs
<1>3. PICK t \in Proc : t = Head(todo[w])[2]
  BY <1>2 DEF Item
<1>4. /\ x \in OfCalls(calls) /\ x.from = w /\ x.n = Len(calls[w]) /\ t \in x.to
      /\ Live(t) => Earlier(calls, x, t) \subseteq Entered(t)
  BY <1>1, <1>3, PushMessage DEF TargetInv
<1>5. x \in Message
  BY <1>1, CurrentIs
<1>6. \A u \in Proc : (Live(u)' <=> Live(u)) /\ Passed(u)' = Passed(u)
  BY <1>1 DEF Live, Passed
<1>7. ASSUME NEW u \in Proc, Entered(u) \subseteq Entered(u)', Head(todo[w]) = <<"channel", u>> => x \in Entered(u)'
      PROVE  \A v \in Worker : Pushed(v, u)'
  <2> SUFFICES ASSUME NEW v \in Worker, Live(u), NEW y \in OfCalls(calls), y.from = v, u \in y.to
               PROVE  \/ y \in Entered(u)'
                      \/ y.n = Len(calls[v]) /\ <<"channel", u>> \in Elems(todo'[v])
    BY <1>1, <1>6 DEF Pushed
  <2>1. CASE y \in Entered(u)
    BY <1>7, <2>1
  <2>2. CASE y.n = Len(calls[v]) /\ <<"channel", u>> \in Elems(todo[v])
    <3>1. CASE v = w /\ Head(todo[w]) = <<"channel", u>>
      <4>1. x \in Entered(u)'
        BY <1>7, <3>1
      <4>2. y.from = x.from /\ y.n = x.n /\ y.to = x.to /\ y \in Message
        BY <1>4, <2>2, <3>1 DEF OfCalls
      <4>3. y = x
        BY <1>5, <4>2 DEF Message
      <4>4. QED
        BY <4>1, <4>3
    <3>2. QED
      BY <2>2, <3>1, PushLeaves
  <2>3. QED
    BY <2>1, <2>2 DEF TargetInv, Pushed
<1>8. ASSUME NEW u \in Proc, u # t PROVE TargetInv(u)'
  <2>1. channel'[u] = channel[u] /\ (u \in Peer => retransmission'[u] = retransmission[u])
    <3>1. channel' = channel \/ channel' = [channel EXCEPT ![t] = Append(@, x)]
      BY <1>3, PushIs, Zenon
    <3>2. retransmission' = retransmission \/ retransmission' = [retransmission EXCEPT ![t] = Append(@, x)]
      BY <1>3, PushIs, Zenon
    <3>3. QED
      BY <1>8, <3>1, <3>2 DEF TypeInv
  <2>2. Entered(u)' = Entered(u) /\ (u \in Peer => Repeated(u)' = Repeated(u))
    BY <1>1, <1>6, <2>1 DEF Entered, Repeated
  <2>3. \A v \in Worker : Pushed(v, u)'
    BY <1>3, <1>7, <1>8, <2>2
  <2>4. Sent(u)' /\ Ordered(u)' /\ Repeats(u)'
    BY <1>1, <1>6, <2>1, <2>2 DEF TargetInv, Sent, Ordered, Repeats
  <2>5. QED
    BY <2>3, <2>4 DEF TargetInv
<1>9. CASE channel' = [channel EXCEPT ![t] = Append(@, x)] /\ retransmission' = retransmission
  <2>1. channel'[t] = Append(channel[t], x)
    BY <1>9 DEF TypeInv
  <2>2. Sent(t)' /\ Ordered(t)' /\ Repeats(t)' /\ Entered(t)' = Entered(t) \union {x}
    BY <1>1, <1>4, <1>9, <2>1, EnterChannel
  <2>3. \A v \in Worker : Pushed(v, t)'
    BY <1>7, <2>2
  <2>4. QED
    BY <1>8, <2>2, <2>3 DEF TargetInv
<1>10. CASE /\ Head(todo[w])[1] = "retransmission" /\ t # Self
            /\ retransmission' = [retransmission EXCEPT ![t] = Append(@, x)] /\ channel' = channel
  <2>1. Entered(t)' = Entered(t) /\ t \in Peer
    BY <1>6, <1>10 DEF Entered, Peer
  <2>2. \A v \in Worker : Pushed(v, t)'
    BY <1>7, <1>10, <2>1
  <2>3. Repeated(t)' = Repeated(t) \union {x} \/ Repeated(t)' = Repeated(t)
    <3>1. retransmission'[t] = Append(retransmission[t], x) /\ retransmission[t] \in Seq(Message)
      BY <1>10, <2>1 DEF TypeInv
    <3>2. QED
      BY <1>1, <1>5, <3>1, ElemsAppend DEF Repeated
  <2>4. ASSUME Live(t) PROVE x \in Entered(t)
    <3>1. TodoInv(w) /\ todo[w] \in Seq(Item)
      BY DEF TypeInv
    <3>2. ASSUME NEW k \in DOMAIN todo[w], todo[w][k] = <<"channel", t>> PROVE FALSE
      <4>1. 1 \in DOMAIN todo[w] /\ Head(todo[w]) = todo[w][1]
        BY <1>1, <3>1, TailIs
      <4>2. todo[w][1][1] = "retransmission" /\ todo[w][1][2] = t
        BY <1>3, <1>10, <4>1
      <4>3. k # 1
        BY <3>2, <4>2
      <4>4. 1 < k
        BY <3>1, <4>3
      <4>5. QED
        BY <3>1, <3>2, <4>1, <4>2, <4>4 DEF TodoInv, InTurn
    <3>3. <<"channel", t>> \notin Elems(todo[w])
      BY <3>2 DEF Elems
    <3>4. QED
      BY <1>4, <2>4, <3>3 DEF TargetInv, Pushed
  <2>5. Sent(t)' /\ Repeats(t)'
    BY <1>1, <1>4, <1>6, <2>1, <2>3, <2>4 DEF TargetInv, Sent, Repeats
  <2>6. Ordered(t)'
    BY <1>1, <1>6, <1>10 DEF TargetInv, Ordered
  <2>7. QED
    BY <1>8, <2>2, <2>5, <2>6 DEF TargetInv
<1>11. QED
  BY <1>3, <1>9, <1>10, PushIs, Zenon

-----------------------------------------------------------------------------
(***************************************************************************)
(* A call                                                                  *)
(***************************************************************************)
\* A call adds one message, and no message is earlier than one of a call than before.
LEMMA CallAdds ==
  ASSUME TypeInv, NEW w \in Worker, NEW first \in Proc, NEW last \in Proc, Call(w, first, last)
  PROVE  /\ OfCalls(calls) \subseteq OfCalls(calls')
         /\ \A x \in OfCalls(calls') \ OfCalls(calls) :
               x.from = w /\ x.n = Len(calls[w]) + 1 /\ x.to = first .. last
         /\ \A x \in OfCalls(calls), t \in Proc : Earlier(calls', x, t) = Earlier(calls, x, t)
<1> DEFINE q == calls[w]
<1>1. q \in Seq(SUBSET Proc) /\ calls'[w] = Append(q, first .. last)
  BY DEF TypeInv, Call
<1>2. \A v \in Worker \ {w} : calls'[v] = calls[v]
  BY DEF TypeInv, Call
<1>3. first .. last \in SUBSET Proc
  BY LinksAssumption DEF Proc
<1>4. /\ \A j \in DOMAIN q : j \in DOMAIN calls'[w] /\ calls'[w][j] = q[j] /\ j < Len(q) + 1
      /\ \A j \in DOMAIN calls'[w] : j \in DOMAIN q \/ j = Len(q) + 1
      /\ calls'[w][Len(q) + 1] = first .. last /\ Len(q) \in Nat
  BY <1>1, <1>3, AppendIs
<1>5. ASSUME NEW x \in OfCalls(calls) PROVE x \in OfCalls(calls')
  BY <1>2, <1>4 DEF OfCalls, Message
<1>6. ASSUME NEW x \in OfCalls(calls'), x \notin OfCalls(calls)
      PROVE  x.from = w /\ x.n = Len(q) + 1 /\ x.to = first .. last
  BY <1>2, <1>4, <1>6 DEF OfCalls, Message
<1>7. ASSUME NEW x \in OfCalls(calls), NEW y \in OfCalls(calls'), y.from = x.from, y.n < x.n
      PROVE  y \in OfCalls(calls)
  <2>1. SUFFICES ASSUME y \notin OfCalls(calls) PROVE FALSE
    OBVIOUS
  <2>2. y.n = Len(q) + 1 /\ x.from = w
    BY <1>6, <1>7, <2>1
  <2>3. x.n \in DOMAIN q /\ x.n \in Nat
    BY <1>1, <2>2 DEF OfCalls
  <2>4. QED
    BY <1>4, <1>7, <2>2, <2>3
<1>8. \A x \in OfCalls(calls), t \in Proc : Earlier(calls', x, t) = Earlier(calls, x, t)
  BY <1>5, <1>7 DEF Earlier
<1>9. QED
  BY <1>5, <1>6, <1>8

\* A call keeps every target and has all its pushes to do.
LEMMA CallKeeps ==
  ASSUME TypeInv, NEW w \in Worker, NEW first \in Proc, NEW last \in Proc, first <= last,
         Call(w, first, last), \A v \in Worker : TodoInv(v), \A t \in Proc : TargetInv(t)
  PROVE  /\ \A v \in Worker : TodoInv(v)'
         /\ \A t \in Proc : TargetInv(t)'
<1>1. UNCHANGED <<channel, retransmission, cmd, link, wire, got>> /\ todo[w] = <<>>
  BY DEF Call, taskVars, netVars
<1>2. /\ todo'[w] = Pushes(first, last) /\ calls'[w] = Append(calls[w], first .. last)
      /\ \A v \in Worker \ {w} : todo'[v] = todo[v] /\ calls'[v] = calls[v]
  BY DEF TypeInv, Call
<1>3. calls'[w][Len(calls'[w])] = first .. last /\ Len(calls'[w]) = Len(calls[w]) + 1
  <2>1. first .. last \in SUBSET Proc /\ calls[w] \in Seq(SUBSET Proc)
    BY LinksAssumption DEF Proc, TypeInv
  <2>2. QED
    BY <1>2, <2>1, AppendIs
<1>4. ASSUME NEW v \in Worker PROVE TodoInv(v)'
  <2>1. CASE v = w
    BY <1>2, <1>3, <2>1, PushesIs DEF TodoInv
  <2>2. CASE v # w
    BY <1>2, <2>2 DEF TodoInv
  <2>3. QED
    BY <2>1, <2>2
<1>5. ASSUME NEW t \in Proc PROVE TargetInv(t)'
  <2>1. /\ Passed(t)' = Passed(t) /\ Entered(t)' = Entered(t) /\ (Live(t)' <=> Live(t))
        /\ Repeated(t)' = Repeated(t)
    BY <1>1 DEF Passed, Entered, Live, Repeated
  <2>2. Sent(t)' /\ Repeats(t)'
    BY <2>1, CallAdds DEF TargetInv, Sent, Repeats
  <2>3. /\ got[t] \subseteq OfCalls(calls) /\ \A j \in DOMAIN channel[t] : channel[t][j] \in OfCalls(calls)
        /\ t \in Peer => \A j \in DOMAIN wire[t] : wire[t][j] \in OfCalls(calls)
    BY DEF TargetInv, Sent, Entered, Passed, Elems
  <2>4. \A x \in OfCalls(calls) : Earlier(calls', x, t) = Earlier(calls, x, t)
    BY CallAdds
  <2>5. Closed(calls', t, got[t])
    BY <2>3, <2>4 DEF TargetInv, Ordered, Closed
  <2>6. t \in Peer => Follows(calls', t, got[t], wire[t])
    BY <2>3, <2>4 DEF TargetInv, Ordered, Follows
  <2>7. Live(t) => Follows(calls', t, Passed(t), channel[t])
    BY <2>3, <2>4 DEF TargetInv, Ordered, Follows
  <2>8. Ordered(t)'
    BY <1>1, <2>1, <2>5, <2>6, <2>7 DEF Ordered
  <2>9. ASSUME NEW v \in Worker PROVE Pushed(v, t)'
    <3> SUFFICES ASSUME Live(t), NEW x \in OfCalls(calls'), x.from = v, t \in x.to
                 PROVE  \/ x \in Entered(t)
                        \/ x.n = Len(calls'[v]) /\ <<"channel", t>> \in Elems(todo'[v])
      BY <2>1 DEF Pushed
    <3>1. CASE x \notin OfCalls(calls)
      <4>1. v = w /\ x.n = Len(calls[w]) + 1 /\ x.to = first .. last
        BY <3>1, CallAdds
      <4>2. <<"channel", t>> \in Elems(Pushes(first, last))
        BY <4>1, PushesIs
      <4>3. QED
        BY <1>2, <1>3, <4>1, <4>2
    <3>2. CASE x \in OfCalls(calls)
      <4>1. x \in Entered(t) \/ (x.n = Len(calls[v]) /\ <<"channel", t>> \in Elems(todo[v]))
        BY <3>2 DEF TargetInv, Pushed
      <4>2. Elems(todo[w]) = {}
        BY <1>1 DEF Elems
      <4>3. QED
        BY <1>2, <4>1, <4>2
    <3>3. QED
      BY <3>1, <3>2
  <2>10. QED
    BY <2>2, <2>8, <2>9 DEF TargetInv
<1>6. QED
  BY <1>4, <1>5

-----------------------------------------------------------------------------
(***************************************************************************)
(* new, and the theorems                                                   *)
(***************************************************************************)
\* Nothing is anywhere before the first call.
LEMMA NothingSent ==
  ASSUME TypeInv, \A w \in Worker : calls[w] = <<>>, NEW t \in Proc, Sent(t)
  PROVE  /\ OfCalls(calls) = {} /\ got[t] = {} /\ Entered(t) = {} /\ DOMAIN channel[t] = {}
         /\ t \in Peer => DOMAIN wire[t] = {} /\ Repeated(t) = {}
<1>1. ASSUME NEW x \in OfCalls(calls) PROVE FALSE
  BY DEF OfCalls, Message
<1>2. Entered(t) = {} /\ (t \in Peer => Repeated(t) = {})
  BY <1>1 DEF Sent
<1>3. got[t] = {} /\ Elems(channel[t]) = {} /\ (t \in Peer => Elems(wire[t]) = {})
  BY <1>2 DEF Entered, Passed
<1>4. QED
  BY <1>1, <1>2, <1>3 DEF Elems

\* A connection is opened before the first call.
LEMMA ConnectKeeps ==
  ASSUME IInv, Connect
  PROVE  \A t \in Proc : TargetInv(t)'
<1>1. calls' = calls /\ todo' = todo /\ got' = got /\ wire' = wire /\ channel' = channel
  BY DEF Connect, taskVars
<1>2. retransmission' = retransmission /\ cmd' = cmd
  BY DEF Connect, taskVars
<1>3. \A w \in Worker : calls[w] = <<>>
  BY DEF IInv, OrderInv, Connect
<1>4. ASSUME NEW t \in Proc PROVE TargetInv(t)'
  <2>1. TypeInv /\ Sent(t)
    BY DEF IInv, OrderInv
  <2>2. /\ OfCalls(calls) = {} /\ got[t] = {} /\ Entered(t) = {} /\ DOMAIN channel[t] = {}
        /\ t \in Peer => DOMAIN wire[t] = {} /\ Repeated(t) = {}
    BY <1>3, <2>1, NothingSent
  <2>3. Entered(t)' = Entered(t) /\ Repeated(t)' = Repeated(t) /\ Passed(t)' = Passed(t)
    BY <1>1, <1>2 DEF Entered, Passed, Repeated
  <2>4. Sent(t)' /\ Repeats(t)'
    BY <1>1, <2>2, <2>3 DEF Sent, Repeats
  <2>5. Ordered(t)'
    BY <1>1, <2>2, <2>3 DEF Ordered, Closed, Follows
  <2>6. \A w \in Worker : Pushed(w, t)'
    BY <1>1, <2>2 DEF Pushed
  <2>7. QED
    BY <2>4, <2>5, <2>6 DEF TargetInv
<1>5. QED
  BY <1>4

\* The initial states satisfy the invariant.
LEMMA InitOrder == Init => IInv
<1> SUFFICES ASSUME Init PROVE IInv
  OBVIOUS
<1>1. TypeInv
  BY InitTypes
<1>2. /\ \A w \in Worker : calls[w] = <<>> /\ todo[w] = <<>>
      /\ \A t \in Proc : got[t] = {} /\ channel[t] = <<>>
      /\ \A t \in Peer : wire[t] = <<>> /\ retransmission[t] = <<>> /\ cmd[t] = None
  BY DEF Init, Peer
<1>3. Elems(<<>>) = {}
  BY DEF Elems
<1>4. ASSUME NEW t \in Proc PROVE Entered(t) = {} /\ (t \in Peer => Repeated(t) = {})
  BY <1>2, <1>3 DEF Entered, Passed, Repeated
<1>5. ASSUME NEW x \in OfCalls(calls) PROVE FALSE
  BY <1>2 DEF OfCalls, Message
<1>6. \A w \in Worker : TodoInv(w)
  BY <1>2 DEF TodoInv, InTurn
<1>7. \A w \in Worker, t \in Proc : Pushed(w, t)
  BY <1>5 DEF Pushed
<1>8. \A t \in Proc : Sent(t) /\ Repeats(t)
  BY <1>4 DEF Sent, Repeats
<1>9. \A t \in Proc : Ordered(t)
  BY <1>2 DEF Ordered, Closed, Follows
<1>10. QED
  BY <1>1, <1>2, <1>6, <1>7, <1>8, <1>9 DEF IInv, OrderInv

\* Every step keeps what the invariant says of the workers and of the targets.
LEMMA StepOrder ==
  ASSUME IInv, [Next]_vars
  PROVE  (\A w \in Worker : TodoInv(w)') /\ \A t \in Proc : TargetInv(t)'
<1> DEFINE Kept == (\A w \in Worker : TodoInv(w)') /\ \A t \in Proc : TargetInv(t)'
<1>1. TypeInv /\ (\A w \in Worker : TodoInv(w)) /\ \A t \in Proc : TargetInv(t)
  BY DEF IInv, OrderInv, TargetInv
<1>2. Self \in Proc /\ Peer \subseteq Proc /\ Self \notin Peer /\ 1 \in Proc /\ N \in Proc /\ 1 <= N
  BY LinksAssumption DEF Proc, Peer
<1>3. ASSUME calls' = calls, todo' = todo PROVE \A w \in Worker : TodoInv(w)'
  BY <1>1, <1>3 DEF TodoInv
<1>4. ASSUME calls' = calls, todo' = todo, NEW t \in Proc, \A u \in Proc \ {t} : Same(u), Same(t) \/ TargetInv(t)'
      PROVE  Kept
  <2>1. ASSUME NEW u \in Proc PROVE Same(u) \/ TargetInv(u)'
    BY <1>4
  <2>2. QED
    BY <1>1, <1>3, <1>4, <2>1, Untouched
<1>5. CASE SkipSelf \/ Started \/ UNCHANGED vars
  <2>1. calls' = calls /\ todo' = todo /\ \A t \in Proc : Same(t)
    BY <1>5 DEF SkipSelf, Started, vars, taskVars, netVars, Same
  <2>2. QED
    BY <1>1, <1>3, <2>1, Untouched
<1>6. CASE Connect
  BY <1>3, <1>6, ConnectKeeps DEF Connect
<1>7. ASSUME NEW w \in Worker, NEW t \in Proc, send(w, t) PROVE Kept
  <2>1. t <= t
    BY LinksAssumption DEF Proc
  <2>2. QED
    BY <1>1, <1>7, <2>1, CallKeeps, Zenon DEF send
<1>8. ASSUME NEW w \in Worker, broadcast(w) PROVE Kept
  BY <1>1, <1>2, <1>8, CallKeeps, Zenon DEF broadcast
<1>9. ASSUME NEW w \in Worker, Push(w) PROVE Kept
  BY <1>1, <1>9, PushTodo, PushKeeps, Zenon
<1>10. ASSUME NEW t \in Peer, handle_writing(t) PROVE Kept
  <2>1. calls' = calls /\ todo' = todo /\ \A u \in Proc \ {t} : Same(u)
    BY <1>10 DEF handle_writing, Same, TypeInv
  <2>2. TargetInv(t)'
    BY <1>1, <1>2, <1>10, WritingKeeps
  <2>3. QED
    BY <1>2, <1>4, <2>1, <2>2
<1>11. ASSUME NEW t \in Peer, Tick(t) PROVE Kept
  <2>1. calls' = calls /\ todo' = todo /\ \A u \in Proc \ {t} : Same(u)
    BY <1>1, <1>11 DEF Tick, netVars, Same, TypeInv
  <2>2. TargetInv(t)'
    BY <1>1, <1>2, <1>11, TickKeeps
  <2>3. QED
    BY <1>2, <1>4, <2>1, <2>2
<1>12. ASSUME NEW t \in Peer, TakeRetransmission(t) PROVE Kept
  <2>1. calls' = calls /\ todo' = todo /\ \A u \in Proc \ {t} : Same(u)
    BY <1>1, <1>12 DEF TakeRetransmission, netVars, Same, TypeInv
  <2>2. TargetInv(t)'
    BY <1>1, <1>2, <1>12, TakeKeeps
  <2>3. QED
    BY <1>2, <1>4, <2>1, <2>2
<1>13. CASE SelfReceives
  <2>1. calls' = calls /\ todo' = todo /\ \A u \in Proc \ {Self} : Same(u)
    BY <1>1, <1>13 DEF SelfReceives, Got, netVars, Same, TypeInv
  <2>2. TargetInv(Self)'
    BY <1>1, <1>2, <1>13, SelfKeeps
  <2>3. QED
    BY <1>2, <1>4, <2>1, <2>2
<1>14. ASSUME NEW t \in Peer, PeerReceives(t) PROVE Kept
  <2>1. calls' = calls /\ todo' = todo /\ \A u \in Proc \ {t} : Same(u)
    BY <1>1, <1>14 DEF PeerReceives, Got, taskVars, Same, TypeInv
  <2>2. TargetInv(t)'
    BY <1>1, <1>2, <1>14, ReceiveKeeps
  <2>3. QED
    BY <1>2, <1>4, <2>1, <2>2
<1>15. ASSUME NEW t \in Peer, PeerCrashes(t) PROVE Kept
  <2>1. calls' = calls /\ todo' = todo /\ \A u \in Proc \ {t} : Same(u)
    BY <1>1, <1>15 DEF PeerCrashes, taskVars, Same, TypeInv
  <2>2. TargetInv(t)'
    BY <1>1, <1>2, <1>15, CrashKeeps
  <2>3. QED
    BY <1>2, <1>4, <2>1, <2>2
<1>16. ASSUME NEW t \in Peer, PeerRestarts(t) PROVE Kept
  <2>1. calls' = calls /\ todo' = todo /\ \A u \in Proc : Same(u)
    BY <1>16 DEF PeerRestarts, taskVars, Same
  <2>2. QED
    BY <1>1, <1>3, <2>1, Untouched
<1>17. QED
  BY <1>5, <1>6, <1>7, <1>8, <1>9, <1>10, <1>11, <1>12, <1>13, <1>14, <1>15, <1>16, Zenon
     DEF Next, LinkStep

\* Every step keeps the invariant: the calls begin when new is done.
LEMMA StepInv == IInv /\ [Next]_vars => IInv'
<1> SUFFICES ASSUME IInv, [Next]_vars PROVE IInv'
  OBVIOUS
<1>1. TypeInv'
  BY StepTypes DEF IInv
<1>2. (\A w \in Worker : TodoInv(w)') /\ \A t \in Proc : TargetInv(t)'
  BY StepOrder
<1>3. ASSUME status' # "running" PROVE \A w \in Worker : calls'[w] = <<>>
  <2>1. ASSUME NEW w \in Worker, Push(w) PROVE status' = status /\ calls' = calls
    BY <2>1, PushIs, Zenon
  <2>2. \/ status' = status /\ calls' = calls
        \/ status = "starting" /\ calls' = calls
        \/ status' = "running"
    BY <2>1, Zenon DEF Next, SkipSelf, Connect, Started, send, broadcast, Call, LinkStep, handle_writing, Tick,
         TakeRetransmission, SelfReceives, PeerReceives, PeerCrashes, PeerRestarts, vars
  <2>3. QED
    BY <1>3, <2>2 DEF IInv, OrderInv
<1>4. QED
  BY <1>1, <1>2, <1>3 DEF IInv, OrderInv, TargetInv

\* The inductive invariant of the links: the types, and the order of what is in the
\* channels, on the wires and at the targets.
THEOREM Invariance == Spec => []IInv
<1>1. IInv /\ UNCHANGED vars => IInv'
  BY StepInv
<1>2. QED
  BY InitOrder, StepInv, PTL DEF Spec

\* Every variable of the links stays in its type: a connection never holds more than its
\* window, and every message in a channel is one of a call.
THEOREM TypeCorrect == Spec => []TypeOK
<1>1. IInv => TypeOK
  BY DEF IInv, TypeInv, TypeOK
<1>2. QED
  BY <1>1, Invariance, PTL

\* The links keep the order of a worker (register_client.rs): a target that got a message
\* of a worker got every earlier one to it, whatever the retransmissions, the other workers
\* and the crashes do.
THEOREM ArriveInOrder == Spec => []InOrder
<1>1. ASSUME IInv PROVE InOrder
  <2> SUFFICES ASSUME NEW w \in Worker, NEW t \in Proc, NEW n \in 1 .. MaxCalls, NEW m \in 1 .. n - 1,
                      Has(w, n, t), Asked(w, m, t)
               PROVE  MessageOf(w, m) \in got[t]
    BY DEF InOrder, Has
  <2>1. MessageOf(w, n) \in got[t] /\ m \in DOMAIN calls[w] /\ t \in calls[w][m]
    BY DEF Has, Asked
  <2>2. m \in 1 .. MaxCalls /\ m < n
    BY LinksAssumption
  <2>3. calls[w][m] \in SUBSET Proc
    BY <1>1, <2>1 DEF IInv, TypeInv
  <2>4. MessageOf(w, m) \in OfCalls(calls)
    BY <2>1, <2>2, <2>3 DEF OfCalls, MessageOf, Message
  <2>5. MessageOf(w, m) \in Earlier(calls, MessageOf(w, n), t)
    BY <2>1, <2>2, <2>4 DEF Earlier, MessageOf
  <2>6. Closed(calls, t, got[t])
    BY <1>1 DEF IInv, OrderInv, Ordered
  <2>7. QED
    BY <2>1, <2>5, <2>6 DEF Closed
<1>2. QED
  BY <1>1, Invariance, PTL
=============================================================================
