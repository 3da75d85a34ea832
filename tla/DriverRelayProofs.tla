--------------------------- MODULE DriverRelayProofs ---------------------------
(***************************************************************************)
(* Proofs about the ring of a relay, for any size of the ring and any      *)
(* number of requests and broken connections: types, what the ring holds,  *)
(* and what is forwarded.                                                  *)
(***************************************************************************)
EXTENDS DriverRelay, FiniteSetTheorems, TLAPS

\* From position p to position q, and the position after p, without remainders.
Dist(p, q) == IF q >= p THEN q - p ELSE q - p + Size
Succ(p) == IF p + 1 = Size THEN 0 ELSE p + 1

\* The types, and what they rest on.
Ident == 0 .. MaxRequests
TypeInv ==
    /\ ring \in [Slot -> Ident]
    /\ accepted \in Slot /\ forwarded \in Slot /\ completed \in Slot
    /\ budget \in Slot /\ pending \in Slot
    /\ requests \in Ident
    /\ inbox \in Seq(Ident)
    /\ server \in [Request -> Nat]
    /\ ended \in [Request -> Nat]
    /\ pc \in {"wait", "fetch", "send"}
    /\ link \in {"none", "open", "fin", "dead", "reset"}
    /\ (storing => requests < MaxRequests)
    /\ fault \in {"none", "overrun", "slipped"}

Length == Dist(completed, accepted)
InRing(p) == Dist(completed, p) < Length

\* The slots from completed to accepted hold the open requests, each once, and the others
\* hold none; a request being stored is in the slot at accepted.
RingInv ==
    /\ \A p \in Slot : InRing(p) => ring[p] \in Open
    /\ \A p, q \in Slot : InRing(p) /\ InRing(q) /\ ring[p] = ring[q] => p = q
    /\ \A r \in Open : \E p \in Slot : InRing(p) /\ ring[p] = r
    /\ \A p \in Slot : ~InRing(p) => ring[p] \notin Open
    /\ \A p \in Slot : ring[p] <= requests \/ (storing /\ p = accepted)
    /\ storing => ring[accepted] = requests + 1 /\ Length < Size - 1
    /\ \A r \in Request : ended[r] <= 1 /\ (r > requests => ended[r] = 0)
    /\ Cardinality(Open) = Length

\* The relay forwards between completed and accepted, except while it reads responses of
\* a connection that broke.
PositionInv ==
    /\ link = "open" \/ pc # "fetch" => Dist(completed, forwarded) <= Length
    /\ pc = "send" => Dist(completed, forwarded) + budget <= Length

\* Without a connection nothing is under way. An error, or the end of the stream, is seen
\* only of a connection that broke, and the process at its end has no command any more.
LinkInv ==
    /\ connected <=> link # "none"
    /\ ~connected => inbox = <<>> /\ forwarded = completed /\ pending = 0
    /\ error => link \in {"reset", "none"}
    /\ link # "open" => \A r \in Request : server[r] = 0
    /\ link = "open" => \A j \in DOMAIN inbox : inbox[j] # Fin

\* Every command under way and every response is for an open request, one for each, and
\* on an open connection for one in a slot before forwarded.
Answered(r) == \E j \in DOMAIN inbox : inbox[j] = r
TrafficInv ==
    /\ \A j \in DOMAIN inbox : inbox[j] # Fin => inbox[j] \in Open
    /\ \A j, k \in DOMAIN inbox : inbox[j] = inbox[k] /\ inbox[j] # Fin => j = k
    /\ \A r \in Request : server[r] > 0 => server[r] = 1 /\ r \in Open /\ ~Answered(r)
    /\ link = "open" => \A p \in Slot :
          InRing(p) /\ Dist(completed, p) >= Dist(completed, forwarded) =>
              server[ring[p]] = 0 /\ ~Answered(ring[p])

Good == RingInv /\ PositionInv /\ LinkInv /\ TrafficInv
IInv == TypeInv /\ (fault = "none" => Good)

-----------------------------------------------------------------------------
(***************************************************************************)
(* Positions                                                               *)
(***************************************************************************)
\* Remainders are positions.
LEMMA WrapType == \A n \in Int : Wrap(n) \in Slot
BY SizeAssumption DEF Slot, Wrap

\* The difference of two positions, modulo the size, is the way from one to the other.
LEMMA WrapDist == \A p, q \in Slot : Wrap(q - p) = Dist(p, q)
BY SizeAssumption DEF Slot, Wrap, Dist

\* One more, modulo the size, is the next position.
LEMMA WrapSucc == \A p \in Slot : Wrap(p + 1) = Succ(p)
BY SizeAssumption DEF Slot, Wrap, Succ

\* The neighbours of a position.
LEMMA NextSlot == \A p \in Slot : Wrap(p + 1) \in Slot /\ Wrap(p - 1) \in Slot
<1> SUFFICES ASSUME NEW p \in Slot PROVE Wrap(p + 1) \in Slot /\ Wrap(p - 1) \in Slot
  OBVIOUS
<1>1. p + 1 \in Int /\ p - 1 \in Int
  BY SizeAssumption DEF Slot
<1>2. QED
  BY <1>1, WrapType

\* Distances are positions, and only a position itself is at distance 0.
LEMMA DistType ==
  \A p, q \in Slot : Dist(p, q) \in Slot /\ Succ(p) \in Slot /\ (Dist(p, q) = 0 <=> p = q)
BY SizeAssumption DEF Slot, Dist, Succ

\* The slots from a to b: the i-th after a is at distance i.
LEMMA WindowIs ==
  ASSUME NEW a \in Slot, NEW b \in Slot
  PROVE  Window(a, b) = {p \in Slot : Dist(a, p) < Dist(a, b)}
<1>1. Dist(a, b) \in Slot
  BY DistType
<1>2. \A i \in Slot : Wrap(a + i) \in Slot /\ Dist(a, Wrap(a + i)) = i
  BY SizeAssumption DEF Slot, Wrap, Dist
<1>3. \A p \in Slot : Dist(a, p) \in Slot /\ Wrap(a + Dist(a, p)) = p
  BY SizeAssumption DEF Slot, Wrap, Dist
<1>4. Window(a, b) = {Wrap(a + i) : i \in 0 .. Dist(a, b) - 1}
  BY WrapDist DEF Window
<1>5. ASSUME NEW i \in 0 .. Dist(a, b) - 1
      PROVE  Wrap(a + i) \in Slot /\ Dist(a, Wrap(a + i)) < Dist(a, b)
  <2>1. i \in Slot /\ i < Dist(a, b)
    BY <1>1, SizeAssumption DEF Slot
  <2>2. QED
    BY <1>2, <2>1
<1>6. ASSUME NEW p \in Slot, Dist(a, p) < Dist(a, b)
      PROVE  \E i \in 0 .. Dist(a, b) - 1 : p = Wrap(a + i)
  <2>1. Dist(a, p) \in 0 .. Dist(a, b) - 1
    BY <1>1, <1>3, <1>6, SizeAssumption DEF Slot
  <2>2. QED
    BY <1>3, <2>1
<1>7. QED
  BY <1>4, <1>5, <1>6

-----------------------------------------------------------------------------
(***************************************************************************)
(* Types                                                                   *)
(***************************************************************************)
\* The budget is a position.
LEMMA BudgetType ==
  ASSUME TypeInv, NEW f \in Slot
  PROVE  CmdsToSend(f) \in Slot
<1>1. accepted - f \in Int /\ f - completed \in Int
  BY SizeAssumption DEF TypeInv, Slot
<1>2. Wrap(f - completed) \in Slot
  BY <1>1, WrapType
<1>3. Size - 1 - Wrap(f - completed) \in Int
  BY <1>2, SizeAssumption DEF Slot
<1>4. QED
  BY <1>1, <1>3, WrapType DEF CmdsToSend, Min

\* The first of the receive queue.
LEMMA InboxFirst ==
  ASSUME NEW S, NEW q \in Seq(S), q # <<>>
  PROVE  Head(q) \in S /\ Tail(q) \in Seq(S)
OBVIOUS

\* submit_atdd_request.
LEMMA SubmitTypes == TypeInv /\ (Store \/ Accept) => TypeInv'
<1> SUFFICES ASSUME TypeInv, Store \/ Accept PROVE TypeInv'
  OBVIOUS
<1>1. CASE Store
  <2>1. requests + 1 \in Ident
    BY <1>1, BoundsAssumption DEF Store, TypeInv, Ident
  <2>2. QED
    BY <1>1, <2>1 DEF Store, TypeInv, relay, client, env
<1>2. CASE Accept
  <2>1. Wrap(accepted + 1) \in Slot
    BY NextSlot DEF TypeInv
  <2>2. requests + 1 \in Ident
    BY <1>2, BoundsAssumption DEF Accept, TypeInv, Ident
  <2>3. QED
    BY <1>2, <2>1, <2>2 DEF Accept, TypeInv, relay, client, env
<1>3. QED
  BY <1>1, <1>2

\* Waiting, and the end of reading.
LEMMA WakeTypes == TypeInv /\ (Wake \/ FetchEnds \/ FetchFails) => TypeInv'
<1> SUFFICES ASSUME TypeInv, Wake \/ FetchEnds \/ FetchFails PROVE TypeInv'
  OBVIOUS
<1>1. \A f \in Slot : CmdsToSend(f) \in Slot
  BY BudgetType
<1>2. <<>> \in Seq(Ident)
  OBVIOUS
<1>3. CASE Wake
  BY <1>1, <1>3 DEF Wake, StartSending, TypeInv, queue, env
<1>4. CASE FetchEnds
  BY <1>1, <1>4 DEF FetchEnds, StartSending, TypeInv, queue, client, env
<1>5. CASE FetchFails
  BY <1>1, <1>2, <1>5 DEF FetchFails, StartSending, TypeInv, queue, env
<1>6. QED
  BY <1>3, <1>4, <1>5

\* A response.
LEMMA FinishTypes == TypeInv /\ (Finish \/ FinishUnknown) => TypeInv'
<1> SUFFICES ASSUME TypeInv, Finish \/ FinishUnknown PROVE TypeInv'
  OBVIOUS
<1>1. Wrap(completed + 1) \in Slot /\ Wrap(pending - 1) \in Slot
  BY NextSlot DEF TypeInv
<1>2. Head(inbox) \in Ident /\ Tail(inbox) \in Seq(Ident)
  BY InboxFirst DEF Finish, FinishUnknown, TypeInv
<1>3. \A r \in Request : [ended EXCEPT ![r] = @ + 1] \in [Request -> Nat]
  BY DEF TypeInv
<1>4. CASE Finish
  <2>1. ring' \in [Slot -> Ident]
    BY <1>2, <1>4 DEF Finish, TypeInv
  <2>2. Head(inbox) \in Request
    BY <1>2, <1>4, BoundsAssumption DEF Finish, Fin, Ident, Request
  <2>3. QED
    BY <1>1, <1>2, <1>3, <1>4, <2>1, <2>2 DEF Finish, TypeInv, queue, env
<1>5. CASE FinishUnknown
  BY <1>1, <1>2, <1>3, <1>5 DEF FinishUnknown, TypeInv, queue, env
<1>6. QED
  BY <1>4, <1>5

\* Connecting and sending.
LEMMA SendTypes ==
  TypeInv /\ (Connect \/ ConnectFails \/ SendCommand \/ SendBreaks \/ SendEnds) => TypeInv'
<1> SUFFICES ASSUME TypeInv, Connect \/ ConnectFails \/ SendCommand \/ SendBreaks \/ SendEnds
             PROVE  TypeInv'
  OBVIOUS
<1>1. CASE Connect
  BY <1>1 DEF Connect, TypeInv, relay, queue, env
<1>2. CASE ConnectFails
  BY <1>2 DEF ConnectFails, SendFails, TypeInv, queue, client, env
<1>3. CASE SendCommand
  <2>1. Wrap(pending + 1) \in Slot /\ Wrap(forwarded + 1) \in Slot
    BY NextSlot DEF TypeInv
  <2>2. budget - 1 \in Slot
    BY <1>3, SizeAssumption DEF SendCommand, TypeInv, Slot
  <2>3. server' \in [Request -> Nat]
    BY <1>3 DEF SendCommand, TypeInv
  <2>4. QED
    BY <1>3, <2>1, <2>2, <2>3 DEF SendCommand, TypeInv, queue
<1>4. CASE SendBreaks
  <2>1. 0 \in Slot /\ <<>> \in Seq(Ident)
    BY SizeAssumption DEF Slot
  <2>2. QED
    BY <1>4, <2>1 DEF SendBreaks, SendFails, TypeInv, queue, env
<1>5. CASE SendEnds
  BY <1>5 DEF SendEnds, TypeInv, queue, client, env
<1>6. QED
  BY <1>1, <1>2, <1>3, <1>4, <1>5

\* The register process.
LEMMA PeerTypes ==
  ASSUME TypeInv, (\E r \in Request : Answer(r)) \/ PeerCloses \/ PeerResets
  PROVE  TypeInv'
<1>1. CASE \E r \in Request : Answer(r)
  <2>1. PICK r \in Request : Answer(r)
    BY <1>1
  <2>2. inbox' \in Seq(Ident)
    BY <2>1 DEF Answer, TypeInv, Request, Ident
  <2>3. server' \in [Request -> Nat]
    BY <2>1 DEF Answer, TypeInv
  <2>4. QED
    BY <2>1, <2>2, <2>3 DEF Answer, TypeInv, relay, queue
<1>2. CASE PeerCloses
  <2>1. inbox' \in Seq(Ident)
    BY <1>2, BoundsAssumption DEF PeerCloses, TypeInv, Fin, Ident
  <2>2. QED
    BY <1>2, <2>1 DEF PeerCloses, TypeInv, relay, queue
<1>3. CASE PeerResets
  BY <1>3 DEF PeerResets, TypeInv, relay, queue
<1>4. QED
  BY <1>1, <1>2, <1>3

\* Every step keeps the types.
LEMMA NextTypes == TypeInv /\ [Next]_vars => TypeInv'
<1> SUFFICES ASSUME TypeInv, [Next]_vars PROVE TypeInv'
  OBVIOUS
<1>1. CASE UNCHANGED vars
  BY <1>1 DEF vars, TypeInv, relay, queue, client, env
<1>2. QED
  BY <1>1, SubmitTypes, WakeTypes, FinishTypes, SendTypes, PeerTypes DEF Next, Relay

\* Initially.
LEMMA InitTypes == Init => TypeInv
BY SizeAssumption, BoundsAssumption DEF Init, TypeInv, Slot, Ident

\* Positions, the budget and the awaited responses stay in their range and every entry of
\* the ring and the receive queue is a request, even after the positions went wrong.
THEOREM TypeCorrect == Spec => []TypeOK
<1>1. TypeInv => TypeOK
  BY DEF TypeInv, TypeOK, Ident
<1>2. QED
  BY InitTypes, NextTypes, <1>1, PTL DEF Spec

-----------------------------------------------------------------------------
(***************************************************************************)
(* The ring                                                                *)
(***************************************************************************)
\* One step on: everything but the position itself is nearer by one.
LEMMA DistNext ==
  \A c, q \in Slot : Dist(Succ(c), q) = IF q = c THEN Size - 1 ELSE Dist(c, q) - 1
BY SizeAssumption DEF Slot, Dist, Succ

\* The end one step on is further by one, unless it comes round to the beginning.
LEMMA DistGrows ==
  \A c, q \in Slot : Dist(c, q) < Size - 1 => Dist(c, Succ(q)) = Dist(c, q) + 1
BY SizeAssumption DEF Slot, Dist, Succ

\* Distances tell positions apart.
LEMMA DistInjective == \A c, p, q \in Slot : Dist(c, p) = Dist(c, q) => p = q
BY SizeAssumption DEF Slot, Dist

\* A way in two parts.
LEMMA DistAdds ==
  \A c, f, a \in Slot : Dist(c, f) <= Dist(c, a) => Dist(c, f) + Dist(f, a) = Dist(c, a)
BY SizeAssumption DEF Slot, Dist

\* atdd_cmds_to_send never goes past accepted.
LEMMA BudgetFits ==
  ASSUME TypeInv, NEW f \in Slot, Dist(completed, f) <= Length
  PROVE  Dist(completed, f) + CmdsToSend(f) <= Length
<1>1. Wrap(accepted - f) = Dist(f, accepted)
  BY WrapDist DEF TypeInv
<1>2. Size - 1 - Wrap(f - completed) \in Int
  <2>1. Wrap(f - completed) = Dist(completed, f) /\ Dist(completed, f) \in Slot
    BY WrapDist, DistType DEF TypeInv
  <2>2. QED
    BY <2>1, SizeAssumption DEF Slot
<1>3. Wrap(Size - 1 - Wrap(f - completed)) \in Slot
  BY <1>2, WrapType
<1>4. CmdsToSend(f) <= Dist(f, accepted) /\ CmdsToSend(f) \in Int
  <2>1. Dist(f, accepted) \in Slot
    BY DistType DEF TypeInv
  <2>2. QED
    BY <1>1, <1>3, <2>1, SizeAssumption DEF CmdsToSend, Min, Slot
<1>5. Dist(completed, f) + Dist(f, accepted) = Length
  BY DistAdds DEF TypeInv, Length
<1>6. Dist(completed, f) \in Int /\ Dist(f, accepted) \in Int /\ Length \in Int
  BY DistType, SizeAssumption DEF TypeInv, Length, Slot
<1>7. QED
  BY <1>4, <1>5, <1>6

\* The open requests are finitely many.
LEMMA OpenFinite == TypeInv => IsFiniteSet(Open) /\ Open \subseteq Request
<1> SUFFICES ASSUME TypeInv PROVE IsFiniteSet(Open) /\ Open \subseteq Request
  OBVIOUS
<1>1. Open \subseteq Request
  BY BoundsAssumption DEF Open, Request, TypeInv, Ident
<1>2. IsFiniteSet(Request)
  BY FS_Interval, BoundsAssumption DEF Request
<1>3. QED
  BY <1>1, <1>2, FS_Subset

\* Taking from the receive queue.
LEMMA TailIs ==
  ASSUME NEW S, NEW q \in Seq(S), q # <<>>
  PROVE  /\ Head(q) = q[1] /\ 1 \in DOMAIN q
         /\ \A j \in DOMAIN Tail(q) : j + 1 \in DOMAIN q /\ j + 1 # 1 /\ Tail(q)[j] = q[j + 1]
OBVIOUS

\* Adding to the receive queue.
LEMMA AppendIs ==
  ASSUME NEW S, NEW q \in Seq(S), NEW x \in S
  PROVE  \A j \in DOMAIN Append(q, x) :
            \/ j \in DOMAIN q /\ Append(q, x)[j] = q[j]
            \/ j = Len(q) + 1 /\ j \notin DOMAIN q /\ Append(q, x)[j] = x
OBVIOUS

-----------------------------------------------------------------------------
(***************************************************************************)
(* Steps that leave the ring alone                                         *)
(***************************************************************************)
\* What the ring holds does not change.
LEMMA RingUnchanged ==
  ASSUME RingInv, UNCHANGED <<ring, accepted, completed, requests, ended, storing>>
  PROVE  RingInv' /\ Length' = Length /\ Open' = Open /\ \A p : InRing(p)' = InRing(p)
BY DEF RingInv, Length, InRing, Open

\* The relay wakes up.
LEMMA WakeKeepsGood ==
  ASSUME TypeInv, Good, Wake
  PROVE  Good'
<1>1. RingInv' /\ Length' = Length /\ Open' = Open /\ \A p : InRing(p)' = InRing(p)
  BY RingUnchanged DEF Good, Wake, queue
<1>2. PICK f \in Slot :
         /\ forwarded' = f /\ (f = forwarded \/ (error /\ f = completed))
         /\ pc' = "fetch" \/ (pc' = "send" /\ budget' = CmdsToSend(f))
  BY DEF Wake, StartSending, TypeInv
<1>3. Dist(completed, f) <= Length
  <2>1. Dist(completed, forwarded) <= Length
    BY DEF Good, PositionInv, Wake
  <2>2. Dist(completed, completed) = 0 /\ Length \in Slot
    BY DistType DEF TypeInv, Length
  <2>3. QED
    BY <1>2, <2>1, <2>2, SizeAssumption DEF Slot
<1>4. completed' = completed /\ Dist(completed, f)' = Dist(completed, f)
  BY <1>2 DEF Wake, Dist
<1>5. PositionInv'
  <2>1. Dist(completed, forwarded)' = Dist(completed, f)
    BY <1>2, <1>4 DEF Dist
  <2>2. pc' = "send" => budget' = CmdsToSend(f)
    BY <1>2
  <2>3. QED
    BY <1>1, <1>3, <2>1, <2>2, BudgetFits DEF PositionInv
<1>6. LinkInv'
  BY <1>2, <1>4 DEF Good, LinkInv, Wake, env
<1>7. TrafficInv'
  <2>1. UNCHANGED <<inbox, server, ring, link, completed>>
    BY DEF Wake, env
  <2>2. link = "open" => forwarded' = forwarded
    BY <1>2 DEF Good, LinkInv
  <2>3. QED
    BY <1>1, <2>1, <2>2 DEF Good, TrafficInv, Answered, Dist
<1>8. QED
  BY <1>1, <1>5, <1>6, <1>7 DEF Good

\* A step that brings forwarded to completed, or leaves it there, on a connection that is
\* not open, and only takes from the receive queue.
LEMMA BackToCompleted ==
  ASSUME TypeInv, RingInv, TrafficInv,
         UNCHANGED <<ring, accepted, completed, requests, ended, storing, server>>,
         forwarded' = completed, inbox' = inbox \/ inbox' = <<>>,
         link' # "open",
         pc' = "send" => budget' = CmdsToSend(completed)
  PROVE  RingInv' /\ PositionInv' /\ TrafficInv'
<1>1. RingInv' /\ Length' = Length /\ Open' = Open /\ \A p : InRing(p)' = InRing(p)
  BY RingUnchanged
<1>2. Dist(completed, completed) = 0 /\ Length \in Slot
  BY DistType DEF TypeInv, Length
<1>3. Dist(completed, completed) <= Length
  BY <1>2, SizeAssumption DEF Slot
<1>4. Dist(completed, forwarded)' = Dist(completed, completed)
  BY DEF Dist
<1>5. Dist(completed, completed) + CmdsToSend(completed) <= Length
  BY <1>3, BudgetFits DEF TypeInv
<1>6. PositionInv'
  BY <1>1, <1>3, <1>4, <1>5 DEF PositionInv
<1>7. TrafficInv'
  <2>1. CASE inbox' = inbox
    BY <1>1, <2>1 DEF TrafficInv, Answered
  <2>2. CASE inbox' = <<>>
    <3>1. DOMAIN inbox' = {}
      BY <2>2
    <3>2. QED
      BY <1>1, <3>1 DEF TrafficInv, Answered
  <2>3. QED
    BY <2>1, <2>2
<1>8. QED
  BY <1>1, <1>6, <1>7

\* No response is awaited. That the positions are right is what is tested for the fault.
LEMMA FetchEndsKeepsGood ==
  ASSUME TypeInv, Good, fault = "none", FetchEnds, fault' = "none"
  PROVE  Good'
<1>1. RingInv' /\ Length' = Length /\ Open' = Open /\ \A p : InRing(p)' = InRing(p)
  BY RingUnchanged DEF Good, FetchEnds, queue
<1>2. /\ forwarded = completed /\ UNCHANGED <<forwarded, completed, ring, inbox, server, link, connected, error, pending>>
      /\ budget' = CmdsToSend(completed) /\ pc' = "send"
  BY DEF FetchEnds, StartSending, client, env
<1>3. Dist(completed, completed) = 0 /\ Length \in Slot
  BY DistType DEF TypeInv, Length
<1>4. Dist(completed, completed) <= Length
  BY <1>3, SizeAssumption DEF Slot
<1>5. Dist(completed, completed) + CmdsToSend(completed) <= Length
  BY <1>4, BudgetFits DEF TypeInv
<1>6. Dist(completed, forwarded)' = Dist(completed, completed)
  BY <1>2 DEF Dist
<1>7. PositionInv'
  BY <1>1, <1>2, <1>4, <1>5, <1>6 DEF PositionInv
<1>8. LinkInv'
  BY <1>2 DEF Good, LinkInv
<1>9. TrafficInv'
  BY <1>1, <1>2 DEF Good, TrafficInv, Answered, Dist
<1>10. QED
  BY <1>1, <1>7, <1>8, <1>9 DEF Good

\* The end of a broken connection is read.
LEMMA FetchFailsKeepsGood ==
  ASSUME TypeInv, Good, FetchFails
  PROVE  Good'
<1>1. link # "open"
  <2>1. CASE inbox # <<>> /\ Head(inbox) = Fin
    BY <2>1, TailIs DEF TypeInv, Good, LinkInv
  <2>2. CASE ~(inbox # <<>> /\ Head(inbox) = Fin)
    BY <2>2 DEF FetchFails
  <2>3. QED
    BY <2>1, <2>2
<1>2. RingInv' /\ PositionInv' /\ TrafficInv'
  BY <1>1, BackToCompleted DEF FetchFails, StartSending, Good, queue, env
<1>3. LinkInv'
  BY <1>1 DEF Good, LinkInv, FetchFails, StartSending, env
<1>4. QED
  BY <1>2, <1>3 DEF Good

\* No connection, or one that broke: back to the first request without a response.
LEMMA SendFailsKeepsGood ==
  ASSUME TypeInv, Good, ConnectFails \/ SendBreaks
  PROVE  Good'
<1>1. link' # "open" /\ link' = "none" /\ ~connected' /\ inbox' = <<>> /\ pending' = 0
  BY DEF Good, LinkInv, ConnectFails, SendBreaks, client
<1>2. RingInv' /\ PositionInv' /\ TrafficInv'
  BY <1>1, BackToCompleted DEF ConnectFails, SendBreaks, SendFails, Good, queue, env
<1>3. link # "open" /\ forwarded' = completed' /\ server' = server
  BY DEF ConnectFails, SendBreaks, SendFails, Good, LinkInv, env
<1>4. LinkInv'
  BY <1>1, <1>3 DEF Good, LinkInv
<1>5. QED
  BY <1>2, <1>4 DEF Good

\* A new connection: nothing is under way on it.
LEMMA ConnectKeepsGood ==
  ASSUME TypeInv, Good, Connect
  PROVE  Good'
<1>1. RingInv' /\ Length' = Length /\ Open' = Open /\ \A p : InRing(p)' = InRing(p)
  BY RingUnchanged DEF Good, Connect, queue, relay
<1>2. inbox = <<>> /\ \A r \in Request : server[r] = 0
  BY DEF Good, LinkInv, Connect
<1>3. DOMAIN inbox = {}
  BY <1>2
<1>4. PositionInv'
  BY <1>1 DEF Good, PositionInv, Connect, relay, Dist
<1>5. LinkInv'
  BY <1>2, <1>3 DEF Good, LinkInv, Connect, relay, env
<1>6. TrafficInv'
  <2>1. UNCHANGED <<inbox, server, ring>>
    BY DEF Connect, env
  <2>2. Open \subseteq Request
    BY OpenFinite
  <2>3. \A p \in Slot : InRing(p) => ring[p] \in Request
    BY <2>2 DEF Good, RingInv
  <2>4. QED
    BY <1>1, <1>2, <1>3, <2>1, <2>3 DEF Good, TrafficInv, Answered
<1>7. QED
  BY <1>1, <1>4, <1>5, <1>6 DEF Good

\* A command is sent: for the request in the slot at forwarded, which is open and, on an
\* open connection, not under way.
LEMMA SendCommandKeepsGood ==
  ASSUME TypeInv, Good, SendCommand
  PROVE  Good' /\ ring[forwarded] \in Open
<1>1. RingInv' /\ Length' = Length /\ Open' = Open /\ \A p : InRing(p)' = InRing(p)
  BY RingUnchanged DEF Good, SendCommand, queue
<1> DEFINE d == Dist(completed, forwarded)
<1>2. d \in Slot /\ Length \in Slot /\ budget \in Slot
  BY DistType DEF TypeInv, Length
<1>3. d + budget <= Length /\ budget # 0
  BY DEF SendCommand, Good, PositionInv
<1>4. d < Length /\ d < Size - 1 /\ d + 1 <= Length /\ (d + 1) + (budget - 1) <= Length
  BY <1>2, <1>3, SizeAssumption DEF Slot
<1>5. InRing(forwarded) /\ ring[forwarded] \in Open
  BY <1>4 DEF InRing, Good, RingInv, TypeInv
<1>6. forwarded' = Succ(forwarded) /\ completed' = completed /\ budget' = budget - 1
  BY WrapSucc DEF SendCommand, TypeInv
<1>7. Dist(completed, forwarded)' = d + 1
  <2>1. Dist(completed, Succ(forwarded)) = d + 1
    BY <1>4, DistGrows DEF TypeInv
  <2>2. QED
    BY <1>6, <2>1 DEF Dist
<1>8. PositionInv'
  BY <1>1, <1>4, <1>6, <1>7 DEF PositionInv
<1>9. link' = "open" <=> link = "open"
  BY DEF SendCommand
<1>10. UNCHANGED <<inbox, ring, connected, error>> /\ connected /\ link # "reset" /\ link' \in {"open", "dead"}
  BY DEF SendCommand
<1>11. LinkInv'
  BY <1>9, <1>10 DEF Good, LinkInv, SendCommand
<1>12. TrafficInv'
  <2>1. CASE link # "open"
    BY <1>1, <1>9, <1>10, <2>1 DEF SendCommand, Good, TrafficInv, Answered
  <2>2. CASE link = "open"
    <3>1. server' = [server EXCEPT ![ring[forwarded]] = @ + 1]
      BY <2>2 DEF SendCommand
    <3>2. server[ring[forwarded]] = 0 /\ ~Answered(ring[forwarded])
      BY <1>2, <1>5, <2>2 DEF Good, TrafficInv, TypeInv, Slot
    <3>3. ring[forwarded] \in Request
      BY <1>5, OpenFinite
    <3>4. \A r \in Request : server'[r] = IF r = ring[forwarded] THEN 1 ELSE server[r]
      BY <3>1, <3>2, <3>3 DEF TypeInv
    <3>5. \A r : Answered(r)' = Answered(r)
      BY <1>10 DEF Answered
    <3>6. \A r \in Request : server'[r] > 0 => server'[r] = 1 /\ r \in Open /\ ~Answered(r)
      BY <1>5, <3>2, <3>4 DEF Good, TrafficInv
    <3>7. ASSUME NEW p \in Slot, InRing(p), Dist(completed, p) >= d + 1
          PROVE  server'[ring[p]] = 0 /\ ~Answered(ring[p])
      <4>1. Dist(completed, p) \in Slot
        BY DistType DEF TypeInv
      <4>2. Dist(completed, p) >= d /\ p # forwarded
        BY <1>2, <3>7, <4>1, SizeAssumption DEF Slot
      <4>3. ring[p] # ring[forwarded]
        BY <1>5, <3>7, <4>2 DEF Good, RingInv, TypeInv
      <4>4. ring[p] \in Request
        BY <3>7, OpenFinite DEF Good, RingInv
      <4>5. QED
        BY <2>2, <3>4, <3>7, <4>2, <4>3, <4>4 DEF Good, TrafficInv
    <3>8. \A p : Dist(completed, p)' = Dist(completed, p)
      BY <1>6 DEF Dist
    <3>9. QED
      BY <1>1, <1>7, <1>10, <3>5, <3>6, <3>7, <3>8 DEF Good, TrafficInv
  <2>3. QED
    BY <2>1, <2>2
<1>13. QED
  BY <1>1, <1>5, <1>8, <1>11, <1>12 DEF Good

\* Everything that was to be sent is sent.
LEMMA SendEndsKeepsGood ==
  ASSUME TypeInv, Good, SendEnds
  PROVE  Good'
<1>1. RingInv' /\ Length' = Length /\ Open' = Open /\ \A p : InRing(p)' = InRing(p)
  BY RingUnchanged DEF Good, SendEnds, queue
<1>2. PositionInv' /\ LinkInv'
  BY <1>1 DEF Good, PositionInv, LinkInv, SendEnds, client, env, Dist
<1>3. TrafficInv'
  BY <1>1 DEF Good, TrafficInv, SendEnds, client, env, Dist, Answered
<1>4. QED
  BY <1>1, <1>2, <1>3 DEF Good

\* The register process answers a command, or its connection breaks.
LEMMA AnswerKeepsGood ==
  ASSUME TypeInv, Good, NEW r \in Request, Answer(r)
  PROVE  Good'
<1>1. RingInv' /\ Length' = Length /\ Open' = Open /\ \A p : InRing(p)' = InRing(p)
  BY RingUnchanged DEF Good, Answer, queue, relay
<1>2. PositionInv'
  BY <1>1 DEF Good, PositionInv, Answer, relay, Dist
<1>3. r \in Open /\ ~Answered(r) /\ server[r] = 1 /\ r \in Ident /\ r # Fin
  BY BoundsAssumption DEF Good, TrafficInv, Answer, Request, Ident, Fin
<1>4. inbox \in Seq(Ident) /\ inbox' = Append(inbox, r)
  BY DEF TypeInv, Answer
<1>5. \A j \in DOMAIN inbox' :
         \/ j \in DOMAIN inbox /\ inbox'[j] = inbox[j]
         \/ j = Len(inbox) + 1 /\ j \notin DOMAIN inbox /\ inbox'[j] = r
  BY <1>3, <1>4, AppendIs
<1>6. UNCHANGED <<ring, link, connected, error, forwarded, completed, pending>> /\ link = "open"
  BY DEF Answer, relay
<1>7. LinkInv'
  BY <1>3, <1>5, <1>6 DEF Good, LinkInv
<1>8. \A x \in Request : server'[x] = IF x = r THEN 0 ELSE server[x]
  BY <1>3 DEF Answer, TypeInv
<1>9. \A x : (\E j \in DOMAIN inbox' : inbox'[j] = x) => Answered(x) \/ x = r
  BY <1>5 DEF Answered
<1>10. TrafficInv'
  <2>1. \A j \in DOMAIN inbox' : inbox'[j] # Fin => inbox'[j] \in Open
    BY <1>3, <1>5 DEF Good, TrafficInv
  <2>2. \A j, k \in DOMAIN inbox' : inbox'[j] = inbox'[k] /\ inbox'[j] # Fin => j = k
    BY <1>3, <1>5 DEF Good, TrafficInv, Answered
  <2>3. \A x \in Request : server'[x] > 0 =>
           server'[x] = 1 /\ x \in Open /\ ~\E j \in DOMAIN inbox' : inbox'[j] = x
    BY <1>8, <1>9 DEF Good, TrafficInv
  <2>4. ASSUME NEW p \in Slot, InRing(p), Dist(completed, p) >= Dist(completed, forwarded)
        PROVE  server'[ring[p]] = 0 /\ ~\E j \in DOMAIN inbox' : inbox'[j] = ring[p]
    <3>1. server[ring[p]] = 0 /\ ~Answered(ring[p])
      BY <1>6, <2>4 DEF Good, TrafficInv
    <3>2. ring[p] # r /\ ring[p] \in Request
      BY <1>3, <2>4, <3>1, OpenFinite DEF Good, RingInv
    <3>3. QED
      BY <1>8, <1>9, <3>1, <3>2
  <2>5. \A p \in Slot : Dist(completed, p)' = Dist(completed, p) /\ Dist(completed, forwarded)' = Dist(completed, forwarded)
    BY <1>6 DEF Dist
  <2>6. QED
    BY <1>1, <1>6, <2>1, <2>2, <2>3, <2>4, <2>5 DEF TrafficInv, Answered
<1>11. QED
  BY <1>1, <1>2, <1>7, <1>10 DEF Good

\* A peer that closes or resets the connection keeps the ring as it is.
LEMMA PeerBreaksKeepsGood ==
  ASSUME TypeInv, Good, PeerCloses \/ PeerResets
  PROVE  Good'
<1>1. RingInv' /\ Length' = Length /\ Open' = Open /\ \A p : InRing(p)' = InRing(p)
  BY RingUnchanged DEF Good, PeerCloses, PeerResets, queue, relay
<1>2. /\ UNCHANGED <<ring, connected, forwarded, completed, pending, pc, budget>>
      /\ link \in {"open", "dead"} /\ link' \in {"fin", "reset"}
      /\ error' = error \/ link' = "reset"
  BY DEF PeerCloses, PeerResets, relay
<1>3. PositionInv'
  BY <1>1, <1>2 DEF Good, PositionInv, Dist
<1>4. \A r \in Request : server'[r] = 0
  BY DEF PeerCloses, PeerResets
<1>5. connected /\ (link = "open" => ~error)
  BY <1>2 DEF Good, LinkInv
<1>6. LinkInv'
  <2>1. CASE PeerCloses
    BY <1>2, <1>4, <1>5, <2>1 DEF LinkInv, PeerCloses
  <2>2. CASE PeerResets
    BY <1>2, <1>4, <1>5, <2>2 DEF LinkInv, PeerResets
  <2>3. QED
    BY <2>1, <2>2
<1>7. \A j \in DOMAIN inbox' : inbox'[j] = Fin \/ (j \in DOMAIN inbox /\ inbox'[j] = inbox[j])
  <2>1. CASE inbox' = inbox
    BY <2>1
  <2>2. CASE inbox' = Append(inbox, Fin)
    <3>1. Fin \in Ident
      BY BoundsAssumption DEF Fin, Ident
    <3>2. inbox \in Seq(Ident)
      BY DEF TypeInv
    <3>3. QED
      BY <2>2, <3>1, <3>2, AppendIs
  <2>3. QED
    BY <2>1, <2>2 DEF PeerCloses, PeerResets
<1>8. TrafficInv'
  <2>1. TrafficInv
    BY DEF Good
  <2>2. \A j \in DOMAIN inbox' : inbox'[j] # Fin => inbox'[j] \in Open'
    BY <1>1, <1>7, <2>1 DEF TrafficInv
  <2>3. \A j, k \in DOMAIN inbox' : inbox'[j] = inbox'[k] /\ inbox'[j] # Fin => j = k
    BY <1>7, <2>1 DEF TrafficInv
  <2>4. \A r \in Request : ~(server'[r] > 0)
    BY <1>4
  <2>5. link' # "open"
    BY <1>2
  <2>6. QED
    BY <2>2, <2>3, <2>4, <2>5 DEF TrafficInv
<1>9. QED
  BY <1>1, <1>3, <1>6, <1>8 DEF Good

-----------------------------------------------------------------------------
(***************************************************************************)
(* Steps that change the ring                                              *)
(***************************************************************************)
\* A request is stored in the slot at accepted. That there is room is what is tested for
\* the fault.
LEMMA StoreKeepsGood ==
  ASSUME TypeInv, Good, fault = "none", Store, fault' = "none"
  PROVE  Good'
<1>1. Length \in Slot /\ Cardinality(Open) = Length
  BY DistType DEF TypeInv, Length, Good, RingInv
<1>2. Length < Size - 1
  BY <1>1, SizeAssumption DEF Store, Slot
<1>3. /\ UNCHANGED <<accepted, completed, forwarded, requests, ended, pc, budget>>
      /\ UNCHANGED <<inbox, server, link, connected, error, pending>>
      /\ storing'
  BY DEF Store, relay, client, env
<1>4. Length' = Length /\ Open' = Open /\ \A p : InRing(p)' = InRing(p)
  BY <1>3 DEF Length, Open, InRing, Dist
<1>5. ~InRing(accepted)
  BY <1>1, SizeAssumption DEF InRing, Length, Slot
<1>6. \A p \in Slot : ring'[p] = IF p = accepted THEN requests + 1 ELSE ring[p]
  BY DEF Store, TypeInv
<1>7. \A p \in Slot : InRing(p) => ring'[p] = ring[p]
  BY <1>5, <1>6
<1>8. requests + 1 \notin Open /\ requests \in Nat
  BY BoundsAssumption DEF Open, TypeInv, Ident
<1>9. RingInv'
  <2>1. \A p \in Slot : InRing(p) => ring'[p] \in Open
    BY <1>7 DEF Good, RingInv
  <2>2. \A p, q \in Slot : InRing(p) /\ InRing(q) /\ ring'[p] = ring'[q] => p = q
    BY <1>7 DEF Good, RingInv
  <2>3. \A r \in Open : \E p \in Slot : InRing(p) /\ ring'[p] = r
    BY <1>7 DEF Good, RingInv
  <2>4. \A p \in Slot : ~InRing(p) => ring'[p] \notin Open
    BY <1>6, <1>8 DEF Good, RingInv
  <2>5. \A p \in Slot : ring'[p] <= requests \/ p = accepted
    BY <1>6 DEF Good, RingInv, Store
  <2>6. ring'[accepted] = requests + 1
    BY <1>6 DEF TypeInv
  <2>7. QED
    BY <1>1, <1>2, <1>3, <1>4, <2>1, <2>2, <2>3, <2>4, <2>5, <2>6 DEF Good, RingInv
<1>10. PositionInv' /\ LinkInv'
  BY <1>3, <1>4 DEF Good, PositionInv, LinkInv, Dist
<1>11. TrafficInv'
  BY <1>3, <1>4, <1>7 DEF Good, TrafficInv, Answered, Dist
<1>12. QED
  BY <1>9, <1>10, <1>11 DEF Good

\* The request stored becomes one of the ring.
LEMMA AcceptKeepsGood ==
  ASSUME TypeInv, Good, Accept
  PROVE  Good'
<1>1. Length \in Slot /\ Length < Size - 1 /\ ring[accepted] = requests + 1
  BY DistType DEF TypeInv, Length, Good, RingInv, Accept
<1>2. /\ UNCHANGED <<ring, completed, forwarded, ended, pc, budget>>
      /\ UNCHANGED <<inbox, server, link, connected, error, pending>>
      /\ requests' = requests + 1 /\ ~storing' /\ accepted' = Succ(accepted)
  BY WrapSucc DEF Accept, relay, client, env, TypeInv
<1>3. Length' = Length + 1
  <2>1. Dist(completed, Succ(accepted)) = Length + 1
    BY <1>1, DistGrows DEF TypeInv, Length
  <2>2. QED
    BY <1>2, <2>1 DEF Length, Dist
<1>4. \A p \in Slot : InRing(p)' <=> InRing(p) \/ p = accepted
  <2>1. ASSUME NEW p \in Slot PROVE Dist(completed, p) < Length + 1 <=> Dist(completed, p) < Length \/ p = accepted
    <3>1. Dist(completed, p) \in Slot
      BY DistType DEF TypeInv
    <3>2. Dist(completed, p) = Length <=> p = accepted
      BY DistInjective DEF TypeInv, Length
    <3>3. QED
      BY <1>1, <3>1, <3>2, SizeAssumption DEF Slot
  <2>2. \A p \in Slot : Dist(completed, p)' = Dist(completed, p)
    BY <1>2 DEF Dist
  <2>3. QED
    BY <1>3, <2>1, <2>2 DEF InRing
<1>5. requests \in Nat /\ requests + 1 \in Request
  BY BoundsAssumption DEF TypeInv, Ident, Request, Accept
<1>6. requests + 1 \notin Open /\ Open' = Open \union {requests + 1} /\ \A r \in Open : r <= requests
  <2>1. ended[requests + 1] = 0
    BY <1>5 DEF Good, RingInv
  <2>2. Open' = {r \in 1 .. requests + 1 : ended[r] = 0}
    BY <1>2 DEF Open
  <2>3. QED
    BY <1>5, <2>1, <2>2 DEF Open
<1>7. ~InRing(accepted)
  BY <1>1, SizeAssumption DEF InRing, Length, Slot
<1>8. RingInv'
  <2>1. \A p \in Slot : InRing(p)' => ring[p] \in Open'
    BY <1>1, <1>4, <1>6 DEF Good, RingInv
  <2>2. \A p, q \in Slot : InRing(p)' /\ InRing(q)' /\ ring[p] = ring[q] => p = q
    BY <1>1, <1>4, <1>6 DEF Good, RingInv
  <2>3. ASSUME NEW r \in Open' PROVE \E p \in Slot : InRing(p)' /\ ring[p] = r
    <3>1. CASE r \in Open
      BY <1>4, <3>1 DEF Good, RingInv
    <3>2. CASE r = requests + 1
      BY <1>1, <1>4, <3>2 DEF TypeInv
    <3>3. QED
      BY <1>6, <3>1, <3>2
  <2>4. ASSUME NEW p \in Slot, ~InRing(p)' PROVE ring[p] \notin Open'
    <3>1. ~InRing(p) /\ p # accepted
      BY <1>4, <2>4
    <3>2. ring[p] \notin Open /\ ring[p] <= requests /\ ring[p] \in Nat
      BY <3>1, BoundsAssumption DEF Good, RingInv, TypeInv, Ident
    <3>3. QED
      BY <1>5, <1>6, <3>2
  <2>5. \A p \in Slot : ring[p] <= requests + 1
    <3>1. \A p \in Slot : ring[p] \in Int /\ (ring[p] <= requests \/ ring[p] = requests + 1)
      BY <1>1, BoundsAssumption DEF Good, RingInv, TypeInv, Ident
    <3>2. QED
      BY <1>5, <3>1
  <2>6. \A r \in Request : ended[r] <= 1 /\ (r > requests + 1 => ended[r] = 0)
    BY <1>5, BoundsAssumption DEF Good, RingInv, Request
  <2>7. Cardinality(Open') = Length'
    BY <1>1, <1>3, <1>6, OpenFinite, FS_AddElement DEF Good, RingInv
  <2>8. QED
    BY <1>2, <2>1, <2>2, <2>3, <2>4, <2>5, <2>6, <2>7 DEF RingInv
<1>9. Dist(completed, forwarded)' = Dist(completed, forwarded) /\ Dist(completed, forwarded) \in Slot /\ budget \in Slot
  BY <1>2, DistType DEF Dist, TypeInv
<1>10. PositionInv'
  BY <1>1, <1>2, <1>3, <1>9, SizeAssumption DEF Good, PositionInv, Slot
<1>11. LinkInv'
  BY <1>2 DEF Good, LinkInv
<1>12. TrafficInv'
  <2>1. \A r : Answered(r)' <=> Answered(r)
    BY <1>2 DEF Answered
  <2>2. server[requests + 1] = 0 /\ ~Answered(requests + 1)
    <3>1. requests + 1 # Fin
      BY <1>5 DEF Fin
    <3>2. ~(server[requests + 1] > 0) /\ server[requests + 1] \in Nat
      BY <1>5, <1>6 DEF Good, TrafficInv, TypeInv
    <3>3. QED
      BY <1>6, <3>1, <3>2 DEF Good, TrafficInv, Answered
  <2>3. ASSUME link = "open", NEW p \in Slot, InRing(p)', Dist(completed, p) >= Dist(completed, forwarded)
        PROVE  server[ring[p]] = 0 /\ ~Answered(ring[p])
    BY <1>1, <1>4, <2>2, <2>3 DEF Good, TrafficInv
  <2>4. \A p \in Slot : Dist(completed, p)' = Dist(completed, p)
    BY <1>2 DEF Dist
  <2>5. QED
    BY <1>2, <1>6, <1>9, <2>1, <2>3, <2>4 DEF Good, TrafficInv
<1>13. QED
  BY <1>8, <1>10, <1>11, <1>12 DEF Good

\* A response finds its request: exactly one slot holds it, and it is one of the ring.
LEMMA ResponseFound ==
  ASSUME TypeInv, Good, inbox # <<>>, Head(inbox) # Fin
  PROVE  /\ Head(inbox) \in Open /\ Answered(Head(inbox))
         /\ \E p \in Slot : InRing(p) /\ ring[p] = Head(inbox) /\ Holds(Head(inbox)) = {p}
<1>1. Head(inbox) \in Open /\ Answered(Head(inbox))
  BY TailIs DEF TypeInv, Good, TrafficInv, Answered
<1>2. PICK p \in Slot : InRing(p) /\ ring[p] = Head(inbox)
  BY <1>1 DEF Good, RingInv
<1>3. \A q \in Slot : ring[q] = Head(inbox) => q = p
  BY <1>1, <1>2 DEF Good, RingInv
<1>4. Holds(Head(inbox)) = {p}
  BY <1>2, <1>3 DEF Holds
<1>5. QED
  BY <1>1, <1>2, <1>4

\* atdd_finish_all_completed_requests: the request answered leaves the ring, and the first
\* of the ring takes its slot.
LEMMA FinishKeepsGood ==
  ASSUME TypeInv, Good, Finish
  PROVE  Good'
<1>1. inbox # <<>> /\ Head(inbox) # Fin /\ inbox' = Tail(inbox) /\ pc = "fetch"
  BY DEF Finish
<1>2. PICK r \in Open : r = Head(inbox) /\ Answered(r)
  BY <1>1, ResponseFound
<1>3. PICK p \in Slot : InRing(p) /\ ring[p] = r /\ Holds(r) = {p}
  BY <1>1, <1>2, ResponseFound
<1>4. (CHOOSE s \in Holds(r) : \A q \in Holds(r) : s <= q) = p
  <2>1. \E s \in Holds(r) : \A q \in Holds(r) : s <= q
    BY <1>3, SizeAssumption DEF Slot
  <2>2. (CHOOSE s \in Holds(r) : \A q \in Holds(r) : s <= q) \in Holds(r)
    BY <2>1
  <2>3. QED
    BY <1>3, <2>2
<1>5. /\ UNCHANGED <<accepted, forwarded, requests, storing, pc, budget, server, link, connected, error>>
      /\ completed' = Succ(completed)
      /\ ring' = [ring EXCEPT ![p] = ring[completed], ![completed] = r]
      /\ ended' = [ended EXCEPT ![r] = @ + 1]
  BY <1>2, <1>4, WrapSucc DEF Finish, TypeInv, queue, env
<1>6. Length \in Slot /\ Length > 0 /\ InRing(completed) /\ ~InRing(accepted)
  <2>1. Length \in Slot /\ Dist(completed, p) \in Slot /\ Dist(completed, completed) = 0
    BY DistType DEF TypeInv, Length
  <2>2. QED
    BY <1>3, <2>1, SizeAssumption DEF InRing, Length, Slot
<1>7. \A q \in Slot : Dist(completed, q)' = (IF q = completed THEN Size - 1 ELSE Dist(completed, q) - 1)
  <2>1. \A q \in Slot : Dist(completed, q)' = Dist(Succ(completed), q)
    BY <1>5 DEF Dist
  <2>2. QED
    BY <2>1, DistNext DEF TypeInv
<1>8. Length' = Length - 1
  <2>1. accepted # completed /\ Length' = Dist(completed', accepted)
    BY <1>5, <1>6 DEF Length
  <2>2. Dist(completed', accepted) = Dist(Succ(completed), accepted)
    BY <1>5
  <2>3. QED
    BY <2>1, <2>2, DistNext DEF TypeInv, Length
<1>9. \A q \in Slot : InRing(q)' <=> InRing(q) /\ q # completed
  <2>1. ASSUME NEW q \in Slot
        PROVE  Dist(completed, q)' < Length - 1 <=> Dist(completed, q) < Length /\ q # completed
    <3>1. Dist(completed, q) \in Slot
      BY DistType DEF TypeInv
    <3>2. QED
      BY <1>6, <1>7, <3>1, SizeAssumption DEF Slot
  <2>2. \A q \in Slot :
           /\ InRing(q)' <=> Dist(completed, q)' < Length'
           /\ InRing(q) <=> Dist(completed, q) < Length
    BY DEF InRing
  <2>3. QED
    BY <1>8, <2>1, <2>2
<1>10. \A q \in Slot : ring'[q] = IF q = completed THEN r ELSE IF q = p THEN ring[completed] ELSE ring[q]
  BY <1>5 DEF TypeInv
<1>11. r \in Request /\ r <= requests /\ ended[r] = 0
  <2>1. r \in Request
    BY OpenFinite
  <2>2. r \in 1 .. requests /\ ended[r] = 0
    BY r \in Open DEF Open
  <2>3. requests \in Nat
    BY BoundsAssumption DEF TypeInv, Ident
  <2>4. QED
    BY <2>1, <2>2, <2>3
<1>12. \A x \in Request : ended'[x] = IF x = r THEN 1 ELSE ended[x]
  BY <1>5, <1>11 DEF TypeInv
<1>13. Open' = Open \ {r}
  <2>1. Open \subseteq Request /\ 1 .. requests \subseteq Request
    BY OpenFinite, BoundsAssumption DEF TypeInv, Ident, Request
  <2>2. Open' = {x \in 1 .. requests : ended'[x] = 0}
    BY <1>5 DEF Open
  <2>3. QED
    BY <1>12, <2>1, <2>2 DEF Open
<1>14. RingInv'
  <2>1. ASSUME NEW q \in Slot, InRing(q)' PROVE ring'[q] \in Open'
    BY <1>3, <1>6, <1>9, <1>10, <1>13, <2>1 DEF Good, RingInv, TypeInv
  <2>2. ASSUME NEW q \in Slot, NEW t \in Slot, InRing(q)', InRing(t)', ring'[q] = ring'[t] PROVE q = t
    BY <1>3, <1>6, <1>9, <1>10, <2>2 DEF Good, RingInv, TypeInv
  <2>3. ASSUME NEW x \in Open' PROVE \E q \in Slot : InRing(q)' /\ ring'[q] = x
    <3>1. PICK q \in Slot : InRing(q) /\ ring[q] = x
      BY <1>13, <2>3 DEF Good, RingInv
    <3>2. x # r
      BY <1>13, <2>3
    <3>3. q # p
      BY <1>3, <3>1, <3>2
    <3>4. CASE q = completed
      BY <1>3, <1>9, <1>10, <3>1, <3>3, <3>4
    <3>5. CASE q # completed
      BY <1>9, <1>10, <3>1, <3>3, <3>5
    <3>6. QED
      BY <3>4, <3>5
  <2>4. ASSUME NEW q \in Slot, ~InRing(q)' PROVE ring'[q] \notin Open'
    BY <1>3, <1>9, <1>10, <1>13, <2>4 DEF Good, RingInv
  <2>5. ASSUME NEW q \in Slot PROVE ring'[q] <= requests \/ (storing /\ q = accepted)
    <3>1. ring[completed] \in Open /\ \A x \in Open : x <= requests
      BY <1>6 DEF Good, RingInv, TypeInv, Open, Ident
    <3>2. QED
      BY <1>10, <1>11, <3>1 DEF Good, RingInv
  <2>6. storing => ring'[accepted] = requests + 1 /\ Length' < Size - 1
    <3>1. accepted # completed /\ accepted # p
      BY <1>3, <1>6
    <3>2. ring'[accepted] = ring[accepted]
      BY <1>10, <3>1 DEF TypeInv
    <3>3. storing => ring[accepted] = requests + 1 /\ Length < Size - 1
      BY DEF Good, RingInv
    <3>4. QED
      BY <1>6, <1>8, <3>2, <3>3, SizeAssumption DEF Slot
  <2>7. \A x \in Request : ended'[x] <= 1 /\ (x > requests => ended'[x] = 0)
    <3>1. \A x \in Request : x > requests => x # r
      <4>1. requests \in Nat /\ \A x \in Request : x \in Nat
        BY BoundsAssumption DEF Request, TypeInv, Ident
      <4>2. QED
        BY <1>11, <4>1
    <3>2. \A x \in Request : ended[x] <= 1 /\ (x > requests => ended[x] = 0)
      BY DEF Good, RingInv
    <3>3. QED
      BY <1>12, <3>1, <3>2
  <2>8. Cardinality(Open') = Length'
    BY <1>6, <1>8, <1>13, OpenFinite, FS_RemoveElement DEF Good, RingInv
  <2>9. QED
    BY <1>5, <2>1, <2>2, <2>3, <2>4, <2>5, <2>6, <2>7, <2>8 DEF RingInv
<1>15. link = "open" => Dist(completed, p) < Dist(completed, forwarded) /\ forwarded # completed
  <2>1. Dist(completed, p) \in Slot /\ Dist(completed, forwarded) \in Slot /\ Dist(completed, completed) = 0
    BY DistType DEF TypeInv
  <2>2. link = "open" => ~(Dist(completed, p) >= Dist(completed, forwarded))
    BY <1>2, <1>3 DEF Good, TrafficInv
  <2>3. QED
    BY <2>1, <2>2, SizeAssumption DEF Slot
<1>16. Dist(completed, forwarded) \in Slot /\ (Dist(completed, forwarded))' = Dist(completed', forwarded)
  BY <1>5, DistType DEF TypeInv, Dist
<1>17. link = "open" => Dist(completed', forwarded) = Dist(completed, forwarded) - 1
  BY <1>5, <1>15, DistNext DEF TypeInv
<1>18. PositionInv'
  BY <1>1, <1>5, <1>6, <1>8, <1>16, <1>17, SizeAssumption DEF Good, PositionInv, Slot
<1>19. \A j \in DOMAIN inbox' : j + 1 \in DOMAIN inbox /\ j + 1 # 1 /\ inbox'[j] = inbox[j + 1]
  BY <1>1, TailIs DEF TypeInv
<1>20. inbox[1] = r /\ 1 \in DOMAIN inbox /\ r # Fin
  BY <1>1, <1>2, TailIs DEF TypeInv
<1>21. LinkInv'
  BY <1>1, <1>5, <1>19 DEF Good, LinkInv
<1>22. TrafficInv'
  <2>1. \A j \in DOMAIN inbox' : inbox'[j] # Fin => inbox'[j] \in Open'
    BY <1>13, <1>19, <1>20 DEF Good, TrafficInv
  <2>2. ASSUME NEW j \in DOMAIN inbox', NEW k \in DOMAIN inbox', inbox'[j] = inbox'[k], inbox'[j] # Fin
        PROVE  j = k
    <3>1. j + 1 = k + 1
      BY <1>19, <2>2 DEF Good, TrafficInv
    <3>2. j \in Int /\ k \in Int
      <4>1. inbox' \in Seq(Ident)
        BY <1>1, InboxFirst DEF TypeInv
      <4>2. QED
        BY <4>1
    <3>3. QED
      BY <3>1, <3>2
  <2>3. \A x : (\E j \in DOMAIN inbox' : inbox'[j] = x) => Answered(x)
    BY <1>19 DEF Answered
  <2>4. \A x \in Request : server[x] > 0 =>
           server[x] = 1 /\ x \in Open' /\ ~\E j \in DOMAIN inbox' : inbox'[j] = x
    BY <1>2, <1>13, <2>3 DEF Good, TrafficInv
  <2>5. ASSUME link = "open", NEW q \in Slot, InRing(q)', Dist(completed, q)' >= Dist(completed', forwarded)
        PROVE  server[ring'[q]] = 0 /\ ~\E j \in DOMAIN inbox' : inbox'[j] = ring'[q]
    <3>1. InRing(q) /\ q # completed /\ Dist(completed, q) \in Slot
      BY <1>9, <2>5, DistType DEF TypeInv
    <3>2. Dist(completed, q) >= Dist(completed, forwarded)
      BY <1>7, <1>16, <1>17, <2>5, <3>1, SizeAssumption DEF Slot
    <3>3. q # p
      BY <1>15, <1>16, <2>5, <3>1, <3>2, SizeAssumption DEF Slot
    <3>4. ring'[q] = ring[q]
      BY <1>10, <3>1, <3>3
    <3>5. QED
      BY <2>3, <2>5, <3>1, <3>2, <3>4 DEF Good, TrafficInv
  <2>6. QED
    BY <1>5, <1>16, <2>1, <2>2, <2>4, <2>5 DEF TrafficInv, Answered
<1>23. QED
  BY <1>14, <1>18, <1>21, <1>22 DEF Good

-----------------------------------------------------------------------------
(***************************************************************************)
(* Theorems                                                                *)
(***************************************************************************)
\* Initially the ring is empty.
LEMMA InitGood == Init => Good
<1> SUFFICES ASSUME Init PROVE Good
  OBVIOUS
<1>1. Open = {} /\ Cardinality(Open) = 0
  <2>1. Open = {}
    BY DEF Init, Open
  <2>2. QED
    BY <2>1, FS_EmptySet
<1>2. 0 \in Slot /\ Dist(0, 0) = 0
  BY SizeAssumption DEF Slot, Dist
<1>3. Length = 0 /\ Dist(completed, forwarded) = 0
  BY <1>2 DEF Init, Length
<1>4. \A p \in Slot : ~InRing(p)
  <2>1. \A p \in Slot : Dist(completed, p) \in Slot
    BY <1>2, DistType DEF Init
  <2>2. QED
    BY <1>3, <2>1, SizeAssumption DEF InRing, Slot
<1>5. RingInv
  BY <1>1, <1>3, <1>4 DEF RingInv, Init
<1>6. DOMAIN inbox = {}
  BY DEF Init
<1>7. PositionInv /\ LinkInv /\ TrafficInv
  BY <1>1, <1>3, <1>4, <1>6 DEF Init, PositionInv, LinkInv, TrafficInv
<1>8. QED
  BY <1>5, <1>7 DEF Good

\* The invariant is inductive.
LEMMA NextKeepsIInv == IInv /\ [Next]_vars => IInv'
<1> SUFFICES ASSUME IInv, [Next]_vars, fault' = "none" PROVE Good'
  <2>1. IInv /\ [Next]_vars => TypeInv'
    BY NextTypes DEF IInv
  <2>2. QED
    BY <2>1 DEF IInv
<1>1. fault = "none"
  BY DEF Next, Relay, vars, Store, Accept, Wake, Finish, FinishUnknown, FetchEnds, FetchFails,
     Connect, ConnectFails, SendCommand, SendBreaks, SendEnds, Answer, PeerCloses, PeerResets
<1>2. TypeInv /\ Good
  BY <1>1 DEF IInv
<1>3. CASE Relay
  <2>1. ~FinishUnknown
    BY <1>2, ResponseFound DEF FinishUnknown
  <2>2. QED
    BY <1>1, <1>2, <1>3, <2>1, WakeKeepsGood, FinishKeepsGood, FetchEndsKeepsGood, FetchFailsKeepsGood,
       ConnectKeepsGood, SendFailsKeepsGood, SendCommandKeepsGood, SendEndsKeepsGood DEF Relay
<1>4. CASE UNCHANGED vars
  <2>1. RingInv' /\ Length' = Length /\ Open' = Open /\ \A p : InRing(p)' = InRing(p)
    BY <1>2, <1>4, RingUnchanged DEF Good, vars, relay, queue
  <2>2. QED
    BY <1>2, <1>4, <2>1 DEF Good, PositionInv, LinkInv, TrafficInv, Answered, Dist, vars, relay, queue, client, env
<1>5. QED
  BY <1>1, <1>2, <1>3, <1>4, StoreKeepsGood, AcceptKeepsGood, AnswerKeepsGood, PeerBreaksKeepsGood DEF Next

\* The inductive invariant holds in every behaviour.
THEOREM Invariance == Spec => []IInv
<1>1. Init => IInv
  BY InitTypes, InitGood DEF IInv
<1>2. QED
  BY <1>1, NextKeepsIInv, PTL DEF Spec

\* For a ring of any size: until one of the two faults happens, the slots from completed to
\* accepted hold exactly the open requests, as many as there are slots, and none is ended
\* twice, whatever order responses come in and whenever connections break.
THEOREM RingIsRight == Spec => []RingHoldsOpenRequests
<1>1. IInv => RingHoldsOpenRequests
  <2> SUFFICES ASSUME IInv, fault = "none"
               PROVE  /\ {ring[p] : p \in Window(completed, accepted)} = Open
                      /\ Cardinality(Open) = Wrap(accepted - completed)
                      /\ \A r \in Request : ended[r] <= 1
    BY DEF RingHoldsOpenRequests
  <2>1. TypeInv /\ RingInv
    BY DEF IInv, Good
  <2>2. Window(completed, accepted) = {p \in Slot : InRing(p)}
    BY <2>1, WindowIs DEF TypeInv, InRing, Length
  <2>3. {ring[p] : p \in Window(completed, accepted)} = Open
    BY <2>1, <2>2 DEF RingInv
  <2>4. Wrap(accepted - completed) = Length
    BY <2>1, WrapDist DEF TypeInv, Length
  <2>5. QED
    BY <2>1, <2>3, <2>4 DEF RingInv
<1>2. QED
  BY Invariance, <1>1, PTL

\* For a ring of any size: until a fault, the relay forwards only requests that the block
\* layer has not got back.
THEOREM ForwardsOnlyOpen == Spec => ForwardsOpenRequests
<1>1. IInv /\ [Next]_vars => [fault = "none" => \A r \in Request : server'[r] > server[r] => r \in Open]_vars
  <2> SUFFICES ASSUME IInv, [Next]_vars, fault = "none", NEW r \in Request, server'[r] > server[r]
               PROVE  r \in Open
    OBVIOUS
  <2>1. TypeInv /\ Good
    BY DEF IInv
  <2>2. server[r] \in Nat
    BY <2>1 DEF TypeInv
  <2>3. CASE SendCommand
    <3>1. server' = [server EXCEPT ![ring[forwarded]] = @ + 1]
      BY <2>2, <2>3 DEF SendCommand
    <3>2. r = ring[forwarded]
      BY <2>1, <2>2, <3>1 DEF TypeInv
    <3>3. QED
      BY <2>1, <2>3, <3>2, SendCommandKeepsGood
  <2>4. CASE \E x \in Request : Answer(x)
    <3>1. PICK x \in Request : server' = [server EXCEPT ![x] = @ - 1]
      BY <2>4 DEF Answer
    <3>2. server'[r] = server[r] \/ server'[r] = server[r] - 1
      BY <2>1, <3>1 DEF TypeInv
    <3>3. QED
      BY <2>2, <3>2
  <2>5. CASE PeerCloses \/ PeerResets
    <3>1. server'[r] = 0
      BY <2>5 DEF PeerCloses, PeerResets
    <3>2. QED
      BY <2>2, <3>1
  <2>6. CASE server' = server
    BY <2>2, <2>6
  <2>7. QED
    BY <2>3, <2>4, <2>5, <2>6 DEF Next, Relay, vars, env, Store, Accept, Wake, Finish, FinishUnknown, FetchEnds,
       FetchFails, Connect, ConnectFails, SendBreaks, SendEnds
<1>2. QED
  BY Invariance, <1>1, PTL DEF Spec, ForwardsOpenRequests
=============================================================================
