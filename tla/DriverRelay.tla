------------------------------ MODULE DriverRelay ------------------------------
(***************************************************************************)
(* One relay thread of the Linux block driver (driver/atomic_disc_driver.c *)
(* and its connection, driver/atdd_tcp_client.c). The block layer puts     *)
(* requests in the ring of the relay, under the queue lock; the relay      *)
(* thread, without a lock, forwards them over TCP, ends them as the        *)
(* responses come, in any order, and forwards again what has no response   *)
(* when the connection breaks.                                             *)
(*                                                                         *)
(* Positions in the ring are uint8_t and wrap; here they wrap at Size. The *)
(* n-th request accepted has ident n. The register process at the other    *)
(* end, the socket and its callback are external.                          *)
(***************************************************************************)
EXTENDS Integers, Sequences, FiniteSets

CONSTANTS
    Size,         \* slots of the ring, and the modulus of positions: 256 in the code
    MaxRequests,  \* bound: requests submitted
    MaxBreaks     \* bound: connections that break

ASSUME SizeAssumption == Size \in Nat \ {0, 1}
ASSUME BoundsAssumption == MaxRequests \in Nat /\ MaxBreaks \in Nat

VARIABLES
    ring,       \* requests_buf: the request in each slot, 0 before the first
    accepted,   \* buf_accepted_pos
    forwarded,  \* buf_tcp_forwarded_pos
    completed,  \* buf_completed_pos
    storing,    \* submit_atdd_request has stored a request and not moved accepted yet
    requests,   \* number of requests accepted, what request_ident_counter counts
    pc,         \* "wait", "fetch" or "send": where atdd_main is
    budget,     \* cmds_to_send of atdd_send_accepted_requests
    pending,    \* pending.accepted_pos - pending.completed_pos
    connected,  \* the driver has a connection
    error,      \* set by the error callback of the socket
    link,       \* the connection: "none", "open", "fin", "dead" or "reset"
    inbox,      \* receive queue of the socket: idents of responses, Fin last
    server,     \* server[r]: commands for request r that the register process has
    breaks,     \* number of connections that broke
    ended,      \* ended[r]: calls of blk_end_request_all for request r
    fault       \* history: the first thing that put the positions wrong, or "none"

env == <<server, breaks>>
client == <<pending, connected, error, link, inbox>>
relay == <<pc, budget, forwarded, completed, ended>>
queue == <<accepted, storing, requests>>
vars == <<ring, relay, queue, client, env, fault>>

Request == 1 .. MaxRequests
Slot == 0 .. Size - 1
Fin == 0

\* Mutated Wrap: positions are ints.
NoWrap(n) == n

\* Arithmetic of uint8_t.
Wrap(n) == n % Size

\* Positions from p up to, not including, q.
Window(p, q) == {Wrap(p + i) : i \in 0 .. Wrap(q - p) - 1}

Open == {r \in 1 .. requests : ended[r] = 0}

-----------------------------------------------------------------------------
Init ==
    /\ ring = [p \in Slot |-> 0]
    /\ accepted = 0 /\ forwarded = 0 /\ completed = 0
    /\ storing = FALSE
    /\ requests = 0
    /\ pc = "wait"
    /\ budget = 0
    /\ pending = 0
    /\ connected = FALSE
    /\ error = FALSE
    /\ link = "none"
    /\ inbox = <<>>
    /\ server = [r \in Request |-> 0]
    /\ breaks = 0
    /\ ended = [r \in Request |-> 0]
    /\ fault = "none"

(***************************************************************************)
(* submit_atdd_request. The positions are promoted to int before they are  *)
(* subtracted, so the difference is negative once accepted has wrapped and *)
(* completed has not. A request that is refused goes to another relay.     *)
(***************************************************************************)
Full == accepted - completed = Size - 1

Store ==
    /\ ~storing /\ requests < MaxRequests
    /\ ~Full
    /\ ring' = [ring EXCEPT ![accepted] = requests + 1]
    /\ storing' = TRUE
    /\ fault' = IF fault = "none" /\ Cardinality(Open) >= Size - 1 THEN "overrun" ELSE fault
    /\ UNCHANGED <<relay, accepted, requests, client, env>>

Accept ==
    /\ storing
    /\ accepted' = Wrap(accepted + 1)
    /\ requests' = requests + 1
    /\ storing' = FALSE
    /\ UNCHANGED <<ring, relay, client, env, fault>>

-----------------------------------------------------------------------------
(***************************************************************************)
(* atdd_main                                                               *)
(***************************************************************************)
Min(a, b) == IF a < b THEN a ELSE b

\* atdd_cmds_to_send, with forwarded at f.
CmdsToSend(f) == Min(Wrap(accepted - f), Wrap(Size - 1 - Wrap(f - completed)))

HasData == inbox # <<>> /\ pending # 0

\* To atdd_send_accepted_requests, with forwarded at f.
StartSending(f) ==
    /\ forwarded' = f
    /\ budget' = CmdsToSend(f)
    /\ pc' = "send"

\* Mutated Wake: the error is noted and nothing is forwarded again.
WakeKeepsPosition ==
    /\ pc = "wait"
    /\ HasData \/ CmdsToSend(forwarded) # 0 \/ error
    /\ \/ HasData /\ pc' = "fetch" /\ UNCHANGED <<forwarded, budget>>
       \/ ~HasData /\ StartSending(forwarded)
    /\ error' = FALSE
    /\ UNCHANGED <<ring, completed, ended, queue, pending, connected, link, inbox, env, fault>>

\* The wait is over; a connection error makes the relay forward again.
Wake ==
    /\ pc = "wait"
    /\ HasData \/ CmdsToSend(forwarded) # 0 \/ error
    /\ LET f == IF error THEN completed ELSE forwarded IN
          \/ HasData /\ forwarded' = f /\ pc' = "fetch" /\ UNCHANGED budget
          \/ ~HasData /\ StartSending(f)
    /\ error' = FALSE
    /\ UNCHANGED <<ring, completed, ended, queue, pending, connected, link, inbox, env, fault>>

\* Where atdd_find_request_pos, which looks at every slot, can find request r.
Holds(r) == {p \in Slot : ring[p] = r}

\* Mutated Finish: the request that was first in the ring is taken to be the one answered.
FinishFirst ==
    LET r == Head(inbox) IN
    /\ pc = "fetch" /\ pending # 0
    /\ inbox # <<>> /\ r # Fin
    /\ completed' = Wrap(completed + 1)
    /\ ended' = [ended EXCEPT ![r] = @ + 1]
    /\ pending' = Wrap(pending - 1)
    /\ inbox' = Tail(inbox)
    /\ UNCHANGED <<ring, pc, budget, forwarded, queue, connected, error, link, env, fault>>

\* One response: atdd_fetch_command, and the end of the request, which changes places
\* with the first one not completed.
Finish ==
    LET r == Head(inbox)
        p == CHOOSE s \in Holds(r) : \A q \in Holds(r) : s <= q
    IN
    /\ pc = "fetch" /\ pending # 0
    /\ inbox # <<>> /\ r # Fin /\ Holds(r) # {}
    /\ ring' = [ring EXCEPT ![p] = ring[completed], ![completed] = r]
    /\ completed' = Wrap(completed + 1)
    /\ ended' = [ended EXCEPT ![r] = @ + 1]
    /\ pending' = Wrap(pending - 1)
    /\ inbox' = Tail(inbox)
    /\ UNCHANGED <<pc, budget, forwarded, queue, connected, error, link, env, fault>>

\* A response for a request that no slot holds: blk_end_request_all is called for an rq
\* that is uninitialised, or left from an earlier response.
FinishUnknown ==
    /\ pc = "fetch" /\ pending # 0
    /\ inbox # <<>> /\ Head(inbox) # Fin /\ Holds(Head(inbox)) = {}
    /\ \E r \in Request : ended' = [ended EXCEPT ![r] = @ + 1]
    /\ pending' = Wrap(pending - 1)
    /\ inbox' = Tail(inbox)
    /\ UNCHANGED <<ring, pc, budget, forwarded, completed, queue, connected, error, link, env, fault>>

\* No response is awaited.
FetchEnds ==
    /\ pc = "fetch" /\ pending = 0
    /\ StartSending(forwarded)
    /\ fault' = IF fault = "none" /\ forwarded # completed THEN "slipped" ELSE fault
    /\ UNCHANGED <<ring, completed, ended, queue, client, env>>

\* tcp_read meets the end of a broken connection; an open one it polls.
FetchFails ==
    /\ pc = "fetch" /\ pending # 0
    /\ \/ inbox # <<>> /\ Head(inbox) = Fin /\ inbox' = <<>>
       \/ inbox = <<>> /\ link # "open" /\ UNCHANGED inbox
    /\ StartSending(completed)
    /\ UNCHANGED <<ring, completed, ended, queue, pending, connected, error, link, env, fault>>

Connect ==
    /\ pc = "send" /\ budget # 0 /\ ~connected
    /\ connected' = TRUE
    /\ error' = FALSE
    /\ link' = "open"
    /\ UNCHANGED <<ring, relay, queue, pending, inbox, env, fault>>

\* Mutated SendFails: the whole ring is forwarded again.
SendFailsFromStart ==
    /\ forwarded' = 0
    /\ pc' = "wait"

\* A send error: forward again, after a pause.
SendFails ==
    /\ forwarded' = completed
    /\ pc' = "wait"

\* No address of the configuration accepts a connection.
ConnectFails ==
    /\ pc = "send" /\ budget # 0 /\ ~connected
    /\ SendFails
    /\ UNCHANGED <<ring, completed, budget, ended, queue, client, env, fault>>

\* tcp_send succeeds; when the peer has closed, what is sent is answered by a reset.
SendCommand ==
    LET r == ring[forwarded] IN
    /\ pc = "send" /\ budget # 0
    /\ connected /\ link # "reset"
    /\ \/ link = "open" /\ server' = [server EXCEPT ![r] = @ + 1] /\ UNCHANGED link
       \/ link # "open" /\ link' = "dead" /\ UNCHANGED server
    /\ pending' = Wrap(pending + 1)
    /\ forwarded' = Wrap(forwarded + 1)
    /\ budget' = budget - 1
    /\ UNCHANGED <<ring, pc, completed, ended, queue, connected, error, inbox, breaks, fault>>

\* tcp_send fails: atdd_disconnect.
SendBreaks ==
    /\ pc = "send" /\ budget # 0
    /\ connected /\ link = "reset"
    /\ connected' = FALSE
    /\ link' = "none"
    /\ inbox' = <<>>
    /\ pending' = 0
    /\ SendFails
    /\ UNCHANGED <<ring, completed, budget, ended, queue, error, env, fault>>

SendEnds ==
    /\ pc = "send" /\ budget = 0
    /\ pc' = "wait"
    /\ UNCHANGED <<ring, budget, forwarded, completed, ended, queue, client, env, fault>>

-----------------------------------------------------------------------------
(***************************************************************************)
(* The other end: it answers in any order; it crashes, and its system      *)
(* closes the connection or resets it; responses that came before stay in  *)
(* the receive queue.                                                      *)
(***************************************************************************)
Answer(r) ==
    /\ link = "open" /\ server[r] > 0
    /\ server' = [server EXCEPT ![r] = @ - 1]
    /\ inbox' = Append(inbox, r)
    /\ UNCHANGED <<ring, relay, queue, pending, connected, error, link, breaks, fault>>

PeerCloses ==
    /\ link = "open" /\ breaks < MaxBreaks
    /\ breaks' = breaks + 1
    /\ link' = "fin"
    /\ inbox' = Append(inbox, Fin)
    /\ server' = [r \in Request |-> 0]
    /\ UNCHANGED <<ring, relay, queue, pending, connected, error, fault>>

PeerResets ==
    /\ link = "dead" \/ (link = "open" /\ breaks < MaxBreaks)
    /\ breaks' = IF link = "open" THEN breaks + 1 ELSE breaks
    /\ link' = "reset"
    /\ error' = TRUE
    /\ server' = [r \in Request |-> 0]
    /\ UNCHANGED <<ring, relay, queue, pending, connected, inbox, fault>>

-----------------------------------------------------------------------------
Relay ==
    \/ Wake \/ Finish \/ FinishUnknown \/ FetchEnds \/ FetchFails
    \/ Connect \/ ConnectFails \/ SendCommand \/ SendBreaks \/ SendEnds

Next ==
    \/ Store
    \/ Accept
    \/ Relay
    \/ \E r \in Request : Answer(r)
    \/ PeerCloses
    \/ PeerResets

Spec == Init /\ [][Next]_vars

\* The thread runs and submit_atdd_request returns; of repeated attempts to connect one
\* succeeds; a register process answers what it has received while its connection
\* lasts, and a closed one resets what it is still sent.
Fairness ==
    /\ WF_vars(Relay)
    /\ SF_vars(Connect)
    /\ WF_vars(Accept)
    /\ \A r \in Request : WF_vars(Answer(r))
    /\ WF_vars(link = "dead" /\ PeerResets)

FairSpec == Spec /\ Fairness

-----------------------------------------------------------------------------
(***************************************************************************)
(* Properties. They hold until a fault: a request put in a ring that holds *)
(* Size - 1 open requests (overrun), or responses read after the error of  *)
(* their connection was seen, until none is awaited (slipped).             *)
(***************************************************************************)
\* Every variable stays in its type.
TypeOK ==
    /\ ring \in [Slot -> 0 .. MaxRequests]
    /\ {accepted, forwarded, completed, budget, pending} \subseteq Slot
    /\ requests \in 0 .. MaxRequests
    /\ inbox \in Seq(0 .. MaxRequests)
    /\ server \in [Request -> Nat]
    /\ ended \in [Request -> Nat]

\* The slots from completed to accepted hold exactly the requests that are accepted and
\* not ended, each once, and no request is ended twice: swapping on completion, wrapping
\* positions, forwarding again after errors and storing beside the relay lose none.
RingHoldsOpenRequests ==
    fault = "none" =>
        /\ {ring[p] : p \in Window(completed, accepted)} = Open
        /\ Cardinality(Open) = Wrap(accepted - completed)
        /\ \A r \in Request : ended[r] <= 1

\* Only open requests are forwarded: the relay never reads a request that the block
\* layer has back.
ForwardsOpenRequests ==
    [][fault = "none" => \A r \in Request : server'[r] > server[r] => r \in Open]_vars

\* Every accepted request is ended, however often the connection breaks.
EveryRequestEnds ==
    \A r \in Request : requests >= r ~> (ended[r] > 0 \/ fault # "none")
=============================================================================
