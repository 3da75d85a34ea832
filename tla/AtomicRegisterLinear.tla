------------------------ MODULE AtomicRegisterLinear ------------------------
(***************************************************************************)
(* The registers of AtomicRegister are linearizable as long as every       *)
(* choice was the highest: the versions of the writes that took effect,    *)
(* and the order of the operations that they give.                         *)
(***************************************************************************)
EXTENDS AtomicRegisterProofs

-----------------------------------------------------------------------------
(***************************************************************************)
(* The copy the system started with                                        *)
(***************************************************************************)
LEMMA StartCopyType ==
  StartCopy \in Genuine /\ StartCopy \in Copy /\ InitialCopy \in StartCopies
<1>1. \A p \in Proc : InitialFiles[p] \subseteq Genuine
  BY FilesAssumption, Zenon DEF Genuine
<1>2. PICK dir : dir = UNION {InitialFiles[p] : p \in Proc}
  BY Zenon
<1>3. StartCopy \in Genuine /\ InitialCopy \in Copy
  <2>1. dir \subseteq Genuine
    BY <1>1, <1>2, Zenon
  <2>2. StartCopy = Recovered(dir)
    BY <1>2, Zenon DEF StartCopy
  <2>3. StartCopy \in dir \union {InitialCopy}
    BY <2>2, RecoveredIsAFile, Zenon
  <2>4. QED
    BY <2>1, <2>3, InitialCopyType, Zenon DEF Genuine
<1>4. StartCopy = InitialCopy \/ Newer(StartCopy, InitialCopy)
  BY <1>3, Zenon DEF Genuine, Newer, InitialCopy, Copy
<1>5. QED
  BY <1>3, <1>4, Zenon DEF Genuine, StartCopies

LEMMA SeesStartKept ==
  ASSUME IInv, IInv', KindInv, CommandInv, CopiesIn(Genuine), DiskInv, [Next]_vars, lexical',
         NEW q \in Proc, SeesStart(q)
  PROVE  SeesStart(q)'
<1>1. TypeOK /\ TypeOK' /\ lexical
  BY FileSteps, Zenon DEF IInv
<1>2. ~Newer(StartCopy, Recovered(files'[q]))
  <2>1. ~Newer(StartCopy, Recovered(files[q])) /\ ~Newer(Recovered(files[q]), Recovered(files'[q]))
    BY <1>1, DiskNext, Zenon DEF SeesStart
  <2>2. Recovered(files[q]) \in Copy /\ Recovered(files'[q]) \in Copy
    BY <1>1, RecoveredType, Zenon DEF TypeOK
  <2>3. QED
    BY <2>1, <2>2, StartCopyType, NoOlder, Zenon
<1>3. ASSUME NEW v \in msgs', v.type = "Value", v.from = q PROVE ~Newer(StartCopy, v.copy)
  <2>1. CASE v \in msgs
    BY <1>3, <2>1, Zenon DEF SeesStart
  <2>2. CASE NewMessage(v)
    BY <1>1, <1>3, <2>2, HoldsRecovered, Zenon DEF NewMessage, SeesStart
  <2>3. QED
    BY <2>1, <2>2, MessageSteps, Zenon DEF CommandInv
<1>4. ASSUME NEW p \in Proc, q \in DOMAIN readlist'[p] PROVE ~Newer(StartCopy, readlist'[p][q])
  <2>1. (q \in DOMAIN readlist[p] /\ readlist'[p][q] = readlist[p][q]) \/ FromValue(p, q)
    BY <1>1, <1>4, ReadlistSteps, Zenon DEF Counted
  <2>2. QED
    BY <2>1, Zenon DEF SeesStart, FromValue
<1>5. QED
  BY <1>2, <1>3, <1>4, Zenon DEF SeesStart

\* The highest copy of a majority is not older than the one the system started with.
LEMMA ChosenNotStale ==
  ASSUME Settled, IInv, DiskInv, lexical, StartInv, NEW p \in Proc, NEW m \in msgs, m.type = "Value",
         worker[p] = "running", Majority(DOMAIN ReadlistWith(p, m)),
         NEW c \in Newest(Candidates(p, m)), c \in Copy
  PROVE  /\ ~Newer(StartCopy, c)
         /\ Newer(NextCopy(p, c), StartCopy)
<1>1. PICK Q : Q = {q \in Proc : Recovered(InitialFiles[q]) = StartCopy}
  BY Zenon
<1>2. Q \in SUBSET Proc /\ 2 * Cardinality(Q) > N /\ \A q \in Q : SeesStart(q)
  BY <1>1, Zenon DEF Settled, StartInv
<1>3. p \in Q => ~Newer(StartCopy, sec[p])
  BY <1>2, HoldsRecovered, Zenon DEF IInv, SeesStart
<1>4. /\ m.from \in Q => ~Newer(StartCopy, m.copy)
      /\ \A q \in Q : q \in DOMAIN readlist[p] => ~Newer(StartCopy, readlist[p][q])
  BY <1>2, Zenon DEF SeesStart
<1>5. ~Newer(StartCopy, c)
  BY <1>2, <1>3, <1>4, StartCopyType, HighestNotOlder, Zenon DEF IInv
<1>6. NextCopy(p, c).ts = c.ts + 1
  BY Zenon DEF NextCopy
<1>7. QED
  BY <1>5, <1>6, StartCopyType DEF Newer, Copy

LEMMA StartNext ==
  ASSUME Settled, IInv, IInv', KindInv, CommandInv, CopiesIn(Genuine), DiskInv, StartInv, [Next]_vars
  PROVE  StartInv'
<1> SUFFICES ASSUME lexical'
             PROVE  /\ \A q \in Proc : Recovered(InitialFiles[q]) = StartCopy => SeesStart(q)'
                    /\ \A w \in proposed' : ~Newer(StartCopy, w.copy)
  BY Zenon DEF StartInv
<1>1. lexical /\ ProposeStep
  BY FileSteps, ProposalSteps, Zenon DEF IInv
<1>2. \A q \in Proc : Recovered(InitialFiles[q]) = StartCopy => SeesStart(q)'
  BY <1>1, SeesStartKept, Zenon DEF StartInv
<1>3. ASSUME NEW w \in proposed', NEW p \in Proc, NEW m \in msgs, NEW c, Proposes(p, m, c, w)
      PROVE  ~Newer(StartCopy, w.copy)
  <2>1. /\ worker[p] = "running" /\ m.type = "Value" /\ Majority(DOMAIN ReadlistWith(p, m))
        /\ c \in Chosen(p, m) /\ c \in Newest(Candidates(p, m))
        /\ w.copy = c \/ w.copy = NextCopy(p, c)
    BY <1>3, Zenon DEF Proposes
  <2>2. c \in Copy /\ NextCopy(p, c) \in Copy
    BY <2>1, ChosenType, Zenon DEF IInv
  <2>3. ~Newer(StartCopy, c) /\ Newer(NextCopy(p, c), StartCopy)
    BY <1>1, <2>1, <2>2, ChosenNotStale, Zenon
  <2>4. QED
    BY <2>1, <2>2, <2>3, StartCopyType, NewerIrreflexive, Zenon
<1>4. QED
  BY <1>1, <1>2, <1>3, Zenon DEF ProposeStep, StartInv

LEMMA StartInit ==
  ASSUME Init
  PROVE  StartInv /\ EarlierInv
<1>1. /\ DOMAIN hist = {} /\ msgs = {} /\ proposed = {} /\ files = InitialFiles
      /\ \A p \in Proc : readlist[p] = EmptyMap
  BY DEF Init
<1>2. ~Newer(StartCopy, StartCopy)
  BY StartCopyType DEF Newer, Copy
<1>3. QED
  BY <1>1, <1>2, Zenon DEF StartInv, SeesStart, EarlierInv, EmptyMap

LEMMA EarlierNext ==
  ASSUME IInv, KindInv, EarlierInv, [Next]_vars
  PROVE  EarlierInv'
<1>1. \A i \in DOMAIN hist : hist'[i].before = hist[i].before
  BY HistoryKept, Zenon
<1>2. ASSUME DOMAIN hist' = DOMAIN hist PROVE EarlierInv'
  BY <1>1, <1>2, Zenon DEF EarlierInv
<1>3. CASE NoCommand
  BY <1>2, <1>3, Zenon DEF NoCommand
<1>4. ASSUME NEW p \in Proc, NEW kind \in {"Read", "Write"}, NEW data \in Data,
             ClientCommand(p, kind, data)
      PROVE  EarlierInv'
  <2>1. PICK op : hist' = Append(hist, op) /\ op.before = Returned
    BY <1>4 DEF ClientCommand
  <2>2. hist \in Seq(ClientOp)
    BY Zenon DEF IInv, TypeOK
  <2>3. \A i \in DOMAIN hist' : i \in DOMAIN hist \/ (i = Len(hist) + 1 /\ hist'[i].before = Returned)
    BY <2>1, <2>2
  <2>4. \A j \in Returned : j < Len(hist) + 1
    BY <2>2 DEF Returned
  <2>5. QED
    BY <1>1, <2>3, <2>4, Zenon DEF EarlierInv
<1>5. ASSUME NEW p \in Proc, NEW m \in msgs, AckCompletes(p, m) PROVE EarlierInv'
  <2>1. DOMAIN hist' = DOMAIN hist
    BY <1>5, Zenon DEF AckCompletes, Respond
  <2>2. QED
    BY <1>2, <2>1, Zenon
<1>6. QED
  BY <1>3, <1>4, <1>5, HistorySteps, Zenon DEF IInv

-----------------------------------------------------------------------------
(***************************************************************************)
(* The writes that took effect                                             *)
(***************************************************************************)
\* An operation that has not reached its write phase is one that had not, or the
\* command has just come.
FreshStep ==
    \A p \in Proc : (callback'[p] # NoOp /\ ~write_phase'[p]) =>
        \/ callback[p] # NoOp /\ ~write_phase[p] /\ op_id'[p] = op_id[p]
        \/ op_id'[p] \notin DOMAIN hist

LEMMA FreshSteps ==
  ASSUME TypeOK, [Next]_vars
  PROVE  FreshStep
<1> USE DEF FreshStep
<1>1. ASSUME UNCHANGED <<op_id, callback, write_phase>> PROVE FreshStep
  BY <1>1, Zenon
<1>2. ASSUME NEW p \in Proc, callback' = [callback EXCEPT ![p] = NoOp],
             \A q \in Proc \ {p} : op_id'[q] = op_id[q] /\ write_phase'[q] = write_phase[q]
      PROVE  FreshStep
  BY <1>2, Zenon DEF TypeOK
<1>3. ASSUME NEW p \in Proc, ForgetOperation(p) PROVE FreshStep
  BY <1>2, <1>3, Zenon DEF ForgetOperation, TypeOK
<1>4. ASSUME NEW p \in Proc, NEW c, EnterWritePhase(p, c) PROVE FreshStep
  BY <1>4, Zenon DEF EnterWritePhase, TypeOK
<1>5. CASE UNCHANGED vars
  BY <1>1, <1>5, Zenon DEF vars, opVars
<1>6. ASSUME NEW p \in Proc, ReadCommand(p) \/ WriteCommand(p) PROVE FreshStep
  <2>1. PICK kind, data : ClientCommand(p, kind, data)
    BY <1>6, Zenon DEF ReadCommand, WriteCommand
  <2>2. /\ op_id' = [op_id EXCEPT ![p] = Len(hist) + 1] /\ write_phase' = write_phase
        /\ callback' = [callback EXCEPT ![p] = Len(hist) + 1]
    BY <2>1, Zenon DEF ClientCommand
  <2>3. Len(hist) + 1 \notin DOMAIN hist
    <3>1. hist \in Seq(ClientOp)
      BY Zenon DEF TypeOK
    <3>2. QED
      BY <3>1
  <2>4. QED
    BY <2>2, <2>3, Zenon DEF TypeOK
<1>7. ASSUME NEW p \in Proc, Crash(p) \/ Recover(p) PROVE FreshStep
  BY <1>3, <1>7, Zenon DEF Crash, GoDown, Recover
<1>8. ASSUME NEW p \in Proc, NEW m \in msgs, SystemCommand(p, m) PROVE FreshStep
  <2>1. CASE ReadProc(p, m) \/ ReplyWithoutOperation(p, m) \/ WriteProcOld(p, m)
    BY <1>1, <2>1, Zenon DEF ReadProc, ReplyWithoutOperation, WriteProcOld, opVars
  <2>2. CASE ValueRecorded(p, m) \/ AckRecorded(p, m)
    BY <1>1, <2>2, Zenon DEF ValueRecorded, AckRecorded
  <2>3. CASE ValueQuorumReading(p, m) \/ ValueQuorumWriting(p, m)
    <3>1. (\E c : EnterWritePhase(p, c)) \/ ForgetOperation(p)
      BY <2>3, Zenon DEF ValueQuorumReading, ValueQuorumWriting, GoDown
    <3>2. QED
      BY <1>3, <1>4, <3>1, Zenon
  <2>4. CASE WriteProcStored(p, m)
    <3>1. UNCHANGED opVars \/ ForgetOperation(p)
      BY <2>4, Zenon DEF WriteProcStored, GoDown
    <3>2. QED
      BY <1>1, <1>3, <3>1, Zenon DEF opVars
  <2>5. CASE AckCompletes(p, m)
    <3>1. /\ callback' = [callback EXCEPT ![p] = NoOp] /\ op_id' = op_id
          /\ write_phase' = [write_phase EXCEPT ![p] = FALSE]
      BY <2>5, Zenon DEF AckCompletes, Respond
    <3>2. QED
      BY <1>2, <3>1, Zenon DEF TypeOK
  <2>6. QED
    BY <1>8, <2>1, <2>2, <2>3, <2>4, <2>5, Zenon DEF SystemCommand
<1>9. QED
  BY <1>5, <1>6, <1>7, <1>8, Zenon DEF Next

\* An operation that sends out a copy is pending: no command comes after it.
LEMMA NewProposalPending ==
  ASSUME IInv, CommandInv, [Next]_vars, NEW w \in proposed', w \notin proposed
  PROVE  \A i \in DOMAIN hist : w.id \notin hist[i].before
<1>1. PICK p \in Proc : \E m \in msgs : \E c : Proposes(p, m, c, w)
  BY ProposalSteps, Zenon DEF ProposeStep
<1>2. w.id = op_id[p] /\ callback[p] # NoOp
  BY <1>1, Zenon DEF Proposes
<1>3. QED
  BY <1>2, Zenon DEF CommandInv, Returned

\* A step without a write makes no copy.
LEMMA MadeKept ==
  ASSUME IInv, KindInv, CommandInv, [Next]_vars, NEW M, MadeBy(M),
         \A p \in Proc : \A m \in msgs : ~ValueQuorumWriting(p, m)
  PROVE  MadeBy(M)'
<1>1. /\ \A i \in DOMAIN hist : /\ i \in DOMAIN hist' /\ hist'[i].kind = hist[i].kind
                                /\ hist'[i].before = hist[i].before /\ hist'[i].proc = hist[i].proc
                                /\ hist[i].kind = "Write" => hist'[i].data = hist[i].data
      /\ ProposeStep /\ TypeOK
  BY HistoryKept, ProposalSteps, Zenon DEF IInv
<1>2. \A u \in M : u.id \in DOMAIN hist /\ hist[u.id].kind = "Write"
  BY Zenon DEF MadeBy, Writes
<1>3. ASSUME NEW u \in M
      PROVE  /\ u.id \in Writes'
             /\ u.copy.wr = hist'[u.id].proc /\ u.copy.val = hist'[u.id].data
             /\ Held(hist'[u.id].proc, u.copy) \in stored'
             /\ Newer(u.copy, StartCopy)
  BY <1>1, <1>2, Zenon DEF MadeBy, Writes, ProposeStep
<1>4. CopiesIn(StartCopies \union {u.copy : u \in M})'
  <2>1. PICK G : G = StartCopies \union {u.copy : u \in M}
    BY Zenon
  <2>2. CopiesIn(G) /\ InitialCopy \in G
    BY <2>1, StartCopyType, Zenon DEF MadeBy
  <2>3. CopiesIn(G)'
    BY <1>1, <2>2, CopiesStay, Zenon
  <2>4. QED
    BY <2>1, <2>3, Zenon
<1>5. ASSUME NEW w \in proposed', hist'[w.id].kind = "Write" PROVE w \in M
  <2>1. CASE w \in proposed
    <3>1. w.id \in DOMAIN hist
      BY <2>1, Zenon DEF IInv, OpsInv, ProposalInv
    <3>2. QED
      BY <1>1, <1>5, <2>1, <3>1, Zenon DEF MadeBy
  <2>2. ASSUME NEW p \in Proc, NEW m \in msgs, NEW c, Proposes(p, m, c, w) PROVE FALSE
    BY <1>5, <2>2, Zenon DEF Proposes, KindInv
  <2>3. QED
    BY <1>1, <2>1, <2>2, Zenon DEF ProposeStep
<1>6. ASSUME NEW u \in M, NEW w \in proposed', w.id \in hist'[u.id].before PROVE Newer(u.copy, w.copy)
  BY <1>1, <1>2, <1>6, NewProposalPending, Zenon DEF MadeBy
<1>7. ASSUME NEW p \in Proc, callback'[p] # NoOp, ~write_phase'[p], NEW u \in M PROVE u.id # op_id'[p]
  BY <1>1, <1>2, <1>7, FreshSteps, Zenon DEF FreshStep, MadeBy
<1>8. M \subseteq [id : OpId, copy : Copy] /\ \A u, v \in M : u = v \/ (u.id # v.id /\ ~SameVersion(u.copy, v.copy))
  BY Zenon DEF MadeBy
<1>9. QED
  BY <1>3, <1>4, <1>5, <1>6, <1>7, <1>8, Zenon DEF MadeBy

\* A write that has a majority of Values.
LEMMA WriteChooses ==
  ASSUME IInv, KindInv, [Next]_vars, lexical', NEW p \in Proc, NEW m \in msgs, ValueQuorumWriting(p, m)
  PROVE  \E c : /\ WriteOutcome(p, c) /\ lexical /\ c \in Chosen(p, m) /\ c \in Newest(Candidates(p, m))
                /\ c \in Copy /\ NextCopy(p, c) \in Copy /\ Newer(NextCopy(p, c), sec[p])
<1>1. PICK c \in Chosen(p, m) : WriteOutcome(p, c) /\ lexical' = (lexical /\ c \in Newest(Candidates(p, m)))
  BY Zenon DEF ValueQuorumWriting, WriteOutcome
<1>2. m.type = "Value"
  BY Zenon DEF ValueQuorumWriting, ValueCounts, Delivered
<1>3. lexical /\ c \in Newest(Candidates(p, m))
  BY <1>1, Zenon
<1>4. QED
  BY <1>1, <1>2, <1>3, ChosenType, NextIsNewer, Zenon DEF IInv

\* The version of a write is none that a write has had.
LEMMA NewVersion ==
  ASSUME TypeOK, DiskInv, lexical, NEW p \in Proc, worker[p] = "running", NEW d \in Copy, d.wr = p,
         Newer(d, sec[p]), NEW e \in Copy, NEW q \in Proc, e.wr = q, Held(q, e) \in stored
  PROVE  ~SameVersion(d, e)
<1>1. CASE q # p
  BY <1>1, Zenon DEF SameVersion
<1>2. CASE q = p
  <2>1. ~Newer(Held(p, e), Recovered(files[p]))
    BY <1>2, Zenon DEF DiskInv, Held
  <2>2. Recovered(files[p]) = sec[p] /\ sec[p] \in Copy
    BY HoldsRecovered, Zenon
  <2>3. ~Newer(e, sec[p])
    BY <2>1, <2>2, Zenon DEF Held, Newer
  <2>4. QED
    BY <2>2, <2>3, Zenon DEF SameVersion, Newer
<1>3. QED
  BY <1>1, <1>2, Zenon

\* A write makes one copy, which is newer than those of the operations before it.
LEMMA MadeNew ==
  ASSUME Settled, IInv, KindInv, CommandInv, DiskInv, QuorumInv, StartInv, [Next]_vars, lexical',
         NEW M, MadeBy(M), NEW p \in Proc, NEW m \in msgs, ValueQuorumWriting(p, m)
  PROVE  \E L : MadeBy(L)'
<1>1. PICK c : /\ WriteOutcome(p, c) /\ lexical /\ c \in Chosen(p, m) /\ c \in Newest(Candidates(p, m))
               /\ c \in Copy /\ NextCopy(p, c) \in Copy /\ Newer(NextCopy(p, c), sec[p])
  BY WriteChooses, Zenon
<1>2. /\ worker[p] = "running" /\ m.type = "Value" /\ m.id = op_id[p] /\ op_id[p] # NoOp
      /\ ~write_phase[p] /\ Majority(DOMAIN ReadlistWith(p, m)) /\ writing[p]
  BY Zenon DEF ValueQuorumWriting, ValueCounts, Delivered, ReadQuorum
<1>3. PICK id : id = op_id[p]
  BY Zenon
<1>4. /\ id \in Writes /\ hist[id].proc = p /\ hist[id].data = writeval[p] /\ callback[p] # NoOp
      /\ id \in OpId
  <2>1. /\ id \in DOMAIN hist /\ hist[id].proc = p /\ hist[id].data = writeval[p] /\ callback[p] # NoOp
    BY <1>2, <1>3, Zenon DEF IInv, OpsInv, OperationInv
  <2>2. hist[id].kind = "Write"
    BY <1>2, <1>3, Zenon DEF KindInv
  <2>3. op_id[p] \in OpId
    BY <1>2, Zenon DEF IInv, TypeOK
  <2>4. QED
    BY <1>3, <2>1, <2>2, <2>3, Zenon DEF Writes
<1>5. PICK d : d = NextCopy(p, c)
  BY Zenon
<1>6. d \in Copy /\ d.wr = p /\ d.val = hist[id].data /\ Newer(d, sec[p]) /\ Newer(d, StartCopy)
  <2>1. d.wr = p /\ d.val = writeval[p]
    BY <1>5, Zenon DEF NextCopy
  <2>2. Newer(NextCopy(p, c), StartCopy)
    BY <1>1, <1>2, ChosenNotStale, Zenon
  <2>3. QED
    BY <1>1, <1>4, <1>5, <2>1, <2>2, Zenon
<1>7. hist' = hist /\ stored' = stored \union {Held(p, d)}
  BY <1>1, <1>5, Zenon DEF WriteOutcome, StoreReturns, StorePanics, StoreIsCutShort, GoDown
<1>8. \A w \in proposed' : w \in proposed \/ w = [id |-> id, copy |-> d]
  BY <1>1, <1>3, <1>5, Zenon DEF WriteOutcome, BroadcastWriteProc, sendVars, GoDown
<1>9. PICK u : u = [id |-> id, copy |-> d]
  BY Zenon
<1>10. u \in [id : OpId, copy : Copy] /\ u.id = id /\ u.copy = d
  BY <1>4, <1>6, <1>9, Zenon
<1>11. PICK L : L = M \union {u}
  BY Zenon
<1>12. L \subseteq [id : OpId, copy : Copy]
  BY <1>10, <1>11, Zenon DEF MadeBy
<1>13. ASSUME NEW v \in L
       PROVE  /\ v.id \in Writes'
              /\ v.copy.wr = hist'[v.id].proc /\ v.copy.val = hist'[v.id].data
              /\ Held(hist'[v.id].proc, v.copy) \in stored'
              /\ Newer(v.copy, StartCopy)
  <2>1. CASE v \in M
    BY <1>7, <2>1, Zenon DEF MadeBy, Writes
  <2>2. CASE v = u
    BY <1>4, <1>6, <1>7, <1>10, <2>2, Zenon DEF Writes
  <2>3. QED
    BY <1>11, <2>1, <2>2, Zenon
<1>14. ASSUME NEW v \in M PROVE v.id # id /\ ~SameVersion(d, v.copy)
  <2>1. /\ v.copy \in Copy /\ v.copy.wr = hist[v.id].proc /\ v.id \in DOMAIN hist
        /\ Held(hist[v.id].proc, v.copy) \in stored
    BY Zenon DEF MadeBy, Writes
  <2>2. hist[v.id].proc \in Proc
    <3>1. hist \in Seq(ClientOp)
      BY Zenon DEF IInv, TypeOK
    <3>2. hist[v.id] \in ClientOp
      BY <2>1, <3>1
    <3>3. QED
      BY <3>2, Zenon DEF ClientOp
  <2>3. ~SameVersion(d, v.copy)
    BY <1>1, <1>2, <1>6, <2>1, <2>2, NewVersion, Zenon DEF IInv
  <2>4. QED
    BY <1>2, <1>3, <1>4, <2>3, Zenon DEF MadeBy
<1>15. ASSUME NEW v \in L, NEW w \in L PROVE v = w \/ (v.id # w.id /\ ~SameVersion(v.copy, w.copy))
  <2>1. \A f, g : SameVersion(f, g) => SameVersion(g, f)
    BY Zenon DEF SameVersion
  <2>2. QED
    BY <1>10, <1>11, <1>14, <2>1, Zenon DEF MadeBy
<1>16. CopiesIn(StartCopies \union {v.copy : v \in L})'
  <2>1. PICK G : G = StartCopies \union {v.copy : v \in L}
    BY Zenon
  <2>2. CopiesIn(G)
    <3>1. StartCopies \union {v.copy : v \in M} \subseteq G
      BY <1>11, <2>1, Zenon
    <3>2. CopiesIn(StartCopies \union {v.copy : v \in M})
      BY Zenon DEF MadeBy
    <3>3. QED
      BY <3>1, <3>2, Zenon DEF CopiesIn
  <2>3. InitialCopy \in G /\ NextCopy(p, c) \in G
    BY <1>5, <1>10, <1>11, <2>1, StartCopyType, Zenon
  <2>4. CopiesIn(G)'
    BY <1>1, <2>2, <2>3, WriteCopies, Zenon DEF IInv
  <2>5. QED
    BY <2>1, <2>4, Zenon
<1>17. ASSUME NEW w \in proposed', hist'[w.id].kind = "Write" PROVE w \in L
  BY <1>7, <1>8, <1>9, <1>11, <1>17, Zenon DEF MadeBy
<1>18. ASSUME NEW v \in L, NEW w \in proposed', w.id \in hist'[v.id].before PROVE Newer(v.copy, w.copy)
  <2>1. v.id \in DOMAIN hist
    BY <1>7, <1>13, Zenon DEF Writes
  <2>2. w \in proposed
    BY <1>7, <1>18, <2>1, NewProposalPending, Zenon
  <2>3. CASE v \in M
    BY <1>7, <1>18, <2>2, <2>3, Zenon DEF MadeBy
  <2>4. CASE v = u
    <3>1. ~Newer(w.copy, c)
      BY <1>1, <1>2, <1>3, <1>7, <1>10, <1>18, <2>2, <2>4, ChosenNotOlder, Zenon
    <3>2. w.copy \in Copy
      BY <2>2, Zenon DEF IInv, TypeOK
    <3>3. d.ts = c.ts + 1
      BY <1>5, Zenon DEF NextCopy
    <3>4. Newer(d, w.copy)
      BY <1>1, <1>6, <3>1, <3>2, <3>3 DEF Newer, Copy
    <3>5. QED
      BY <1>10, <2>4, <3>4, Zenon
  <2>5. QED
    BY <1>11, <2>3, <2>4, Zenon
<1>19. ASSUME NEW q \in Proc, callback'[q] # NoOp, ~write_phase'[q], NEW v \in L PROVE v.id # op_id'[q]
  <2>1. q # p
    BY <1>1, <1>19, Zenon DEF WriteOutcome, EnterWritePhase, GoDown, ForgetOperation, IInv, TypeOK
  <2>2. op_id'[q] \notin DOMAIN hist \/ (callback[q] # NoOp /\ ~write_phase[q] /\ op_id'[q] = op_id[q])
    BY <1>19, FreshSteps, Zenon DEF FreshStep, IInv
  <2>3. v.id \in DOMAIN hist
    BY <1>7, <1>13, Zenon DEF Writes
  <2>4. CASE v \in M
    BY <2>2, <2>3, <2>4, Zenon DEF MadeBy
  <2>5. CASE v = u
    <3>1. callback[q] # NoOp => op_id[q] # NoOp /\ hist[op_id[q]].proc = q
      BY Zenon DEF IInv, OpsInv, OperationInv
    <3>2. QED
      BY <1>4, <1>10, <2>1, <2>2, <2>3, <2>5, <3>1, Zenon
  <2>6. QED
    BY <1>11, <2>4, <2>5, Zenon
<1>20. MadeBy(L)'
  BY <1>12, <1>13, <1>15, <1>16, <1>17, <1>18, <1>19, Zenon DEF MadeBy
<1>21. QED
  BY <1>20, Zenon

LEMMA MadeNext ==
  ASSUME Settled, IInv, KindInv, CopiesIn(Genuine), DiskInv, OrderInv, StartInv, MadeInv, [Next]_vars
  PROVE  MadeInv'
<1> SUFFICES ASSUME lexical' PROVE \E M : MadeBy(M)'
  BY Zenon DEF MadeInv
<1>1. lexical
  BY FileSteps, Zenon DEF IInv
<1>2. PICK M : MadeBy(M)
  BY <1>1, Zenon DEF MadeInv
<1>3. CASE \A p \in Proc : \A m \in msgs : ~ValueQuorumWriting(p, m)
  BY <1>2, <1>3, MadeKept, Zenon DEF OrderInv
<1>4. CASE \E p \in Proc : \E m \in msgs : ValueQuorumWriting(p, m)
  BY <1>2, <1>4, MadeNew, Zenon DEF OrderInv
<1>5. QED
  BY <1>3, <1>4, Zenon

LEMMA MadeInit ==
  ASSUME Init, Settled
  PROVE  MadeInv
<1>1. /\ proposed = {} /\ msgs = {} /\ files = InitialFiles
      /\ \A p \in Proc : callback[p] = NoOp /\ readlist[p] = EmptyMap /\ sec[p] = Recovered(InitialFiles[p])
  BY Zenon DEF Init
<1>2. \A p \in Proc : InitialFiles[p] \subseteq Copy
  BY FilesAssumption, Zenon
<1>3. \A p \in Proc : InitialFiles[p] \subseteq StartCopies
  BY <1>2, Zenon DEF Settled, StartCopies
<1>4. \A p \in Proc : Recovered(InitialFiles[p]) \in StartCopies
  BY <1>3, RecoveredIsAFile, StartCopyType, Zenon
<1>5. CopiesIn(StartCopies \union {u.copy : u \in {}})
  BY <1>1, <1>3, <1>4, Zenon DEF CopiesIn, EmptyMap
<1>6. MadeBy({})
  BY <1>1, <1>5, Zenon DEF MadeBy
<1>7. QED
  BY <1>6, Zenon DEF MadeInv

-----------------------------------------------------------------------------
(***************************************************************************)
(* Linearizability                                                         *)
(***************************************************************************)
\* A total order of S, given by the elements before each one.
Ordered(S, B) ==
    /\ B \in [S -> SUBSET S]
    /\ \A i \in S : i \notin B[i]
    /\ \A i, j \in S : i \in B[j] => B[i] \subseteq B[j]
    /\ \A i, j \in S : i = j \/ i \in B[j] \/ j \in B[i]

InOrder(S, B, ord) ==
    /\ \A i \in S : \E k \in DOMAIN ord : ord[k] = i
    /\ \A j, k \in DOMAIN ord : ord[j] \in B[ord[k]] => j < k

\* A finite set with a total order is enumerated in that order.
LEMMA Enumeration ==
  ASSUME NEW S, IsFiniteSet(S), NEW B, Ordered(S, B)
  PROVE  \E ord \in Orders(S) : InOrder(S, B, ord)
<1> USE DEF Ordered
<1>1. PICK n : n = Cardinality(S)
  BY Zenon
<1>2. n \in Nat
  BY <1>1, FS_CardinalityType, Zenon
<1>3. ASSUME NEW i \in S
      PROVE  IsFiniteSet(B[i]) /\ Cardinality(B[i]) \in Nat /\ Cardinality(B[i]) < n
  <2>1. B[i] \in SUBSET S /\ B[i] # S
    BY Zenon
  <2>2. IsFiniteSet(B[i]) /\ Cardinality(B[i]) <= Cardinality(S) /\ Cardinality(B[i]) # Cardinality(S)
    BY <2>1, FS_Subset, Zenon
  <2>3. Cardinality(B[i]) \in Nat
    BY <2>2, FS_CardinalityType, Zenon
  <2>4. QED
    BY <1>1, <1>2, <2>2, <2>3
<1>4. ASSUME NEW i \in S, NEW j \in S, i \in B[j]
      PROVE  Cardinality(B[i]) < Cardinality(B[j])
  <2>1. B[i] \in SUBSET B[j] /\ B[i] # B[j]
    BY <1>4, Zenon
  <2>2. Cardinality(B[i]) <= Cardinality(B[j]) /\ Cardinality(B[i]) # Cardinality(B[j])
    BY <1>3, <2>1, FS_Subset, Zenon
  <2>3. QED
    BY <1>3, <2>2
<1>5. PICK rank : rank = [i \in S |-> Cardinality(B[i]) + 1]
  BY Zenon
<1>6. \A i \in S : rank[i] = Cardinality(B[i]) + 1 /\ rank[i] \in 1 .. n
  BY <1>2, <1>3, <1>5
<1>7. \A i, j \in S : i \in B[j] => rank[i] < rank[j]
  BY <1>3, <1>4, <1>6
<1>8. \A i, j \in S : rank[i] = rank[j] => i = j
  <2>1. \A i, j \in S : rank[i] < rank[j] => rank[i] # rank[j]
    BY <1>2, <1>6
  <2>2. QED
    BY <1>7, <2>1, Zenon
<1>9. \A k \in 1 .. n : \E i \in S : rank[i] = k
  <2>1. rank \in [S -> 1 .. n]
    BY <1>5, <1>6, Zenon
  <2>2. rank \in Injection(S, 1 .. n)
    BY <1>8, <2>1, Zenon DEF Injection, IsInjective
  <2>3. IsFiniteSet(1 .. n) /\ Cardinality(1 .. n) = n
    BY <1>2, FS_Interval
  <2>4. rank \in Surjection(S, 1 .. n)
    BY <1>1, <2>2, <2>3, FS_Injection, Zenon
  <2>5. QED
    BY <2>4, Zenon DEF Surjection
<1>10. PICK ord : ord = [k \in 1 .. n |-> CHOOSE i \in S : rank[i] = k]
  BY Zenon
<1>11. DOMAIN ord = 1 .. n /\ \A k \in 1 .. n : ord[k] \in S /\ rank[ord[k]] = k
  BY <1>9, <1>10, Zenon
<1>12. ord \in [1 .. n -> S]
  BY <1>10, <1>11, Zenon
<1>13. ord \in Orders(S)
  BY <1>1, <1>11, <1>12, Zenon DEF Orders
<1>14. ASSUME NEW i \in S PROVE \E k \in DOMAIN ord : ord[k] = i
  <2>1. rank[i] \in DOMAIN ord /\ ord[rank[i]] \in S /\ rank[ord[rank[i]]] = rank[i]
    BY <1>6, <1>11, Zenon
  <2>2. QED
    BY <1>8, <2>1, Zenon
<1>15. ASSUME NEW j \in DOMAIN ord, NEW k \in DOMAIN ord, ord[j] \in B[ord[k]] PROVE j < k
  <2>1. ord[j] \in S /\ ord[k] \in S /\ rank[ord[j]] = j /\ rank[ord[k]] = k
    BY <1>11, Zenon
  <2>2. rank[ord[j]] < rank[ord[k]]
    BY <1>7, <1>15, <2>1, Zenon
  <2>3. QED
    BY <2>1, <2>2, Zenon
<1>16. QED
  BY <1>13, <1>14, <1>15, Zenon DEF InOrder

\* The place of an operation among the others: by version, then the write before the
\* reads of its copy, then the command that came first.
Place == [ts : Nat, wr : 0 .. N, read : {0, 1}, id : Nat]

Precedes(x, y) ==
    \/ Newer(y, x)
    \/ SameVersion(x, y) /\ (x.read < y.read \/ (x.read = y.read /\ x.id < y.id))

LEMMA PlacesOrdered ==
  ASSUME NEW x \in Place, NEW y \in Place, NEW z \in Place
  PROVE  /\ ~Precedes(x, x)
         /\ Precedes(x, y) /\ Precedes(y, z) => Precedes(x, z)
         /\ x.id = y.id \/ Precedes(x, y) \/ Precedes(y, x)
<1>1. /\ x.ts \in Nat /\ y.ts \in Nat /\ z.ts \in Nat /\ x.wr \in Nat /\ y.wr \in Nat /\ z.wr \in Nat
      /\ x.read \in Nat /\ y.read \in Nat /\ z.read \in Nat /\ x.id \in Nat /\ y.id \in Nat /\ z.id \in Nat
  BY NAssumption DEF Place
<1>2. QED
  BY <1>1 DEF Precedes, Newer, SameVersion

Placed(S, place) == place \in [S -> Place] /\ \A i \in S : place[i].id = i

ByPlace(S, place, ord) ==
    /\ \A i \in S : \E k \in DOMAIN ord : ord[k] = i
    /\ \A j, k \in DOMAIN ord : Precedes(place[ord[j]], place[ord[k]]) <=> j < k

LEMMA InPlace ==
  ASSUME NEW S, IsFiniteSet(S), NEW place, Placed(S, place)
  PROVE  \E ord \in Orders(S) : ByPlace(S, place, ord)
<1>1. PICK B : B = [i \in S |-> {j \in S : Precedes(place[j], place[i])}]
  BY Zenon
<1>2. B \in [S -> SUBSET S] /\ \A i, j \in S : j \in B[i] <=> Precedes(place[j], place[i])
  BY <1>1, Zenon
<1>3. \A i, j, k \in S : /\ ~Precedes(place[i], place[i])
                         /\ Precedes(place[i], place[j]) /\ Precedes(place[j], place[k]) =>
                               Precedes(place[i], place[k])
                         /\ i = j \/ Precedes(place[i], place[j]) \/ Precedes(place[j], place[i])
  BY PlacesOrdered, Zenon DEF Placed
<1>4. \A i \in S : i \notin B[i]
  BY <1>2, <1>3, Zenon
<1>5. \A i, j \in S : i \in B[j] => B[i] \subseteq B[j]
  <2>1. SUFFICES ASSUME NEW i \in S, NEW j \in S, i \in B[j], NEW k \in B[i] PROVE k \in B[j]
    BY Zenon
  <2>2. k \in S
    BY <1>2, Zenon
  <2>3. QED
    BY <1>2, <1>3, <2>1, <2>2, Zenon
<1>6. \A i, j \in S : i = j \/ i \in B[j] \/ j \in B[i]
  BY <1>2, <1>3, Zenon
<1>7. PICK ord \in Orders(S) : InOrder(S, B, ord)
  <2>1. Ordered(S, B)
    BY <1>2, <1>4, <1>5, <1>6, Zenon DEF Ordered
  <2>2. QED
    BY <2>1, Enumeration, Zenon
<1>8. Cardinality(S) \in Nat
  BY FS_CardinalityType, Zenon
<1>9. DOMAIN ord = 1 .. Cardinality(S) /\ \A k \in DOMAIN ord : ord[k] \in S
  BY <1>7, Zenon DEF Orders
<1>10. ASSUME NEW j \in DOMAIN ord, NEW k \in DOMAIN ord
       PROVE  Precedes(place[ord[j]], place[ord[k]]) <=> j < k
  <2>1. Precedes(place[ord[j]], place[ord[k]]) => j < k
    BY <1>2, <1>7, <1>9, Zenon DEF InOrder
  <2>2. Precedes(place[ord[k]], place[ord[j]]) => k < j
    BY <1>2, <1>7, <1>9, Zenon DEF InOrder
  <2>3. ord[j] = ord[k] \/ Precedes(place[ord[j]], place[ord[k]]) \/ Precedes(place[ord[k]], place[ord[j]])
    BY <1>3, <1>9, Zenon
  <2>4. ord[j] = ord[k] => j = k
    BY <1>7, Zenon DEF Orders
  <2>5. ~(j < k /\ (j = k \/ k < j))
    BY <1>8, <1>9
  <2>6. QED
    BY <2>1, <2>2, <2>3, <2>4, <2>5, Zenon
<1>11. QED
  BY <1>7, <1>10, Zenon DEF InOrder, ByPlace

\* The operations in S have versions that explain them: different writes have
\* different ones, a read has that of a write or of the start, and they follow real
\* time.
Versioned(S, ver) ==
    /\ ver \in [S -> Copy]
    /\ \A i \in S : ver[i].val = hist[i].data
    /\ \A i \in S : i \in Writes => Newer(ver[i], StartCopy)
    /\ \A i, j \in S : i \in Writes /\ j \in Writes => i = j \/ ~SameVersion(ver[i], ver[j])
    /\ \A i \in S : i \notin Writes =>
          ver[i] = StartCopy \/ \E j \in S : j \in Writes /\ ver[j] = ver[i]
    /\ \A i, j \in S : i \in hist[j].before =>
          i < j /\ ~Newer(ver[i], ver[j]) /\ (j \in Writes => Newer(ver[j], ver[i]))

\* The operations that returned have such versions, together with the writes that took
\* effect and did not return: those that they sent out, or made.
LEMMA OperationsVersioned ==
  ASSUME IInv, CommandInv, DurableQuorum, VersionsFollowRealTime, EarlierInv, StartInv, MadeInv, lexical
  PROVE  \E P \in SUBSET (Pending \intersect Writes) : \E ver : Versioned(Returned \union P, ver)
<1>1. PICK M : MadeBy(M)
  BY Zenon DEF MadeInv
<1>2. PICK P : P = {i \in Pending \intersect Writes : \E u \in M : u.id = i}
  BY Zenon
<1>3. PICK S : S = Returned \union P
  BY Zenon
<1>4. \A w : w \in M \/ w \in proposed => w.copy \in Copy
  BY <1>1, Zenon DEF MadeBy, IInv, TypeOK
<1>5. \A i \in S : /\ i \in DOMAIN hist
                   /\ i \in Returned \/ (i \in Writes /\ i \notin Returned)
  BY <1>2, <1>3, Zenon DEF Returned, Pending
<1> DEFINE Has(i, c) ==
             /\ c \in Copy /\ c.val = hist[i].data
             /\ i \in Returned => \E w \in proposed : w.id = i /\ w.copy = c
             /\ i \in Writes => \E u \in M : u.id = i /\ u.copy = c
<1>6. ASSUME NEW i \in S PROVE \E c : Has(i, c)
  <2>1. CASE i \in Returned
    <3>1. PICK w \in proposed : w.id = i /\ w.copy.val = hist[i].data
      BY <2>1, Zenon DEF DurableQuorum
    <3>2. i \in Writes => w \in M
      BY <1>1, <3>1, Zenon DEF MadeBy, Writes
    <3>3. Has(i, w.copy)
      BY <1>4, <3>1, <3>2, Zenon
    <3>4. QED
      BY <3>3, Zenon
  <2>2. CASE i \notin Returned
    <3>1. PICK u \in M : u.id = i
      BY <1>2, <1>3, <2>2, Zenon
    <3>2. u.copy.val = hist[i].data
      BY <1>1, <3>1, Zenon DEF MadeBy
    <3>3. Has(i, u.copy)
      BY <1>4, <2>2, <3>1, <3>2, Zenon
    <3>4. QED
      BY <3>3, Zenon
  <2>3. QED
    BY <2>1, <2>2, Zenon
<1>7. PICK ver : ver = [i \in S |-> CHOOSE c : Has(i, c)]
  BY Zenon
<1>8. \A i \in S : Has(i, ver[i])
  BY <1>6, <1>7, Zenon
<1>9. ver \in [S -> Copy]
  BY <1>7, <1>8, Zenon
<1>10. \A i \in S : ver[i] \in Copy /\ ver[i].val = hist[i].data
  BY <1>8, Zenon
<1>11. /\ \A i \in S : i \in Returned => \E w \in proposed : w.id = i /\ w.copy = ver[i]
       /\ \A i \in S : i \in Writes => \E u \in M : u.id = i /\ u.copy = ver[i]
  BY <1>8, Zenon
<1> HIDE DEF Has
<1>12. \A i \in S : i \in Writes => Newer(ver[i], StartCopy)
  BY <1>1, <1>11, Zenon DEF MadeBy
<1>13. ASSUME NEW i \in S, NEW j \in S, i \in Writes, j \in Writes PROVE i = j \/ ~SameVersion(ver[i], ver[j])
  <2>1. PICK u \in M : u.id = i /\ u.copy = ver[i]
    BY <1>11, <1>13, Zenon
  <2>2. PICK v \in M : v.id = j /\ v.copy = ver[j]
    BY <1>11, <1>13, Zenon
  <2>3. u = v \/ ~SameVersion(u.copy, v.copy)
    BY <1>1, Zenon DEF MadeBy
  <2>4. QED
    BY <2>1, <2>2, <2>3, Zenon
<1>14. ASSUME NEW i \in S, i \notin Writes, ver[i] # StartCopy
       PROVE  \E j \in S : j \in Writes /\ ver[j] = ver[i]
  <2>1. PICK w \in proposed : w.copy = ver[i]
    BY <1>5, <1>11, <1>14, Zenon
  <2>2. ~Newer(StartCopy, ver[i]) /\ ver[i] \in StartCopies \union {u.copy : u \in M}
    BY <1>1, <2>1, Zenon DEF StartInv, MadeBy, CopiesIn
  <2>3. PICK u \in M : u.copy = ver[i]
    BY <1>14, <2>2, Zenon DEF StartCopies
  <2>4. u.id \in Writes /\ u.id \in S
    BY <1>1, <1>2, <1>3, Zenon DEF MadeBy, Writes, Returned
  <2>5. PICK v \in M : v.id = u.id /\ v.copy = ver[u.id]
    BY <1>11, <2>4, Zenon
  <2>6. u = v
    BY <1>1, <2>5, Zenon DEF MadeBy
  <2>7. QED
    BY <2>3, <2>4, <2>5, <2>6, Zenon
<1>15. ASSUME NEW i \in S, NEW j \in S, i \in hist[j].before
       PROVE  i < j /\ ~Newer(ver[i], ver[j]) /\ (j \in Writes => Newer(ver[j], ver[i]))
  <2>1. i < j /\ i \in Returned
    BY <1>5, <1>15, Zenon DEF EarlierInv, CommandInv
  <2>2. PICK w \in proposed : w.id = i /\ w.copy = ver[i]
    BY <1>11, <2>1, Zenon
  <2>3. CASE j \in Writes
    <3>1. PICK u \in M : u.id = j /\ u.copy = ver[j]
      BY <1>11, <2>3, Zenon
    <3>2. Newer(ver[j], ver[i])
      BY <1>1, <1>15, <2>2, <3>1, Zenon DEF MadeBy
    <3>3. QED
      BY <1>10, <2>1, <3>2, NewerIrreflexive, Zenon
  <2>4. CASE j \notin Writes
    <3>1. PICK v \in proposed : v.id = j /\ v.copy = ver[j]
      BY <1>5, <1>11, <2>4, Zenon
    <3>2. QED
      BY <1>15, <2>1, <2>2, <2>4, <3>1, Zenon DEF VersionsFollowRealTime
  <2>5. QED
    BY <2>3, <2>4, Zenon
<1>16. Versioned(S, ver)
  BY <1>9, <1>10, <1>12, <1>13, <1>14, <1>15, Zenon DEF Versioned
<1>17. P \in SUBSET (Pending \intersect Writes)
  BY <1>2, Zenon
<1>18. QED
  BY <1>3, <1>16, <1>17, Zenon

\* Operations with such versions have an order that respects real time and in which
\* every read returns what the last write before it wrote.
LEMMA VersionsLinearize ==
  ASSUME IInv, NEW S \in SUBSET DOMAIN hist, NEW ver, Versioned(S, ver)
  PROVE  \E ord \in Orders(S) :
            /\ RespectsRealTime(ord)
            /\ \A k \in DOMAIN ord : ord[k] \in Reads => hist[ord[k]].data = ContentAfter(ord, k)
<1>1. IsFiniteSet(S) /\ S \subseteq Nat
  <2>1. hist \in Seq(ClientOp)
    BY Zenon DEF IInv, TypeOK
  <2>2. DOMAIN hist = 1 .. Len(hist) /\ Len(hist) \in Nat
    BY <2>1
  <2>3. IsFiniteSet(1 .. Len(hist)) /\ 1 .. Len(hist) \subseteq Nat
    BY <2>2, FS_Interval
  <2>4. QED
    BY <2>2, <2>3, FS_Subset, Zenon
<1>2. PICK place : place = [i \in S |-> [ts |-> ver[i].ts, wr |-> ver[i].wr,
                                         read |-> IF i \in Writes THEN 0 ELSE 1, id |-> i]]
  BY Zenon
<1>3. \A i \in S : ver[i] \in Copy
  BY Zenon DEF Versioned
<1>4. \A i \in S : /\ place[i].ts = ver[i].ts /\ place[i].wr = ver[i].wr /\ place[i].id = i
                   /\ place[i].read = IF i \in Writes THEN 0 ELSE 1
  BY <1>2, Zenon
<1>5. place \in [S -> Place]
  <2>1. \A i \in S : ver[i].ts \in Nat /\ ver[i].wr \in 0 .. N /\ i \in Nat
    BY <1>1, <1>3, Zenon DEF Copy
  <2>2. QED
    BY <1>2, <2>1, Zenon DEF Place
<1>6. PICK ord \in Orders(S) :
         /\ \A i \in S : \E k \in DOMAIN ord : ord[k] = i
         /\ \A j, k \in DOMAIN ord : Precedes(place[ord[j]], place[ord[k]]) <=> j < k
  <2>1. Placed(S, place)
    BY <1>4, <1>5, Zenon DEF Placed
  <2>2. PICK ord \in Orders(S) : ByPlace(S, place, ord)
    BY <1>1, <2>1, InPlace, Zenon
  <2>3. QED
    BY <2>2, Zenon DEF ByPlace
<1>7. Cardinality(S) \in Nat
  BY <1>1, FS_CardinalityType, Zenon
<1>8. DOMAIN ord = 1 .. Cardinality(S) /\ \A k \in DOMAIN ord : ord[k] \in S
  BY <1>6, Zenon DEF Orders
\* The order of two operations, by their versions.
<1>9. ASSUME NEW i \in S, NEW j \in S
      PROVE  /\ Newer(ver[j], ver[i]) => Precedes(place[i], place[j])
             /\ (SameVersion(ver[i], ver[j]) /\ i \in Writes /\ j \notin Writes) => Precedes(place[i], place[j])
             /\ (SameVersion(ver[i], ver[j]) /\ i \notin Writes /\ j \notin Writes /\ i < j) =>
                   Precedes(place[i], place[j])
             /\ Precedes(place[i], place[j]) => Newer(ver[j], ver[i]) \/ SameVersion(ver[i], ver[j])
  <2>1. /\ Newer(place[j], place[i]) <=> Newer(ver[j], ver[i])
        /\ SameVersion(place[i], place[j]) <=> SameVersion(ver[i], ver[j])
    BY <1>4, Zenon DEF Newer, SameVersion
  <2>2. /\ i \in Writes /\ j \notin Writes => place[i].read < place[j].read
        /\ i \notin Writes /\ j \notin Writes => place[i].read = place[j].read
        /\ place[i].id = i /\ place[j].id = j
    <3>1. 0 < 1
      OBVIOUS
    <3>2. QED
      BY <1>4, <3>1, Zenon
  <2>3. QED
    BY <2>1, <2>2, Zenon DEF Precedes
<1>10. \A f, g \in Copy : Newer(f, g) \/ Newer(g, f) \/ SameVersion(f, g)
  BY DEF Newer, SameVersion, Copy
<1>11. ASSUME NEW j \in DOMAIN ord, NEW k \in DOMAIN ord, j < k, ord[k] \in hist[ord[j]].before
       PROVE  FALSE
  <2>1. /\ ord[k] < ord[j] /\ ~Newer(ver[ord[k]], ver[ord[j]])
        /\ ord[j] \in Writes => Newer(ver[ord[j]], ver[ord[k]])
    BY <1>8, <1>11, Zenon DEF Versioned
  <2>2. ~Precedes(place[ord[k]], place[ord[j]])
    <3>1. ~(k < j)
      BY <1>7, <1>8, <1>11
    <3>2. QED
      BY <1>6, <3>1, Zenon
  <2>3. ~Newer(ver[ord[j]], ver[ord[k]])
    BY <1>8, <1>9, <2>2, Zenon
  <2>4. SameVersion(ver[ord[k]], ver[ord[j]])
    BY <1>3, <1>8, <1>10, <2>1, <2>3, Zenon
  <2>5. QED
    BY <1>8, <1>9, <2>1, <2>2, <2>3, <2>4, Zenon
<1>12. RespectsRealTime(ord)
  BY <1>11, Zenon DEF RespectsRealTime
<1>13. ASSUME NEW k \in DOMAIN ord, ord[k] \in Reads PROVE hist[ord[k]].data = ContentAfter(ord, k)
  <2>1. PICK l : l = ord[k]
    BY Zenon
  <2> DEFINE W == {j \in 1 .. k : ord[j] \in Writes}
  <2>2. \A j : j \in W <=> j \in 1 .. k /\ ord[j] \in Writes
    BY Zenon
  <2>3. l \in S /\ l \notin Writes /\ ver[l].val = hist[l].data
    BY <1>8, <1>13, <2>1, Zenon DEF Versioned, Reads, Writes
  <2>4. ContentAfter(ord, k) = IF W = {} THEN StartCopy.val
                               ELSE hist[ord[CHOOSE j \in W : \A i \in W : i <= j]].data
    BY Zenon DEF ContentAfter
  <2> HIDE DEF W
  <2>5. ASSUME NEW j \in W
        PROVE  /\ j \in DOMAIN ord /\ ord[j] \in S /\ ord[j] \in Writes
               /\ Newer(ver[l], ver[ord[j]]) \/ SameVersion(ver[ord[j]], ver[l])
    <3>1. ord[j] \in Writes /\ j \in 1 .. k
      BY <2>2, Zenon
    <3>2. j \in DOMAIN ord /\ (j < k \/ j = k)
      BY <1>7, <1>8, <3>1
    <3>3. j < k
      BY <2>1, <2>3, <3>1, <3>2, Zenon
    <3>4. Precedes(place[ord[j]], place[l])
      BY <1>6, <2>1, <3>2, <3>3, Zenon
    <3>5. QED
      BY <1>8, <1>9, <2>3, <3>1, <3>2, <3>4, Zenon
  <2>6. CASE ver[l] = StartCopy
    <3>1. ASSUME NEW j \in W PROVE FALSE
      <4>1. Newer(ver[ord[j]], StartCopy) /\ ver[ord[j]] \in Copy
        BY <1>3, <2>5, Zenon DEF Versioned
      <4>2. ~Newer(StartCopy, ver[ord[j]]) /\ ~SameVersion(ver[ord[j]], StartCopy)
        BY <4>1, StartCopyType, NewerIrreflexive, Zenon
      <4>3. QED
        BY <2>5, <2>6, <4>2, Zenon
    <3>2. W = {}
      BY <3>1, Zenon
    <3>3. QED
      BY <2>1, <2>3, <2>4, <2>6, <3>2, Zenon
  <2>7. CASE ver[l] # StartCopy
    <3>1. PICK i \in S : i \in Writes /\ ver[i] = ver[l]
      BY <2>3, <2>7, Zenon DEF Versioned
    <3>2. PICK b \in DOMAIN ord : ord[b] = i
      BY <1>6, Zenon
    <3>3. b < k
      <4>1. SameVersion(ver[i], ver[l])
        BY <3>1, Zenon DEF SameVersion
      <4>2. Precedes(place[ord[b]], place[ord[k]])
        BY <1>9, <2>1, <2>3, <3>1, <3>2, <4>1, Zenon
      <4>3. QED
        BY <1>6, <4>2, Zenon
    <3>4. b \in W
      <4>1. b \in 1 .. k
        BY <1>7, <1>8, <3>3
      <4>2. QED
        BY <2>2, <3>1, <3>2, <4>1, Zenon
    <3>5. ASSUME NEW j \in W PROVE j <= b /\ j \in Nat
      <4>1. j \in DOMAIN ord /\ ord[j] \in S /\ ord[j] \in Writes
        BY <2>5, Zenon
      <4>2. CASE Newer(ver[l], ver[ord[j]])
        <5>1. Precedes(place[ord[j]], place[ord[b]])
          BY <1>9, <3>1, <3>2, <4>1, <4>2, Zenon
        <5>2. j < b
          BY <1>6, <4>1, <5>1, Zenon
        <5>3. QED
          BY <1>7, <1>8, <4>1, <5>2
      <4>3. CASE SameVersion(ver[ord[j]], ver[l])
        <5>1. ord[j] = ord[b]
          BY <3>1, <3>2, <4>1, <4>3, Zenon DEF Versioned
        <5>2. j = b
          BY <1>6, <4>1, <5>1, Zenon DEF Orders
        <5>3. QED
          BY <1>7, <1>8, <5>2
      <4>4. QED
        BY <2>5, <4>2, <4>3, Zenon
    <3>6. PICK t : t = CHOOSE j \in W : \A h \in W : h <= j
      BY Zenon
    <3>7. t \in W /\ \A h \in W : h <= t
      BY <3>4, <3>5, <3>6, Zenon
    <3>8. t = b
      <4>1. t <= b /\ b <= t /\ t \in Nat /\ b \in Nat
        BY <3>4, <3>5, <3>7, Zenon
      <4>2. QED
        BY <4>1
    <3>9. ContentAfter(ord, k) = hist[ord[t]].data
      BY <2>4, <3>4, <3>6, Zenon
    <3>10. ver[i].val = hist[i].data
      BY <3>1, Zenon DEF Versioned
    <3>11. QED
      BY <2>1, <2>3, <3>1, <3>2, <3>8, <3>9, <3>10, Zenon
  <2>8. QED
    BY <2>6, <2>7, Zenon
<1>14. QED
  BY <1>6, <1>12, <1>13, Zenon

\* The registers of atomic_register.rs are one atomic register for their clients, as
\* long as every choice of its Value branch was the highest by (ts, wr): on any
\* directories that no write under way has left, for every number of processes, of
\* operations at once and of crashes, over links that lose, repeat and reorder, the
\* commands have an order in which each read returns the last write before it.
THEOREM Linearizability ==
  ASSUME Settled
  PROVE  Spec => []LinearizableIfHighest
<1> DEFINE All == /\ IInv /\ KindInv /\ CopiesIn(Genuine) /\ DiskInv /\ DurableQuorum /\ OrderInv
           Effects == EarlierInv /\ StartInv /\ MadeInv
<1>1. Spec => []All
  BY Invariance, CommandInvariance, DiskInvariance, ReturnsAreDurable, OrderInvariance, PTL
<1>2. Init => Effects
  BY StartInit, MadeInit, Zenon
<1>3. All /\ All' /\ Effects /\ [Next]_vars => Effects'
  BY EarlierNext, StartNext, MadeNext, Zenon DEF OrderInv
<1>4. All /\ Effects => LinearizableIfHighest
  <2> SUFFICES ASSUME All, Effects, lexical PROVE Linearizable
    BY Zenon DEF LinearizableIfHighest
  <2>1. PICK P \in SUBSET (Pending \intersect Writes) : \E ver : Versioned(Returned \union P, ver)
    BY OperationsVersioned, Zenon DEF OrderInv
  <2>2. Returned \union P \in SUBSET DOMAIN hist
    BY Zenon DEF Returned, Pending
  <2>3. QED
    BY <2>1, <2>2, VersionsLinearize, Zenon DEF Linearizable
<1>5. QED
  BY <1>1, <1>2, <1>3, <1>4, PTL DEF Spec
=============================================================================
